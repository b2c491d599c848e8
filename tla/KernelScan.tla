------------------------------ MODULE KernelScan ------------------------------
(***************************************************************************)
(* The /scan route: nl80211::scan::scan talks to the kernel over netlink.  *)
(* Each handler opens a socket of its own, dumps the interfaces to find    *)
(* the index of wlan0, triggers a scan, then joins the "scan" multicast    *)
(* group, waits for one notification and dumps the results.                *)
(*                                                                         *)
(* The kernel handles a message inside the send of it, so what a command   *)
(* does and what is queued in answer are one step with the send.  Scans    *)
(* are also started by others (NetworkManager), on wlan0 and on another    *)
(* radio, and wlan0 may be unplugged and plugged in again, which gives it  *)
(* a new index.                                                            *)
(***************************************************************************)
EXTENDS Naturals, Sequences, FiniteSets, SequencesExt

CONSTANTS
    Handlers,     \* the /scan requests
    MaxPlugs,     \* bound on how often wlan0 is plugged in
    MaxScans      \* bound on the completed scans of one interface

ASSUME KernelScanAssumption == MaxPlugs \in Nat \ {0} /\ MaxScans \in Nat

None == "none"

\* Interface indexes: wlan0 has 1 to MaxPlugs in turn, another radio the next.
\* 0 is the index of no interface.
Other == MaxPlugs + 1
Indices == 1..Other
NoIndex == 0

VARIABLES
    (* the kernel *)
    wlan,          \* the last index of wlan0
    present,       \* whether wlan0 is plugged in
    scanning,      \* the interfaces with a scan in progress
    scans,         \* the number of completed scans of each interface: how old
                   \* its BSS table is
    (* the handlers *)
    pc,            \* the await each handler is at
    socket,        \* the datagrams queued on its main socket
    mcast,         \* the first notification on its multicast socket, if any
    items,         \* what recv_all has collected
    index,         \* iface.index
    result,
    (* history *)
    asked,         \* scans[index] when the handler triggered
    stranded       \* handlers nothing more need come for: they joined the group
                   \* when no scan was running, or were refused a dump

kernel == <<wlan, present, scanning, scans>>
vars == <<kernel, pc, socket, mcast, items, index, result, asked, stranded>>

Commands == {"interfaces", "trigger", "results"}
Datagrams == [answers : Commands, items : SUBSET Nat, done : BOOLEAN]
Notifications ==
    [cmd : {"TriggerScan", "NewScanResults", "ScanAborted"}, iface : Indices]

TypeOK ==
    /\ wlan \in Indices \ {Other}
    /\ present \in BOOLEAN
    /\ scanning \in SUBSET Indices
    /\ scans \in [Indices -> 0..MaxScans]
    /\ pc \in [Handlers -> Commands \cup {"idle", "complete", "done", "gone", "panicked"}]
    /\ socket \in [Handlers -> Seq(Datagrams)]
    /\ mcast \in [Handlers -> {<<>>} \cup {<<n>> : n \in Notifications}]
    /\ items \in [Handlers -> SUBSET Nat]
    /\ index \in [Handlers -> Indices \cup {NoIndex}]
    /\ \A h \in Handlers : pc[h] \in {"trigger", "complete", "results"} => index[h] # NoIndex
    /\ result \in [Handlers -> {None, "error", "stations"}]
    /\ asked \in [Handlers -> 0..MaxScans]
    /\ stranded \in SUBSET Handlers

Init ==
    /\ wlan = 1
    /\ present \in BOOLEAN
    /\ scanning = {}
    /\ scans = [i \in Indices |-> 0]
    /\ pc = [h \in Handlers |-> "idle"]
    /\ socket = [h \in Handlers |-> <<>>]
    /\ mcast = [h \in Handlers |-> <<>>]
    /\ items = [h \in Handlers |-> {}]
    /\ index = [h \in Handlers |-> NoIndex]
    /\ result = [h \in Handlers |-> None]
    /\ asked = [h \in Handlers |-> 0]
    /\ stranded = {}

Present == {Other} \cup (IF present THEN {wlan} ELSE {})

-----------------------------------------------------------------------------
(* The kernel. *)

\* Every member of the group is notified; only the first notification a
\* socket receives is ever read.
Notify(cmd, i) ==
    mcast' = [h \in Handlers |->
        IF pc[h] = "complete" /\ mcast[h] = <<>>
        THEN <<[cmd |-> cmd, iface |-> i]>> ELSE mcast[h]]

StartScan(i) ==
    /\ i \in Present \ scanning
    /\ scans[i] < MaxScans
    /\ scanning' = scanning \cup {i}
    /\ Notify("TriggerScan", i)
    /\ UNCHANGED <<wlan, present, scans>>

\* Another program scans.
OthersScan ==
    /\ \E i \in Indices : StartScan(i)
    /\ UNCHANGED <<pc, socket, items, index, result, asked, stranded>>

ScanEnds(i) ==
    /\ i \in scanning
    /\ scanning' = scanning \ {i}
    /\ \/ /\ Notify("NewScanResults", i)
          /\ scans' = [scans EXCEPT ![i] = @ + 1]
       \/ /\ Notify("ScanAborted", i)
          /\ UNCHANGED scans
    /\ UNCHANGED <<wlan, present, pc, socket, items, index, result, asked, stranded>>

Unplug ==
    /\ present
    /\ present' = FALSE
    /\ scanning' = scanning \ {wlan}
    /\ IF wlan \in scanning THEN Notify("ScanAborted", wlan) ELSE UNCHANGED mcast
    /\ UNCHANGED <<wlan, scans, pc, socket, items, index, result, asked, stranded>>

Plug ==
    /\ ~present
    /\ wlan < MaxPlugs
    /\ present' = TRUE
    /\ wlan' = wlan + 1
    /\ UNCHANGED <<scanning, scans, pc, socket, mcast, items, index, result,
                   asked, stranded>>

Datagram(c, s, d) == [answers |-> c, items |-> s, done |-> d]

\* The answer to a dump: the items and the end of the dump, in one datagram or
\* two; or just an error, when the kernel is out of memory.
Dump(c, s) ==
    { <<Datagram(c, s, TRUE)>>,
      <<Datagram(c, s, FALSE), Datagram(c, {}, TRUE)>>,
      <<Datagram(c, {}, FALSE)>> }

\* GetInterface: the interfaces by the name of wlan0.
Interfaces == Dump("interfaces", IF present THEN {wlan} ELSE {})

\* GetScan: the BSS table of interface i.  Of an interface that is gone there
\* is only the end of the dump, whose error code nobody looks at.
Results(i) == Dump("results", IF i \in Present THEN {scans[i]} ELSE {})

-----------------------------------------------------------------------------
(* The handlers, each from one await to the next. *)

Goto(h, l) == pc' = [pc EXCEPT ![h] = l]

\* The sockets are closed with the future that owns them.
Leave(h, l) == Goto(h, l) /\ socket' = [socket EXCEPT ![h] = <<>>]
Return(h, r) == Leave(h, "done") /\ result' = [result EXCEPT ![h] = r]

\* The send of a command to dump, and the answer to it.
SendDump(h, answers) ==
    \E answer \in answers :
        /\ socket' = [socket EXCEPT ![h] = answer]
        /\ stranded' = IF Last(answer).done THEN stranded ELSE stranded \cup {h}

\* create_main_socket, which may fail, then the send of get_interfaces, whose
\* failure is a panic.
GetInterfaces(h) ==
    /\ pc[h] = "idle"
    /\ \/ /\ Goto(h, "interfaces")
          /\ SendDump(h, Interfaces)
          /\ UNCHANGED result
       \/ Return(h, "error") /\ UNCHANGED stranded
       \/ Leave(h, "panicked") /\ UNCHANGED <<result, stranded>>
    /\ UNCHANGED <<kernel, mcast, items, index, asked>>

\* The send of trigger_scan.  The kernel starts a scan, or refuses to: it is
\* busy, the interface is gone or cannot scan.  Both are acknowledged.
TriggerScan(h, i) ==
    /\ \/ StartScan(i)
       \/ UNCHANGED <<kernel, mcast>>
    /\ asked' = [asked EXCEPT ![h] = scans[i]]
    /\ socket' = [socket EXCEPT ![h] = Append(Tail(@), Datagram("trigger", {}, FALSE))]

BuggyRecvInterfaces(h) ==     \* one recv is taken for the whole dump
    /\ pc[h] = "interfaces"
    /\ socket[h] # <<>>
    /\ LET found == Head(socket[h]).items IN
        \/ /\ found = {}
           /\ Return(h, "error")
           /\ UNCHANGED <<kernel, mcast, index, asked>>
        \/ \E i \in found :
            /\ index' = [index EXCEPT ![h] = i]
            /\ Goto(h, "trigger")
            /\ TriggerScan(h, i)
            /\ UNCHANGED result
    /\ UNCHANGED <<items, stranded>>

UnfoundRecvInterfaces(h) ==     \* "Interface not found" is not an error
    /\ pc[h] = "interfaces"
    /\ socket[h] # <<>>
    /\ LET found == items[h] \cup Head(socket[h]).items IN
        \/ /\ ~Head(socket[h]).done
           /\ items' = [items EXCEPT ![h] = found]
           /\ socket' = [socket EXCEPT ![h] = Tail(@)]
           /\ UNCHANGED <<kernel, mcast, pc, index, asked>>
        \/ /\ Head(socket[h]).done
           /\ items' = [items EXCEPT ![h] = {}]
           /\ index' = [index EXCEPT ![h] = IF found = {} THEN NoIndex ELSE Max(found)]
           /\ Goto(h, "trigger")
           /\ socket' = [socket EXCEPT ![h] = Tail(@)]
           /\ UNCHANGED <<kernel, mcast, asked>>
    /\ UNCHANGED <<result, stranded>>

\* A datagram for the recv_all of get_interfaces.  At the end of the dump:
\* wlan0 is looked up, and a scan of it is triggered.
RecvInterfaces(h) ==
    /\ pc[h] = "interfaces"
    /\ socket[h] # <<>>
    /\ LET found == items[h] \cup Head(socket[h]).items IN
        \/ /\ ~Head(socket[h]).done
           /\ items' = [items EXCEPT ![h] = found]
           /\ socket' = [socket EXCEPT ![h] = Tail(@)]
           /\ UNCHANGED <<kernel, mcast, pc, index, result, asked>>
        \/ /\ Head(socket[h]).done
           /\ found = {}
           /\ Return(h, "error")
           /\ UNCHANGED <<kernel, mcast, items, index, asked>>
        \/ /\ Head(socket[h]).done
           /\ \E i \in found :
                /\ index' = [index EXCEPT ![h] = i]
                /\ TriggerScan(h, i)
           /\ items' = [items EXCEPT ![h] = {}]
           /\ Goto(h, "trigger")
           /\ UNCHANGED result
    /\ UNCHANGED stranded

\* The acknowledgement is back, whatever it says; create_multicast_socket.
RecvAck(h) ==
    /\ pc[h] = "trigger"
    /\ socket[h] # <<>>
    /\ socket' = [socket EXCEPT ![h] = Tail(@)]
    /\ Goto(h, "complete")
    /\ stranded' = IF scanning = {} THEN stranded \cup {h} ELSE stranded
    /\ UNCHANGED <<kernel, mcast, items, index, result, asked>>

BuggyCompleteScan(h) ==     \* any notification is taken for the results
    /\ pc[h] = "complete"
    /\ mcast[h] # <<>>
    /\ Goto(h, "results")
    /\ SendDump(h, Results(index[h]))
    /\ UNCHANGED <<kernel, mcast, items, index, result, asked>>

\* complete_scan: the first notification, whose interface is not looked at,
\* has to be NewScanResults.  Then the send of get_scan_results.
CompleteScan(h) ==
    /\ pc[h] = "complete"
    /\ mcast[h] # <<>>
    /\ \/ /\ mcast[h][1].cmd = "NewScanResults"
          /\ Goto(h, "results")
          /\ SendDump(h, Results(index[h]))
          /\ UNCHANGED result
       \/ /\ mcast[h][1].cmd # "NewScanResults"
          /\ Return(h, "error")
          /\ UNCHANGED stranded
    /\ UNCHANGED <<kernel, mcast, items, index, asked>>

OverlookingRecvResults(h) ==     \* Done is looked for in the first message only
    /\ pc[h] = "results"
    /\ socket[h] # <<>>
    /\ items' = [items EXCEPT ![h] = @ \cup Head(socket[h]).items]
    /\ IF Head(socket[h]).done /\ Head(socket[h]).items = {}
       THEN Return(h, "stations")
       ELSE /\ socket' = [socket EXCEPT ![h] = Tail(@)]
            /\ UNCHANGED <<pc, result>>
    /\ UNCHANGED <<kernel, mcast, index, asked, stranded>>

\* A datagram for the recv_all of get_scan_results.
RecvResults(h) ==
    /\ pc[h] = "results"
    /\ socket[h] # <<>>
    /\ items' = [items EXCEPT ![h] = @ \cup Head(socket[h]).items]
    /\ IF Head(socket[h]).done
       THEN Return(h, "stations")
       ELSE /\ socket' = [socket EXCEPT ![h] = Tail(@)]
            /\ UNCHANGED <<pc, result>>
    /\ UNCHANGED <<kernel, mcast, index, asked, stranded>>

Active(h) == pc[h] \notin {"idle", "done", "gone", "panicked"}

\* A call on a netlink socket fails after that.
Fails(h) ==
    /\ Active(h)
    /\ Return(h, "error")
    /\ UNCHANGED <<kernel, mcast, items, index, asked, stranded>>

\* The HTTP client closes its connection and the handler is dropped.
ClientLeaves(h) ==
    /\ Active(h)
    /\ Leave(h, "gone")
    /\ UNCHANGED <<kernel, mcast, items, index, result, asked, stranded>>

-----------------------------------------------------------------------------

Poll(h) == RecvInterfaces(h) \/ RecvAck(h) \/ CompleteScan(h) \/ RecvResults(h)

Next ==
    \/ OthersScan
    \/ Unplug
    \/ Plug
    \/ \E i \in Indices : ScanEnds(i)
    \/ \E h \in Handlers : GetInterfaces(h) \/ Poll(h) \/ Fails(h) \/ ClientLeaves(h)

Spec == Init /\ [][Next]_vars

\* tokio polls a handler whose socket is readable, and a driver ends every
\* scan it has started.
Fairness ==
    /\ \A h \in Handlers : WF_vars(Poll(h))
    /\ \A i \in Indices : WF_vars(ScanEnds(i))

FairSpec == Spec /\ Fairness

-----------------------------------------------------------------------------
(* Properties. *)

\* The replies of the kernel stay in step with the commands of a handler,
\* which carry no sequence number: what is queued on its socket answers the
\* command it is waiting on, and nothing is left when it waits on none.
Synchronised ==
    \A h \in Handlers : Active(h) =>
        \A d \in ToSet(socket[h]) : d.answers = pc[h]

\* The notification that ends the wait may be about a scan someone else asked
\* for, and still the stations returned are those of a scan that ended after
\* the request: unless the notification was about another radio, or the
\* interface is gone and the list is empty.
FreshResults ==
    \A h \in Handlers :
        (result[h] = "stations" /\ mcast[h][1].iface = index[h])
            => \A n \in items[h] : n > asked[h]

\* A request comes to an end, unless it joined the group when there was no
\* scan left to report, or the kernel refused its dump.
Returns ==
    \A h \in Handlers : Active(h) ~> (~Active(h) \/ h \in stranded)
==============================================================================
