---------------------------- MODULE KernelScanProofs ----------------------------
(***************************************************************************)
(* Proofs about KernelScan, for every set of requests and any number of    *)
(* scans and of interfaces wlan0 has been.                                 *)
(***************************************************************************)
EXTENDS KernelScan, SequenceTheorems, TLAPS

-----------------------------------------------------------------------------
(* The inductive invariant, in parts. *)

\* All that is queued for a handler answers the command it awaits, the end of
\* a dump comes last, and an acknowledgement comes alone.
Queue(h) ==
    /\ \A k \in DOMAIN socket[h] :
        /\ socket[h][k].answers = pc[h]
        /\ socket[h][k].done => k = Len(socket[h])
    /\ pc[h] = "trigger" => Len(socket[h]) <= 1

\* What a handler takes for the index of wlan0 is one that wlan0 has had.
Found(h) ==
    /\ pc[h] \in {"idle", "trigger", "complete"} => items[h] = {}
    /\ pc[h] = "interfaces" =>
        /\ items[h] \subseteq 1..MaxPlugs
        /\ \A k \in DOMAIN socket[h] : socket[h][k].items \subseteq 1..MaxPlugs

\* The notification of handler h is about its interface.
About(h) == mcast[h] # <<>> /\ mcast[h][1].iface = index[h]

\* A notification comes after the trigger, so that the results it announces
\* are those of a scan that ended after it.
Heard(h) ==
    /\ pc[h] \in {"idle", "interfaces", "trigger"} => mcast[h] = <<>>
    /\ pc[h] \in {"trigger", "complete", "results"} => scans[index[h]] >= asked[h]
    /\ pc[h] = "complete" /\ About(h) /\ mcast[h][1].cmd = "NewScanResults"
            => scans[index[h]] > asked[h]
    /\ result[h] # None => pc[h] = "done"
    /\ pc[h] = "results" \/ result[h] = "stations" =>
        /\ mcast[h] # <<>>
        /\ About(h) => \A n \in items[h] : n > asked[h]
    /\ pc[h] = "results" /\ About(h) =>
        \A k \in DOMAIN socket[h] : \A n \in socket[h][k].items : n > asked[h]

IInv ==
    /\ TypeOK
    /\ \A i \in scanning : scans[i] < MaxScans
    /\ \A h \in Handlers : Queue(h) /\ Found(h) /\ Heard(h)

-----------------------------------------------------------------------------
(* Lemmas. *)

\* The answers to a dump: of one command, and only the last may end it.
LEMMA Dumps ==
    ASSUME NEW c \in Commands, NEW s \in SUBSET Nat, NEW answer \in Dump(c, s)
    PROVE  /\ answer \in Seq(Datagrams)
           /\ \A k \in DOMAIN answer :
                /\ answer[k].answers = c
                /\ answer[k].items \subseteq s
                /\ answer[k].done => k = Len(answer)
<1>1. \A x \in SUBSET Nat, d \in BOOLEAN : Datagram(c, x, d) \in Datagrams
  BY DEF Datagram, Datagrams
<1>2. s \in SUBSET Nat /\ {} \in SUBSET Nat /\ TRUE \in BOOLEAN /\ FALSE \in BOOLEAN
  OBVIOUS
<1>3. CASE answer = <<Datagram(c, s, TRUE)>>
  <2>1. Datagram(c, s, TRUE) \in Datagrams
    BY <1>1, <1>2
  <2> QED
    BY <1>3, <2>1 DEF Datagram
<1>4. CASE answer = <<Datagram(c, {}, FALSE)>>
  <2>1. Datagram(c, {}, FALSE) \in Datagrams
    BY <1>1, <1>2
  <2> QED
    BY <1>4, <2>1 DEF Datagram
<1>5. CASE answer = <<Datagram(c, s, FALSE), Datagram(c, {}, TRUE)>>
  <2>1. Datagram(c, s, FALSE) \in Datagrams /\ Datagram(c, {}, TRUE) \in Datagrams
    BY <1>1, <1>2
  <2> QED
    BY <1>5, <2>1 DEF Datagram
<1> QED
  BY <1>3, <1>4, <1>5 DEF Dump

\* The first datagram is taken off a socket.
LEMMA Taken ==
    ASSUME NEW s \in Seq(Datagrams), s # <<>>
    PROVE  /\ Tail(s) \in Seq(Datagrams)
           /\ Len(Tail(s)) = Len(s) - 1 /\ Len(s) \in Nat
           /\ Len(s) = 1 => Tail(s) = <<>>
           /\ \A k \in DOMAIN Tail(s) : k + 1 \in DOMAIN s /\ Tail(s)[k] = s[k + 1] /\ k \in Nat
           /\ Head(s) = s[1] /\ 1 \in DOMAIN s /\ s[1] \in Datagrams
           /\ s[1].answers \in Commands /\ s[1].items \in SUBSET Nat /\ s[1].done \in BOOLEAN
<1>1. s[1] \in Datagrams
  OBVIOUS
<1>2. s[1].answers \in Commands /\ s[1].items \in SUBSET Nat /\ s[1].done \in BOOLEAN
  BY <1>1 DEF Datagrams
<1>3. ASSUME Len(s) = 1 PROVE Tail(s) = <<>>
  <2>1. Tail(s) \in Seq(Datagrams) /\ Len(Tail(s)) = 0
    BY <1>3
  <2> QED
    BY <2>1, EmptySeq
<1> QED
  BY <1>1, <1>2, <1>3

\* The interfaces are numbered.
LEMMA Numbers == /\ 1..MaxPlugs \subseteq Indices /\ Indices \subseteq Nat /\ Other \in Indices
                 /\ Indices \ {Other} = 1..MaxPlugs /\ MaxPlugs \in Nat
                 /\ NoIndex \notin Indices
BY KernelScanAssumption DEF Indices, Other, NoIndex

\* No table gets older by being left alone.
LEMMA NotOlder ==
    ASSUME TypeOK, UNCHANGED scans
    PROVE  \A k \in Indices : scans'[k] >= scans[k]
<1> SUFFICES ASSUME NEW k \in Indices PROVE scans'[k] >= scans[k]
  OBVIOUS
<1>1. scans \in [Indices -> 0..MaxScans] /\ MaxScans \in Nat
  BY KernelScanAssumption DEF TypeOK
<1>2. scans[k] \in 0..MaxScans
  BY <1>1
<1>3. scans[k] \in Int
  BY <1>2
<1> QED
  BY <1>3

\* What another handler and the kernel may do about handler g: nothing but
\* notify it, when it waits for that, of a scan that ends then.
LEMMA Unaffected ==
    ASSUME IInv, TypeOK', NEW g \in Handlers,
           pc'[g] = pc[g], socket'[g] = socket[g], items'[g] = items[g], index'[g] = index[g],
           result'[g] = result[g], asked'[g] = asked[g],
           \A i \in Indices : scans'[i] >= scans[i],
           \/ mcast'[g] = mcast[g]
           \/ /\ pc[g] = "complete"
              /\ \E n \in Notifications :
                    /\ mcast'[g] = <<n>>
                    /\ n.cmd = "NewScanResults" => scans'[n.iface] > scans[n.iface]
    PROVE  Queue(g)' /\ Found(g)' /\ Heard(g)'
<1> USE Numbers DEF IInv
<1>1. Queue(g)' /\ Found(g)'
  BY DEF Queue, Found
<1>2. /\ pc[g] \in {"trigger", "complete", "results"} => index[g] \in Indices
      /\ \A i \in Indices : scans[i] \in Nat /\ scans'[i] \in Nat
      /\ asked[g] \in Nat
  BY DEF TypeOK
<1>3. ASSUME mcast'[g] = mcast[g] PROVE Heard(g)'
  BY <1>2, <1>3 DEF Heard, About
<1>4. ASSUME NEW n \in Notifications, pc[g] = "complete", mcast'[g] = <<n>>,
             n.cmd = "NewScanResults" => scans'[n.iface] > scans[n.iface]
      PROVE  Heard(g)'
  <2>1. mcast'[g][1] = n /\ mcast'[g] # <<>>
    BY <1>4
  <2>2. result[g] = None /\ scans'[index[g]] >= asked[g] /\ scans[index[g]] >= asked[g]
    BY <1>2, <1>4 DEF Heard
  <2>3. About(g)' => n.iface = index[g]
    BY <2>1 DEF About
  <2> QED
    BY <1>2, <1>4, <2>1, <2>2, <2>3 DEF Heard, None
<1> QED
  BY <1>1, <1>3, <1>4

\* A notification is sent to those who wait for one and have none.
LEMMA Notified ==
    ASSUME TypeOK, NEW i \in Indices, NEW c \in {"TriggerScan", "NewScanResults", "ScanAborted"},
           Notify(c, i)
    PROVE  /\ mcast' \in [Handlers -> {<<>>} \cup {<<n>> : n \in Notifications}]
           /\ \A g \in Handlers :
                \/ mcast'[g] = mcast[g]
                \/ pc[g] = "complete" /\ \E n \in Notifications :
                        mcast'[g] = <<n>> /\ n.cmd = c /\ n.iface = i
<1>1. [cmd |-> c, iface |-> i] \in Notifications
  BY DEF Notifications
<1>2. ASSUME NEW g \in Handlers
      PROVE  \/ mcast'[g] = mcast[g]
             \/ pc[g] = "complete" /\ mcast'[g] = <<[cmd |-> c, iface |-> i]>>
  BY DEF Notify
<1> QED
  BY <1>1, <1>2 DEF Notify, TypeOK

-----------------------------------------------------------------------------
(* The kernel keeps the invariant. *)

\* A scan that someone else starts is heard of, and is not a result.
LEMMA OthersScanned == ASSUME IInv, OthersScan PROVE IInv'
<1>1. PICK i \in Indices : StartScan(i)
  BY DEF OthersScan
<1>2. UNCHANGED <<pc, socket, items, index, result, asked, stranded, wlan, present, scans>>
  BY <1>1 DEF OthersScan, StartScan
<1>3. /\ mcast' \in [Handlers -> {<<>>} \cup {<<n>> : n \in Notifications}]
      /\ \A g \in Handlers :
            \/ mcast'[g] = mcast[g]
            \/ pc[g] = "complete" /\ \E n \in Notifications :
                    mcast'[g] = <<n>> /\ n.cmd = "TriggerScan" /\ n.iface = i
  BY <1>1, Notified DEF StartScan, IInv
<1>4. TypeOK'
  BY <1>1, <1>2, <1>3 DEF StartScan, IInv, TypeOK
<1>5. \A k \in Indices : scans'[k] >= scans[k]
  BY <1>2, NotOlder DEF IInv
<1>6. ASSUME NEW g \in Handlers PROVE Queue(g)' /\ Found(g)' /\ Heard(g)'
  BY <1>2, <1>3, <1>4, <1>5, Unaffected
<1>7. \A k \in scanning' : scans'[k] < MaxScans
  BY <1>1, <1>2 DEF StartScan, IInv
<1> QED
  BY <1>4, <1>6, <1>7 DEF IInv

\* A scan that ends makes the results newer and is announced as it does.
LEMMA ScanEnded == ASSUME IInv, NEW i \in Indices, ScanEnds(i) PROVE IInv'
<1>1. PICK c \in {"NewScanResults", "ScanAborted"} :
        /\ Notify(c, i)
        /\ scans' = IF c = "NewScanResults" THEN [scans EXCEPT ![i] = @ + 1] ELSE scans
  BY DEF ScanEnds
<1>2. UNCHANGED <<wlan, present, pc, socket, items, index, result, asked, stranded>>
  BY DEF ScanEnds
<1>3. /\ mcast' \in [Handlers -> {<<>>} \cup {<<n>> : n \in Notifications}]
      /\ \A g \in Handlers :
            \/ mcast'[g] = mcast[g]
            \/ pc[g] = "complete" /\ \E n \in Notifications :
                    mcast'[g] = <<n>> /\ n.cmd = c /\ n.iface = i
  BY <1>1, Notified DEF IInv
<1>4. /\ scans' \in [Indices -> 0..MaxScans]
      /\ \A k \in Indices : scans'[k] >= scans[k]
      /\ c = "NewScanResults" => scans'[i] > scans[i]
      /\ \A k \in scanning' : scans'[k] < MaxScans
  <2>1. i \in scanning /\ scanning' = scanning \ {i}
    BY DEF ScanEnds
  <2> QED
    BY <1>1, <2>1, KernelScanAssumption DEF IInv, TypeOK
<1>5. TypeOK'
  BY <1>2, <1>3, <1>4 DEF ScanEnds, IInv, TypeOK
<1>6. ASSUME NEW g \in Handlers PROVE Queue(g)' /\ Found(g)' /\ Heard(g)'
  BY <1>2, <1>3, <1>4, <1>5, Unaffected
<1> QED
  BY <1>4, <1>5, <1>6 DEF IInv

\* An interface that goes takes its scan with it.
LEMMA Unplugged == ASSUME IInv, Unplug PROVE IInv'
<1>1. UNCHANGED <<wlan, scans, pc, socket, items, index, result, asked, stranded>>
      /\ present' = FALSE /\ scanning' = scanning \ {wlan}
  BY DEF Unplug
<1>2. /\ mcast' \in [Handlers -> {<<>>} \cup {<<n>> : n \in Notifications}]
      /\ \A g \in Handlers :
            \/ mcast'[g] = mcast[g]
            \/ pc[g] = "complete" /\ \E n \in Notifications :
                    mcast'[g] = <<n>> /\ n.cmd = "ScanAborted"
  <2>1. CASE Notify("ScanAborted", wlan)
    BY <2>1, Notified DEF IInv, TypeOK
  <2>2. CASE UNCHANGED mcast
    BY <2>2 DEF IInv, TypeOK
  <2> QED
    BY <2>1, <2>2 DEF Unplug
<1>3. TypeOK'
  BY <1>1, <1>2 DEF IInv, TypeOK
<1>4. \A k \in Indices : scans'[k] >= scans[k]
  BY <1>1, NotOlder DEF IInv
<1>5. ASSUME NEW g \in Handlers PROVE Queue(g)' /\ Found(g)' /\ Heard(g)'
  BY <1>1, <1>2, <1>3, <1>4, Unaffected
<1> QED
  BY <1>1, <1>3, <1>5 DEF IInv

\* wlan0 comes back as another interface.
LEMMA Plugged == ASSUME IInv, Plug PROVE IInv'
<1>1. /\ UNCHANGED <<scanning, scans, pc, socket, mcast, items, index, result, asked, stranded>>
      /\ present' = TRUE /\ wlan' = wlan + 1 /\ wlan < MaxPlugs
  BY DEF Plug
<1>2. wlan' \in Indices \ {Other}
  <2>1. wlan \in 1..MaxPlugs /\ MaxPlugs \in Nat
    BY Numbers DEF IInv, TypeOK
  <2>2. wlan' \in 1..MaxPlugs
    BY <1>1, <2>1
  <2> QED
    BY <2>2, Numbers
<1>3. TypeOK'
  BY <1>1, <1>2 DEF IInv, TypeOK
<1>4. \A k \in Indices : scans'[k] >= scans[k]
  BY <1>1, NotOlder DEF IInv
<1>5. ASSUME NEW g \in Handlers PROVE Queue(g)' /\ Found(g)' /\ Heard(g)'
  BY <1>1, <1>3, <1>4, Unaffected
<1> QED
  BY <1>1, <1>3, <1>5 DEF IInv

-----------------------------------------------------------------------------
(* The handlers keep the invariant. *)

\* What is left to show when handler h takes a step and the kernel none.
LEMMA Steps ==
    ASSUME IInv, TypeOK', NEW h \in Handlers, UNCHANGED <<kernel, mcast>>,
           \A g \in Handlers \ {h} :
                /\ pc'[g] = pc[g] /\ socket'[g] = socket[g] /\ items'[g] = items[g]
                /\ index'[g] = index[g] /\ result'[g] = result[g] /\ asked'[g] = asked[g],
           Queue(h)' /\ Found(h)' /\ Heard(h)'
    PROVE  IInv'
<1>1. \A k \in Indices : scans'[k] >= scans[k]
  BY NotOlder DEF IInv, kernel
<1>2. ASSUME NEW g \in Handlers \ {h} PROVE Queue(g)' /\ Found(g)' /\ Heard(g)'
  BY <1>1, Unaffected DEF kernel
<1> QED
  BY <1>2 DEF IInv, kernel

\* The future of handler h ends: nothing is left on its socket, and if it
\* returns stations they are fresh.
LEMMA Leaves ==
    ASSUME IInv, NEW h \in Handlers, NEW l \in {"done", "gone", "panicked"}, Leave(h, l),
           UNCHANGED <<kernel, mcast, index, asked, stranded>>,
           \/ UNCHANGED <<items, result>> /\ pc[h] # "done"
           \/ /\ l = "done" /\ UNCHANGED items
              /\ result' = [result EXCEPT ![h] = "error"]
           \/ /\ l = "done" /\ result' = [result EXCEPT ![h] = "stations"]
              /\ items' \in [Handlers -> SUBSET Nat]
              /\ \A g \in Handlers \ {h} : items'[g] = items[g]
              /\ mcast[h] # <<>>
              /\ About(h) => \A n \in items'[h] : n > asked[h]
    PROVE  IInv'
<1>1. /\ pc' = [pc EXCEPT ![h] = l] /\ socket' = [socket EXCEPT ![h] = <<>>]
      /\ pc'[h] = l /\ socket'[h] = <<>>
      /\ \A g \in Handlers \ {h} : pc'[g] = pc[g] /\ socket'[g] = socket[g]
  BY DEF Leave, Goto, IInv, TypeOK
<1>2. /\ \A g \in Handlers \ {h} : items'[g] = items[g] /\ result'[g] = result[g]
      /\ \A g \in Handlers : index'[g] = index[g] /\ asked'[g] = asked[g]
  BY DEF IInv, TypeOK
<1>3. TypeOK'
  <2>1. socket' \in [Handlers -> Seq(Datagrams)] /\ items' \in [Handlers -> SUBSET Nat]
    BY <1>1 DEF IInv, TypeOK
  <2>2. \A g \in Handlers :
            pc'[g] \in {"trigger", "complete", "results"} => index'[g] # NoIndex
    BY <1>1, <1>2 DEF IInv, TypeOK
  <2> QED
    BY <1>1, <2>1, <2>2 DEF IInv, TypeOK, kernel
<1>4. Queue(h)' /\ Found(h)'
  BY <1>1 DEF Queue, Found
<1>5. Heard(h)'
  <2>1. result'[h] # None => l = "done"
    BY DEF IInv, TypeOK, Heard
  <2>2. result'[h] = "stations" =>
            mcast[h] # <<>> /\ (About(h) => \A n \in items'[h] : n > asked[h])
    BY DEF IInv, TypeOK, Heard
  <2>3. About(h)' <=> About(h)
    BY DEF About
  <2> QED
    BY <1>1, <2>1, <2>2, <2>3 DEF Heard, None
<1> QED
  BY <1>1, <1>2, <1>3, <1>4, <1>5, Steps

\* get_interfaces is sent on a new socket.
LEMMA GetsInterfaces == ASSUME IInv, NEW h \in Handlers, GetInterfaces(h) PROVE IInv'
<1>1. pc[h] = "idle" /\ UNCHANGED <<kernel, mcast, items, index, asked>>
  BY DEF GetInterfaces
<1>2. CASE Goto(h, "interfaces") /\ UNCHANGED result
           /\ SendDump(h, Interfaces)
  <2>1. PICK answer \in Interfaces :
            /\ socket' = [socket EXCEPT ![h] = answer]
            /\ stranded' \in {stranded, stranded \cup {h}}
    BY <1>2 DEF SendDump
  <2> DEFINE s == IF present THEN {wlan} ELSE {}
  <2>2. s \in SUBSET Nat /\ s \subseteq 1..MaxPlugs
    BY Numbers DEF IInv, TypeOK
  <2>3. /\ answer \in Seq(Datagrams)
        /\ \A k \in DOMAIN answer :
            /\ answer[k].answers = "interfaces"
            /\ answer[k].items \subseteq 1..MaxPlugs
            /\ answer[k].done => k = Len(answer)
    <3>1. "interfaces" \in Commands
      BY DEF Commands
    <3> QED
      BY <2>2, <3>1, Dumps DEF Interfaces
  <2>4. /\ pc'[h] = "interfaces" /\ socket'[h] = answer
        /\ \A g \in Handlers \ {h} : pc'[g] = pc[g] /\ socket'[g] = socket[g]
    BY <1>2, <2>1 DEF Goto, IInv, TypeOK
  <2>5. TypeOK'
    <3>1. "interfaces" \in Commands
      BY DEF Commands
    <3> QED
      BY <1>1, <1>2, <2>1, <2>3, <3>1 DEF IInv, TypeOK, Goto, kernel
  <2>6. Queue(h)' /\ Found(h)'
    BY <1>1, <2>3, <2>4 DEF IInv, Queue, Found
  <2>7. Heard(h)'
    BY <1>1, <1>2, <2>4 DEF IInv, Heard, About
  <2> QED
    BY <1>1, <1>2, <2>4, <2>5, <2>6, <2>7, Steps
<1>3. CASE Return(h, "error") /\ UNCHANGED stranded
  BY <1>1, <1>3, Leaves DEF Return
<1>4. CASE Leave(h, "panicked") /\ UNCHANGED <<result, stranded>>
  BY <1>1, <1>4, Leaves
<1> QED
  BY <1>2, <1>3, <1>4 DEF GetInterfaces

\* The part of RecvInterfaces that has found wlan0 at index i.
Triggering(h, i) ==
    /\ pc[h] = "interfaces" /\ socket[h] # <<>>
    /\ Head(socket[h]).done = TRUE
    /\ i \in items[h] \cup Head(socket[h]).items
    /\ index' = [index EXCEPT ![h] = i]
    /\ TriggerScan(h, i)
    /\ items' = [items EXCEPT ![h] = {}]
    /\ Goto(h, "trigger")
    /\ UNCHANGED <<result, stranded>>

\* wlan0 is found at the end of the dump, and a scan triggered.
LEMMA Triggers == ASSUME IInv, NEW h \in Handlers, NEW i, Triggering(h, i) PROVE IInv'
<1> USE DEF IInv
<1>0. pc[h] = "interfaces" /\ socket[h] # <<>>
  BY DEF Triggering
<1> DEFINE s == socket[h]
           ack == Datagram("trigger", {}, FALSE)
<1>1. /\ s[1] = Head(s) /\ 1 \in DOMAIN s /\ Tail(s) \in Seq(Datagrams)
      /\ Len(Tail(s)) = Len(s) - 1 /\ Len(s) \in Nat
  BY <1>0, Taken DEF TypeOK
<1>2. Len(s) = 1 /\ Tail(s) = <<>>
  <2>1. Len(s) = 1
    BY <1>1 DEF Queue, Triggering
  <2>2. s \in Seq(Datagrams) /\ s # <<>>
    BY <1>0 DEF TypeOK
  <2> QED
    BY <2>1, <2>2, Taken, Zenon
<1>3. i \in Indices /\ i \in Nat
  BY <1>0, <1>1, Numbers DEF Found, Triggering
<1>4. socket'[h] = <<ack>> /\ socket' = [socket EXCEPT ![h] = <<ack>>]
  <2>1. socket' = [socket EXCEPT ![h] = Append(Tail(s), ack)]
    BY DEF TriggerScan, Triggering
  <2>2. \A a : Append(<<>>, a) = <<a>>
    OBVIOUS
  <2> QED
    BY <1>2, <2>1, <2>2 DEF TypeOK
<1>5. ack \in Datagrams /\ ack.answers = "trigger" /\ ack.done = FALSE /\ <<ack>> \in Seq(Datagrams)
  <2>1. ack \in Datagrams
    BY DEF Datagram, Datagrams, Commands
  <2> QED
    BY <2>1 DEF Datagram
<1>6. /\ UNCHANGED <<wlan, present, scans>>
      /\ scanning' \in SUBSET Indices
      /\ \A k \in scanning' : scans'[k] < MaxScans
      /\ mcast' \in [Handlers -> {<<>>} \cup {<<n>> : n \in Notifications}]
      /\ \A g \in Handlers :
            \/ mcast'[g] = mcast[g]
            \/ pc[g] = "complete" /\ \E n \in Notifications :
                    mcast'[g] = <<n>> /\ n.cmd = "TriggerScan" /\ n.iface = i
  <2>1. CASE StartScan(i)
    <3>1. Notify("TriggerScan", i)
      BY <2>1 DEF StartScan
    <3>2. /\ mcast' \in [Handlers -> {<<>>} \cup {<<n>> : n \in Notifications}]
          /\ \A g \in Handlers :
                \/ mcast'[g] = mcast[g]
                \/ pc[g] = "complete" /\ \E n \in Notifications :
                        mcast'[g] = <<n>> /\ n.cmd = "TriggerScan" /\ n.iface = i
      BY <1>3, <3>1, Notified
    <3> QED
      BY <1>3, <2>1, <3>2 DEF StartScan, TypeOK
  <2>2. CASE UNCHANGED <<kernel, mcast>>
    BY <2>2 DEF kernel, TypeOK
  <2> QED
    BY <2>1, <2>2 DEF TriggerScan, Triggering
<1>7. /\ pc'[h] = "trigger" /\ index'[h] = i /\ items'[h] = {} /\ asked'[h] = scans[i]
      /\ asked' = [asked EXCEPT ![h] = scans[i]] /\ pc' = [pc EXCEPT ![h] = "trigger"]
      /\ index' = [index EXCEPT ![h] = i] /\ items' = [items EXCEPT ![h] = {}]
      /\ UNCHANGED <<result, stranded>>
      /\ mcast'[h] = mcast[h] /\ result'[h] = result[h]
      /\ \A g \in Handlers \ {h} :
            /\ pc'[g] = pc[g] /\ socket'[g] = socket[g] /\ items'[g] = items[g]
            /\ index'[g] = index[g] /\ result'[g] = result[g] /\ asked'[g] = asked[g]
  <2>1. asked' = [asked EXCEPT ![h] = scans[i]] /\ mcast'[h] = mcast[h]
    BY <1>0, <1>6 DEF TriggerScan, Triggering
  <2>2. /\ pc' = [pc EXCEPT ![h] = "trigger"] /\ index' = [index EXCEPT ![h] = i]
        /\ items' = [items EXCEPT ![h] = {}] /\ UNCHANGED <<result, stranded>>
    BY DEF Goto, Triggering
  <2>3. pc'[h] = "trigger" /\ index'[h] = i
    BY <2>2 DEF TypeOK
  <2>5. items'[h] = {} /\ asked'[h] = scans[i]
    BY <2>1, <2>2 DEF TypeOK
  <2>6. result'[h] = result[h]
    BY <2>2
  <2>4. ASSUME NEW g \in Handlers \ {h}
        PROVE  /\ pc'[g] = pc[g] /\ socket'[g] = socket[g] /\ items'[g] = items[g]
               /\ index'[g] = index[g] /\ result'[g] = result[g] /\ asked'[g] = asked[g]
    BY <1>4, <2>1, <2>2 DEF TypeOK
  <2> QED
    BY <2>1, <2>2, <2>3, <2>4, <2>5, <2>6
<1>8. TypeOK'
  <2>1. \A g \in Handlers :
            pc'[g] \in {"trigger", "complete", "results"} => index'[g] # NoIndex
    BY <1>3, <1>7, Numbers DEF TypeOK
  <2>2. scans[i] \in 0..MaxScans
    BY <1>3 DEF TypeOK
  <2> QED
    BY <1>3, <1>4, <1>5, <1>6, <1>7, <2>1, <2>2 DEF TypeOK, Commands
<1>9. Queue(h)' /\ Found(h)'
  <2>1. Len(<<ack>>) = 1 /\ DOMAIN <<ack>> = {1} /\ <<ack>>[1] = ack
    OBVIOUS
  <2> HIDE DEF ack
  <2> QED
    BY <1>4, <1>5, <1>7, <2>1 DEF Queue, Found
<1>10. Heard(h)'
  <2>1. mcast[h] = <<>> /\ result[h] = None
    BY <1>0 DEF Heard
  <2>2. scans'[i] >= scans[i]
    BY <1>3, <1>6 DEF TypeOK
  <2> QED
    BY <1>6, <1>7, <2>1, <2>2 DEF Heard, None
<1>11. ASSUME NEW g \in Handlers \ {h} PROVE Queue(g)' /\ Found(g)' /\ Heard(g)'
  <2>1. \A k \in Indices : scans'[k] >= scans[k]
    BY <1>6, NotOlder
  <2> QED
    BY <1>6, <1>7, <1>8, <2>1, Unaffected
<1> QED
  BY <1>6, <1>8, <1>9, <1>10, <1>11

\* A part of the dump of the interfaces is kept, and its end decides.
LEMMA ReceivesInterfaces == ASSUME IInv, NEW h \in Handlers, RecvInterfaces(h) PROVE IInv'
<1> DEFINE s == socket[h]
           found == items[h] \cup Head(s).items
<1>1. pc[h] = "interfaces" /\ s # <<>> /\ UNCHANGED stranded
  BY DEF RecvInterfaces
<1>2. CASE /\ ~Head(s).done
           /\ items' = [items EXCEPT ![h] = found]
           /\ socket' = [socket EXCEPT ![h] = Tail(@)]
           /\ UNCHANGED <<kernel, mcast, pc, index, result, asked>>
  <2>1. /\ Tail(s) \in Seq(Datagrams) /\ Len(Tail(s)) = Len(s) - 1 /\ Len(s) \in Nat
        /\ \A k \in DOMAIN Tail(s) : k + 1 \in DOMAIN s /\ Tail(s)[k] = s[k + 1] /\ k \in Nat
        /\ Head(s) = s[1] /\ 1 \in DOMAIN s /\ s[1].items \in SUBSET Nat
    BY <1>1, Taken DEF IInv, TypeOK
  <2>2. /\ socket'[h] = Tail(s) /\ items'[h] = found
        /\ \A g \in Handlers \ {h} : socket'[g] = socket[g] /\ items'[g] = items[g]
    BY <1>2 DEF IInv, TypeOK
  <2>3. TypeOK'
    BY <1>1, <1>2, <2>1 DEF IInv, TypeOK, kernel
  <2>4. Queue(h)' /\ Found(h)'
    BY <1>1, <1>2, <2>1, <2>2 DEF IInv, Queue, Found
  <2>5. Heard(h)'
    BY <1>1, <1>2, <2>2 DEF IInv, Heard, None
  <2> QED
    BY <1>2, <2>2, <2>3, <2>4, <2>5, Steps
<1>3. CASE Return(h, "error") /\ UNCHANGED <<kernel, mcast, items, index, asked>>
  BY <1>1, <1>3, Leaves DEF Return
<1>4. ASSUME Head(s).done, NEW i \in found, index' = [index EXCEPT ![h] = i], TriggerScan(h, i),
             items' = [items EXCEPT ![h] = {}], Goto(h, "trigger"), UNCHANGED result
      PROVE  IInv'
  <2>1. Head(s).done \in BOOLEAN
    BY <1>1, Taken DEF IInv, TypeOK
  <2>2. Triggering(h, i)
    BY <1>1, <1>4, <2>1 DEF Triggering
  <2> QED
    BY <2>2, Triggers
<1> QED
  BY <1>2, <1>3, <1>4 DEF RecvInterfaces

\* The acknowledgement is the only datagram there is.
LEMMA ReceivesAck == ASSUME IInv, NEW h \in Handlers, RecvAck(h) PROVE IInv'
<1> USE DEF IInv
<1>1. /\ pc[h] = "trigger" /\ socket[h] # <<>> /\ socket' = [socket EXCEPT ![h] = Tail(@)]
      /\ pc' = [pc EXCEPT ![h] = "complete"] /\ stranded' \in {stranded, stranded \cup {h}}
      /\ UNCHANGED <<kernel, mcast, items, index, result, asked>>
  BY DEF RecvAck, Goto
<1>2. Tail(socket[h]) = <<>>
  <2>1. Len(socket[h]) <= 1 /\ socket[h] \in Seq(Datagrams)
    BY <1>1 DEF Queue, TypeOK
  <2> QED
    BY <1>1, <2>1
<1>3. /\ socket'[h] = <<>> /\ pc'[h] = "complete"
      /\ \A g \in Handlers \ {h} : socket'[g] = socket[g] /\ pc'[g] = pc[g]
  BY <1>1, <1>2 DEF TypeOK
<1>4. TypeOK'
  <2>1. socket' \in [Handlers -> Seq(Datagrams)]
    BY <1>1, <1>2 DEF TypeOK
  <2>2. \A g \in Handlers :
            pc'[g] \in {"trigger", "complete", "results"} => index'[g] # NoIndex
    BY <1>1, <1>3 DEF TypeOK
  <2> QED
    BY <1>1, <2>1, <2>2 DEF TypeOK, kernel
<1>5. Queue(h)' /\ Found(h)'
  BY <1>1, <1>3 DEF Queue, Found
<1>6. Heard(h)'
  BY <1>1, <1>3 DEF Heard, About, None, kernel
<1> QED
  BY <1>1, <1>3, <1>4, <1>5, <1>6, Steps

\* The notification is NewScanResults, and the results are as new as it says.
LEMMA CompletesScan == ASSUME IInv, NEW h \in Handlers, CompleteScan(h) PROVE IInv'
<1> USE DEF IInv
<1>1. pc[h] = "complete" /\ mcast[h] # <<>> /\ UNCHANGED <<kernel, mcast, items, index, asked>>
  BY DEF CompleteScan
<1>2. ASSUME mcast[h][1].cmd = "NewScanResults", Goto(h, "results"), UNCHANGED result,
             NEW answer \in Results(index[h]), socket' = [socket EXCEPT ![h] = answer],
             stranded' \in {stranded, stranded \cup {h}}
      PROVE  IInv'
  <2> DEFINE s == IF index[h] \in Present THEN {scans[index[h]]} ELSE {}
  <2>1. s \in SUBSET Nat /\ index[h] \in Indices
    BY <1>1 DEF TypeOK
  <2>2. /\ answer \in Seq(Datagrams)
        /\ \A k \in DOMAIN answer :
            /\ answer[k].answers = "results"
            /\ answer[k].items \subseteq {scans[index[h]]}
            /\ answer[k].done => k = Len(answer)
    <3>1. "results" \in Commands
      BY DEF Commands
    <3> QED
      BY <1>2, <2>1, <3>1, Dumps DEF Results
  <2>3. /\ pc'[h] = "results" /\ socket'[h] = answer /\ pc' = [pc EXCEPT ![h] = "results"]
        /\ \A g \in Handlers \ {h} : pc'[g] = pc[g] /\ socket'[g] = socket[g]
    BY <1>2 DEF Goto, TypeOK
  <2>4. TypeOK'
    <3>1. \A g \in Handlers :
            pc'[g] \in {"trigger", "complete", "results"} => index'[g] # NoIndex
      BY <1>1, <2>1, <2>3 DEF TypeOK
    <3> QED
      BY <1>1, <1>2, <2>2, <2>3, <3>1 DEF TypeOK, kernel, Commands
  <2>5. Queue(h)' /\ Found(h)'
    BY <1>1, <2>2, <2>3 DEF Queue, Found
  <2>6. Heard(h)'
    <3>1. About(h) => scans[index[h]] > asked[h]
      BY <1>1, <1>2 DEF Heard
    <3>2. About(h) => \A k \in DOMAIN answer : \A n \in answer[k].items : n > asked[h]
      BY <2>2, <3>1
    <3>3. items[h] = {} /\ result[h] = None /\ scans[index[h]] >= asked[h]
      BY <1>1 DEF Found, Heard
    <3> QED
      BY <1>1, <1>2, <2>3, <3>2, <3>3 DEF Heard, About, None, kernel
  <2> QED
    BY <1>1, <1>2, <2>3, <2>4, <2>5, <2>6, Steps
<1>3. CASE Return(h, "error") /\ UNCHANGED stranded
  BY <1>1, <1>3, Leaves DEF Return
<1> QED
  BY <1>2, <1>3 DEF CompleteScan, SendDump

\* What recv_all adds to the stations is as fresh as what is queued.
LEMMA ReceivesResults == ASSUME IInv, NEW h \in Handlers, RecvResults(h) PROVE IInv'
<1> USE DEF IInv
<1> DEFINE s == socket[h]
<1>1. /\ pc[h] = "results" /\ s # <<>>
      /\ items' = [items EXCEPT ![h] = @ \cup Head(s).items]
      /\ UNCHANGED <<kernel, mcast, index, asked, stranded>>
  BY DEF RecvResults
<1>2. /\ Tail(s) \in Seq(Datagrams) /\ Len(Tail(s)) = Len(s) - 1 /\ Len(s) \in Nat
      /\ \A k \in DOMAIN Tail(s) : k + 1 \in DOMAIN s /\ Tail(s)[k] = s[k + 1] /\ k \in Nat
      /\ Head(s) = s[1] /\ 1 \in DOMAIN s /\ s[1].items \in SUBSET Nat
  BY <1>1, Taken DEF TypeOK
<1>3. /\ items' \in [Handlers -> SUBSET Nat] /\ items'[h] = items[h] \cup s[1].items
      /\ \A g \in Handlers \ {h} : items'[g] = items[g]
  BY <1>1, <1>2 DEF TypeOK
<1>4. mcast[h] # <<>> /\ (About(h) => \A n \in items'[h] : n > asked[h])
  BY <1>1, <1>2, <1>3 DEF Heard
<1>5. CASE Return(h, "stations")
  BY <1>1, <1>3, <1>4, <1>5, Leaves DEF Return
<1>6. CASE socket' = [socket EXCEPT ![h] = Tail(@)] /\ UNCHANGED <<pc, result>>
  <2>1. socket'[h] = Tail(s) /\ \A g \in Handlers \ {h} : socket'[g] = socket[g]
    BY <1>6 DEF TypeOK
  <2>2. TypeOK'
    BY <1>1, <1>2, <1>3, <1>6 DEF TypeOK, kernel
  <2>3. Queue(h)' /\ Found(h)'
    BY <1>1, <1>2, <1>6, <2>1 DEF Queue, Found
  <2>4. About(h) => \A k \in DOMAIN Tail(s) : \A n \in Tail(s)[k].items : n > asked[h]
    BY <1>1, <1>2 DEF Heard
  <2>5. Heard(h)'
    BY <1>1, <1>4, <1>6, <2>1, <2>4 DEF Heard, About, kernel
  <2> QED
    BY <1>1, <1>3, <1>6, <2>1, <2>2, <2>3, <2>5, Steps
<1> QED
  BY <1>5, <1>6 DEF RecvResults

-----------------------------------------------------------------------------
(* The theorems. *)

\* No step breaks the invariant.
LEMMA Inductive == IInv /\ [Next]_vars => IInv'
<1> SUFFICES ASSUME IInv, [Next]_vars PROVE IInv'
  OBVIOUS
<1>1. CASE UNCHANGED vars
  BY <1>1 DEF IInv, TypeOK, Queue, Found, Heard, About, vars, kernel
<1>2. ASSUME NEW h \in Handlers, Fails(h) PROVE IInv'
  BY <1>2, Leaves DEF Fails, Return
<1>3. ASSUME NEW h \in Handlers, ClientLeaves(h) PROVE IInv'
  <2>1. pc[h] # "done"
    BY <1>3 DEF ClientLeaves, Active
  <2> QED
    BY <1>3, <2>1, Leaves DEF ClientLeaves
<1> QED
  BY <1>1, <1>2, <1>3, OthersScanned, Unplugged, Plugged, ScanEnded, GetsInterfaces,
     ReceivesInterfaces, ReceivesAck, CompletesScan, ReceivesResults DEF Next, Poll

\* No request has come yet.
LEMMA Initially == Init => IInv
<1> SUFFICES ASSUME Init PROVE IInv
  OBVIOUS
<1>1. /\ \A h \in Handlers : /\ pc[h] = "idle" /\ socket[h] = <<>> /\ mcast[h] = <<>>
                             /\ items[h] = {} /\ result[h] = None
  BY DEF Init
<1>2. TypeOK
  <2>1. 1 \in Indices \ {Other}
    BY Numbers, KernelScanAssumption
  <2>2. 0 \in 0..MaxScans
    BY KernelScanAssumption
  <2>3. socket \in [Handlers -> Seq(Datagrams)]
    BY DEF Init
  <2> QED
    BY <2>1, <2>2, <2>3 DEF Init, TypeOK
<1>3. \A h \in Handlers : Queue(h) /\ Found(h) /\ Heard(h)
  BY <1>1 DEF Queue, Found, Heard, None
<1> QED
  BY <1>2, <1>3 DEF Init, IInv

\* The invariant holds for every set of requests and every bound.
THEOREM Invariant == Spec => []IInv
<1> QED
  BY Initially, Inductive, PTL DEF Spec

\* Indexes, datagrams and notifications stay in their types, and a handler
\* that has sent trigger_scan has the index of a real interface.
THEOREM TypeCorrect == Spec => []TypeOK
<1>1. IInv => TypeOK
  BY DEF IInv
<1> QED
  BY <1>1, Invariant, PTL

\* nl80211::scan::scan never takes the answer to one command for that to
\* another, although no sequence number is checked.
THEOREM SynchronisedHolds == Spec => []Synchronised
<1>1. IInv => Synchronised
  BY DEF IInv, Queue, Synchronised, ToSet
<1> QED
  BY <1>1, Invariant, PTL

\* The stations /scan answers with are those of a scan that ended after the
\* request came, unless complete_scan heard of another radio.
THEOREM FreshResultsHolds == Spec => []FreshResults
<1>1. IInv => FreshResults
  BY DEF IInv, Heard, About, FreshResults
<1> QED
  BY <1>1, Invariant, PTL
==============================================================================
