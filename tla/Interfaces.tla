------------------------------ MODULE Interfaces ------------------------------
(***************************************************************************)
(* How the scan finds the index of its interface: get_interfaces receives  *)
(* the dump of all interfaces, one datagram after the other, and makes an  *)
(* Interface of each message that has all the attributes of one.  Not all  *)
(* do: a P2P device, for instance, has no network device and so no name.   *)
(* The dump is not atomic, so a name may be in it twice.                   *)
(***************************************************************************)
EXTENDS Naturals, FiniteSets, SequencesExt

CONSTANTS
    Names,          \* names of interfaces
    Wanted,         \* the one to scan with
    Types,          \* numbers of types of interfaces, known to the program or not
    MaxMessages     \* bound on the length of the dump

ASSUME InterfacesAssumption ==
    /\ Wanted \in Names
    /\ Types \subseteq Nat
    /\ MaxMessages \in Nat

Attributes == {"Ifname", "Ifindex", "Iftype", "Wiphy", "Wdev", "Mac"}
NoIndex == 0        \* no interface

\* The types of interfaces in the order of their numbers, from 1 on.
NL80211_IFTYPE ==
    <<"Adhoc", "Station", "AP", "APVlan", "WDS", "Monitor", "MeshPoint",
      "P2PClient", "P2PGo", "P2PDevice", "Ocb", "Nan">>

Iftype == {"Unspecified"} \cup ToSet(NL80211_IFTYPE)

\* Iftype::from: a number of a newer kernel is no error.
From(orig) ==
    IF orig \in DOMAIN NL80211_IFTYPE THEN NL80211_IFTYPE[orig] ELSE "Unspecified"

VARIABLES
    dump,       \* the messages before the Done message
    ends,       \* the messages of dump that end a datagram
    read,       \* the number of messages the loops have seen
    items,      \* the interfaces recv_all has made of them
    pc,         \* "recv", "msgs" in the loop over a datagram, "done"
    result      \* iface.index, or NoIndex: "Interface not found"

vars == <<dump, ends, read, items, pc, result>>

Interface == [name : Names, index : 1..MaxMessages, iftype : Iftype]

TypeOK ==
    /\ \A n \in DOMAIN items : items[n] \in Interface
    /\ read \in 0..MaxMessages
    /\ pc \in {"recv", "msgs", "done"}
    /\ result \in 0..MaxMessages

\* Any message may be without one of its attributes, or with one of a wrong
\* length.
Init ==
    /\ \E n \in 0..MaxMessages :
        \E name \in [1..n -> Names],
           type \in [1..n -> Types],
           bad \in [1..n -> {{}} \cup {{a} : a \in Attributes}] :
             dump = [i \in 1..n |->
                        [name |-> name[i], index |-> i, type |-> type[i], bad |-> bad[i]]]
    /\ ends \in SUBSET DOMAIN dump
    /\ read = 0
    /\ items = <<>>
    /\ pc = "recv"
    /\ result = NoIndex

-----------------------------------------------------------------------------

DefaultTryFrom(m) ==     \* an index that is missing is zero
    IF m.bad \subseteq {"Ifindex"}
    THEN <<[name |-> m.name, index |-> IF m.bad = {} THEN m.index ELSE NoIndex,
            iftype |-> From(m.type)]>>
    ELSE <<>>

\* Interface::try_from, an Option: None without any one of the attributes.
TryFrom(m) ==
    IF m.bad = {}
    THEN <<[name |-> m.name, index |-> m.index, iftype |-> From(m.type)]>>
    ELSE <<>>

\* socket.recv has one more datagram: there is one as long as there was no Done.
Recv ==
    /\ pc = "recv"
    /\ pc' = "msgs"
    /\ UNCHANGED <<dump, ends, read, items, result>>

BuggyMessage ==     \* a message that cannot be read ends the loop over msgs
    /\ pc = "msgs"
    /\ read < Len(dump)
    /\ read' = IF TryFrom(dump[read + 1]) = <<>>
               THEN Min({e \in ends \cup {Len(dump)} : e > read})
               ELSE read + 1
    /\ items' = items \o TryFrom(dump[read + 1])
    /\ pc' = IF read' \in ends THEN "recv" ELSE "msgs"
    /\ UNCHANGED <<dump, ends, result>>

\* A turn of the loop over msgs: the Some of the closure is pushed.
Message ==
    /\ pc = "msgs"
    /\ read < Len(dump)
    /\ read' = read + 1
    /\ items' = items \o TryFrom(dump[read'])
    /\ pc' = IF read' \in ends THEN "recv" ELSE "msgs"
    /\ UNCHANGED <<dump, ends, result>>

\* ifaces.iter().find(|iface| iface.name == interface)
Find(ifaces) ==
    LET found == {n \in DOMAIN ifaces : ifaces[n].name = Wanted} IN
    IF found = {} THEN NoIndex ELSE ifaces[Min(found)].index

BuggyDone ==     \* Done is looked for in the first message only
    /\ pc = "msgs"
    /\ read = Len(dump)
    /\ read \in {0} \cup ends
    /\ pc' = "done"
    /\ result' = Find(items)
    /\ UNCHANGED <<dump, ends, read, items>>

\* The Done message, alone in a datagram or behind other messages, and what
\* scan does with the interfaces.
Done ==
    /\ pc = "msgs"
    /\ read = Len(dump)
    /\ pc' = "done"
    /\ result' = Find(items)
    /\ UNCHANGED <<dump, ends, read, items>>

Next == Recv \/ Message \/ Done

\* recv is ready when the kernel has queued a datagram.
Spec == Init /\ [][Next]_vars /\ WF_vars(Next)

-----------------------------------------------------------------------------
(* Properties. *)

\* Whatever other messages are in the dump, unreadable ones among them, and
\* however it is divided into datagrams: the interface found is the first one
\* of that name that has its attributes, of a type the program knows or not, and
\* there is an error only without one.
FirstOfItsName ==
    pc = "done" =>
        LET usable == {i \in DOMAIN dump : dump[i].name = Wanted /\ dump[i].bad = {}} IN
        result = IF usable = {} THEN NoIndex ELSE Min(usable)

\* The dump comes to an end for recv_all wherever the Done message is: alone in
\* the last datagram, or behind other messages.
Ends == <>(pc = "done")
==============================================================================
