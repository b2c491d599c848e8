--------------------------- MODULE InterfacesProofs ---------------------------
(***************************************************************************)
(* Proofs about Interfaces, for every dump: of any length, divided into    *)
(* any datagrams, with any messages that cannot be read.                   *)
(***************************************************************************)
EXTENDS Interfaces, SequenceTheorems, WellFoundedInduction, TLAPS

\* What the kernel sends, and nothing writes to.
Messages == [name : Names, index : 1..MaxMessages, type : Types, bad : SUBSET Attributes]
Dump ==
    /\ dump \in Seq(Messages)
    /\ Len(dump) <= MaxMessages
    /\ \A n \in 1..Len(dump) : dump[n].index = n
    /\ ends \subseteq DOMAIN dump
    /\ read \in 0..Len(dump)

Readable(n) == dump[n].bad = {}

\* The interfaces made so far are those of the readable messages the loop has
\* seen, all of them and in their order.
Collected ==
    /\ items \in Seq(Interface)
    /\ \A i, j \in 1..Len(items) : i < j => items[i].index < items[j].index
    /\ \A k \in 1..Len(items) :
         /\ items[k].index \in 1..read
         /\ Readable(items[k].index)
         /\ dump[items[k].index].name = items[k].name
    /\ \A n \in 1..read : Readable(n) => \E k \in 1..Len(items) : items[k].index = n

\* What scan looks in is all of them.
Concluded ==
    pc = "done" => read = Len(dump) /\ result = Find(items)

Inv == Dump /\ Collected /\ Concluded /\ TypeOK

-----------------------------------------------------------------------------
(* The least number of a set. *)

LEMMA Least ==
    ASSUME NEW S, S \subseteq Nat, S # {}
    PROVE  Min(S) \in S /\ \A n \in S : Min(S) <= n
<1>1. PICK m \in S : \A n \in S : ~ (<<n, m>> \in OpToRel(<, Nat))
  BY NatLessThanWellFounded, WFMin
<1>2. \A n \in S : <<n, m>> \in OpToRel(<, Nat) <=> n < m
  BY DEF OpToRel
<1>3. \A n \in S : ~ (n < m)
  BY <1>1, <1>2
<1>4. \A n \in S : m <= n
  BY <1>3
<1> QED
  BY <1>4 DEF Min

\* Every number is a type.
LEMMA FromIsTotal == \A orig : From(orig) \in Iftype
BY DEF From, Iftype, ToSet

-----------------------------------------------------------------------------
(* The steps. *)

LEMMA InitInv == Init => Inv
<1> SUFFICES ASSUME Init PROVE Inv
  OBVIOUS
<1>0. PICK n \in 0..MaxMessages :
        \E name \in [1..n -> Names],
           type \in [1..n -> Types],
           bad \in [1..n -> {{}} \cup {{a} : a \in Attributes}] :
             dump = [i \in 1..n |->
                        [name |-> name[i], index |-> i, type |-> type[i], bad |-> bad[i]]]
  BY DEF Init
<1>1. PICK name \in [1..n -> Names],
           type \in [1..n -> Types],
           bad \in [1..n -> {{}} \cup {{a} : a \in Attributes}] :
        dump = [i \in 1..n |->
                   [name |-> name[i], index |-> i, type |-> type[i], bad |-> bad[i]]]
  BY <1>0
<1>2. n \in Nat /\ n <= MaxMessages
  BY InterfacesAssumption
<1>3. \A i \in 1..n : dump[i] \in Messages /\ dump[i].index = i
  <2> SUFFICES ASSUME NEW i \in 1..n PROVE dump[i] \in Messages /\ dump[i].index = i
    OBVIOUS
  <2>1. dump[i] = [name |-> name[i], index |-> i, type |-> type[i], bad |-> bad[i]]
    BY <1>1
  <2>2. name[i] \in Names /\ i \in 1..MaxMessages
    BY <1>2, InterfacesAssumption
  <2>3. bad[i] \in SUBSET Attributes /\ type[i] \in Types
    BY <1>2
  <2> QED
    BY <2>1, <2>2, <2>3 DEF Messages
<1>4. dump \in Seq(Messages) /\ Len(dump) = n
  BY <1>1, <1>2, <1>3
<1>5. Dump
  BY <1>2, <1>3, <1>4 DEF Dump, Init
<1>6. Collected
  BY DEF Init, Collected
<1> QED
  BY <1>5, <1>6, InterfacesAssumption DEF Inv, Concluded, TypeOK, Init, NoIndex

\* A turn of the loop adds the interface of a readable message behind those of
\* earlier ones, and nothing for another message.
LEMMA MessageStep == Inv /\ Message => Inv'
<1> SUFFICES ASSUME Inv, Message PROVE Inv'
  OBVIOUS
<1> USE DEF Inv
<1>1. /\ read \in Nat /\ Len(dump) \in Nat /\ MaxMessages \in Nat
      /\ read' = read + 1 /\ read' \in 1..Len(dump) /\ read' \in 1..MaxMessages
      /\ UNCHANGED <<dump, ends, result>>
      /\ pc' \in {"recv", "msgs"}
  BY InterfacesAssumption DEF Message, Dump
<1>2. dump[read'] \in Messages /\ dump[read'].index = read'
  BY <1>1 DEF Dump
<1>3. Dump'
  BY <1>1 DEF Dump
<1>4. Collected'
  <2>1. CASE Readable(read')
    <3> DEFINE item == [name |-> dump[read'].name, index |-> read',
                       iftype |-> From(dump[read'].type)]
    <3>1. item \in Interface
      BY <1>1, <1>2, FromIsTotal DEF Interface, Messages
    <3>2. items' = items \o <<item>>
      BY <1>2, <2>1 DEF Message, TryFrom, Readable
    <3> HIDE DEF item
    <3>3. /\ items' \in Seq(Interface) /\ Len(items') = Len(items) + 1
          /\ \A k \in 1..Len(items) : items'[k] = items[k]
          /\ items'[Len(items) + 1] = item
          /\ Len(items) \in Nat
      BY <3>1, <3>2, items \in Seq(Interface) DEF Collected
    <3>4. item.index = read' /\ item.name = dump[read'].name
      BY DEF item
    <3>5. \A k \in 1..Len(items) : items[k].index \in 1..read
      BY DEF Collected
    <3>6. \A i, j \in 1..Len(items') : i < j => items'[i].index < items'[j].index
      <4> SUFFICES ASSUME NEW i \in 1..Len(items'), NEW j \in 1..Len(items'), i < j
                   PROVE  items'[i].index < items'[j].index
        OBVIOUS
      <4>1. CASE j \in 1..Len(items)
        BY <3>3, <4>1 DEF Collected
      <4>2. CASE j = Len(items) + 1
        BY <1>1, <3>3, <3>4, <3>5, <4>2
      <4> QED
        BY <3>3, <4>1, <4>2
    <3>7. \A k \in 1..Len(items') :
            /\ items'[k].index \in 1..read'
            /\ Readable(items'[k].index)
            /\ dump[items'[k].index].name = items'[k].name
      <4> SUFFICES ASSUME NEW k \in 1..Len(items')
                   PROVE  /\ items'[k].index \in 1..read'
                          /\ Readable(items'[k].index)
                          /\ dump[items'[k].index].name = items'[k].name
        OBVIOUS
      <4>1. CASE k \in 1..Len(items)
        BY <1>1, <3>3, <4>1 DEF Collected
      <4>2. CASE k = Len(items) + 1
        BY <1>1, <2>1, <3>3, <3>4, <4>2
      <4> QED
        BY <3>3, <4>1, <4>2
    <3>8. \A n \in 1..read' : Readable(n) => \E k \in 1..Len(items') : items'[k].index = n
      <4> SUFFICES ASSUME NEW n \in 1..read', Readable(n)
                   PROVE  \E k \in 1..Len(items') : items'[k].index = n
        OBVIOUS
      <4>1. CASE n \in 1..read
        BY <3>3, <4>1 DEF Collected
      <4>2. CASE n = read'
        BY <3>3, <3>4, <4>2
      <4> QED
        BY <1>1, <4>1, <4>2
    <3> QED
      BY <1>1, <3>3, <3>6, <3>7, <3>8 DEF Collected, Readable
  <2>2. CASE ~Readable(read')
    <3>1. items' = items
      BY <2>2 DEF Message, TryFrom, Readable, Collected
    <3>2. \A n \in 1..read' : Readable(n) => n \in 1..read
      BY <1>1, <2>2
    <3> QED
      BY <1>1, <3>1, <3>2 DEF Collected, Readable
  <2> QED
    BY <2>1, <2>2
<1>5. TypeOK'
  BY <1>1, <1>4 DEF TypeOK, Collected
<1> QED
  BY <1>1, <1>3, <1>4, <1>5 DEF Concluded

LEMMA DoneStep == Inv /\ Done => Inv'
<1> SUFFICES ASSUME Inv, Done PROVE Inv'
  OBVIOUS
<1> USE DEF Inv
<1>1. UNCHANGED <<dump, ends, read, items>> /\ pc' = "done" /\ result' = Find(items)
  BY DEF Done
<1>2. Find(items) \in 0..MaxMessages
  <2> DEFINE found == {n \in DOMAIN items : items[n].name = Wanted}
  <2>1. CASE found = {}
    BY <2>1, InterfacesAssumption DEF Find, NoIndex
  <2>2. CASE found # {}
    <3>1. found \subseteq 1..Len(items) /\ items \in Seq(Interface) /\ Len(items) \in Nat
      BY DEF Collected
    <3>2. \A n \in 1..Len(items) : items[n].index \in 1..MaxMessages
      <4>1. \A n \in 1..Len(items) : items[n] \in Interface
        BY <3>1
      <4> QED
        BY <4>1 DEF Interface
    <3>3. Find(items) = items[Min(found)].index
      BY <2>2 DEF Find
    <3> HIDE DEF found
    <3>4. found \subseteq Nat
      BY <3>1
    <3>5. Min(found) \in found
      BY <2>2, <3>4, Least
    <3>6. Find(items) \in 1..MaxMessages
      BY <3>1, <3>2, <3>3, <3>5
    <3> QED
      BY <3>6, InterfacesAssumption
  <2> QED
    BY <2>1, <2>2
<1>3. Dump' /\ Collected'
  BY <1>1 DEF Dump, Collected, Readable
<1>4. Concluded'
  BY <1>1 DEF Concluded, Done, Find
<1> QED
  BY <1>1, <1>2, <1>3, <1>4 DEF TypeOK

\* The datagrams leave no trace in the interfaces.
LEMMA Step == Inv /\ [Next]_vars => Inv'
<1> SUFFICES ASSUME Inv, [Next]_vars PROVE Inv'
  OBVIOUS
<1>1. CASE Recv
  BY <1>1 DEF Recv, Inv, Dump, Collected, Readable, Concluded, TypeOK
<1>2. CASE Message
  BY <1>2, MessageStep
<1>3. CASE Done
  BY <1>3, DoneStep
<1>4. CASE UNCHANGED vars
  BY <1>4 DEF vars, Inv, Dump, Collected, Readable, Concluded, TypeOK, Find
<1> QED
  BY <1>1, <1>2, <1>3, <1>4 DEF Next

\* Spec => []Inv: what the loops have made is exactly what they have seen, in
\* its order, wherever the kernel ends a datagram.
THEOREM Invariant == Spec => []Inv
BY InitInv, Step, PTL DEF Spec

\* The interfaces have a name and an index, and so has the scan.
THEOREM TypeCorrect == Spec => []TypeOK
<1>1. Inv => TypeOK
  BY DEF Inv
<1> QED
  BY <1>1, Invariant, PTL

-----------------------------------------------------------------------------

\* Find goes by the place in the list, the property by the place in the dump.
LEMMA FoundFirst == Inv => FirstOfItsName
<1> SUFFICES ASSUME Inv, pc = "done" PROVE FirstOfItsName
  BY DEF FirstOfItsName
<1> DEFINE found == {n \in DOMAIN items : items[n].name = Wanted}
           usable == {i \in DOMAIN dump : dump[i].name = Wanted /\ dump[i].bad = {}}
<1>1. /\ DOMAIN dump = 1..Len(dump) /\ Len(dump) \in Nat /\ read = Len(dump)
      /\ DOMAIN items = 1..Len(items) /\ Len(items) \in Nat
      /\ result = Find(items)
  BY DEF Inv, Dump, Collected, Concluded
<1>2. \A k \in found : k \in 1..Len(items) /\ items[k].index \in usable
  BY <1>1 DEF Inv, Collected, Readable
<1>3. \A n \in usable : \E k \in found : items[k].index = n
  BY <1>1 DEF Inv, Collected, Readable
<1>4. CASE usable = {}
  BY <1>1, <1>2, <1>4 DEF Find, FirstOfItsName
<1>5. CASE usable # {}
  <2>1. usable \subseteq Nat /\ found \subseteq Nat /\ found # {}
    BY <1>1, <1>3, <1>5
  <2>2. Min(usable) \in usable /\ \A n \in usable : Min(usable) <= n
    BY <2>1, <1>5, Least
  <2>3. Min(found) \in found /\ \A k \in found : Min(found) <= k
    BY <2>1, Least
  <2> HIDE DEF found, usable
  <2>4. PICK k \in found : items[k].index = Min(usable)
    BY <1>3, <2>2
  <2>5. ~ (Min(found) < k)
    <3> SUFFICES ASSUME Min(found) < k PROVE FALSE
      OBVIOUS
    <3>1. Min(found) \in 1..Len(items) /\ k \in 1..Len(items)
      BY <1>2, <2>3
    <3>2. items[Min(found)].index < items[k].index
      BY <3>1 DEF Inv, Collected
    <3>3. items[Min(found)].index \in usable
      BY <1>2, <2>3
    <3>4. /\ items[Min(found)].index \in Nat /\ items[k].index \in Nat
          /\ items[k].index <= items[Min(found)].index
      BY <2>1, <2>2, <2>4, <3>3
    <3> QED
      BY <3>2, <3>4
  <2>6. Min(found) = k
    <3>1. Min(found) \in Nat /\ k \in Nat /\ Min(found) <= k
      BY <2>1, <2>3
    <3> QED
      BY <2>5, <3>1
  <2>7. result = Min(usable)
    BY <1>1, <2>1, <2>4, <2>6 DEF Find, found
  <2> QED
    BY <1>5, <2>7 DEF FirstOfItsName, usable
<1> QED
  BY <1>4, <1>5

\* scan goes on with the first interface of the wanted name that has all its
\* attributes, and fails only if there is none: for a dump of any length.
THEOREM FirstOfItsNameHolds == Spec => []FirstOfItsName
BY Invariant, FoundFirst, PTL

-----------------------------------------------------------------------------
(* The loops end: the safety half of Ends. *)

\* Two turns, at most, for each message still to come, and those for Done.
Remaining ==
    CASE pc = "recv" -> 2 * (Len(dump) - read) + 2
      [] pc = "msgs" -> 2 * (Len(dump) - read) + 1
      [] pc = "done" -> 0

Nearer == Remaining \in Nat /\ Remaining' \in Nat /\ Remaining' < Remaining

\* However the dump is divided into datagrams, and wherever its Done message is,
\* every turn of the loops of recv_all leaves fewer turns to come.
THEOREM RecvAdvances == Spec => [][Nearer]_vars
<1>1. ASSUME Inv, Next PROVE Nearer
  <2>1. Len(dump) \in Nat /\ read \in Nat /\ read <= Len(dump)
    BY <1>1 DEF Inv, Dump
  <2>2. CASE Recv
    BY <2>1, <2>2 DEF Recv, Nearer, Remaining
  <2>3. CASE Message
    <3>1. /\ pc = "msgs" /\ read < Len(dump) /\ read' = read + 1
          /\ pc' \in {"recv", "msgs"} /\ dump' = dump
      BY <2>3 DEF Message
    <3> QED
      BY <2>1, <3>1 DEF Nearer, Remaining
  <2>4. CASE Done
    BY <2>1, <2>4 DEF Done, Nearer, Remaining
  <2> QED
    BY <1>1, <2>2, <2>3, <2>4 DEF Next
<1>2. Inv /\ [Next]_vars => [Nearer]_vars
  BY <1>1
<1>3. Spec => []Inv
  BY Invariant
<1>4. Spec => [][Next]_vars
  BY PTL DEF Spec
<1> QED
  BY <1>2, <1>3, <1>4, PTL
==============================================================================
