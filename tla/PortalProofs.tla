----------------------------- MODULE PortalProofs -----------------------------
(***************************************************************************)
(* Proofs about Portal, for every set of Stops, profiles and SSIDs and any *)
(* number of runs.                                                         *)
(***************************************************************************)
EXTENDS Portal, FiniteSetTheorems, TLAPS

-----------------------------------------------------------------------------
(* The inductive invariant, in parts. *)

IsReply(i, t) == bus[i].kind = "reply" /\ bus[i].task = t
IsState(i) == bus[i].kind = "state"

\* The call of task t has succeeded, whether t knows it yet or not.
Succeeded(t) ==
    \/ call[t] = "ok"
    \/ \E i \in DOMAIN bus : IsReply(i, t) /\ bus[i].outcome = "ok"

\* A task has one call at a time: either NetworkManager has yet to handle it,
\* or its one reply is on the bus, or it is over.  Only a call that has timed
\* out leaves something behind, and its task makes no further call.
OneCall(t) ==
    /\ \A i, j \in DOMAIN bus : IsReply(i, t) /\ IsReply(j, t) => i = j
    /\ request[t] # None => \A i \in DOMAIN bus : ~IsReply(i, t)
    /\ call[t] \in {None, "ok"} =>
            request[t] = None /\ \A i \in DOMAIN bus : ~IsReply(i, t)
    /\ pc[t] \in {"idle", "create_client", "prepare", "monitor"} => call[t] \in {None, "ok"}

\* What is pending is what the task is waiting for.
Matches(t) ==
    /\ request[t] = "add" => t = Starter /\ pc[t] \in {"add", "done"} /\ connection = None
    /\ pc[t] \in {"purge", "cleanup", "delete"} => request[t] \in {None, "delete"}
    /\ pc[t] = "add" => request[t] \in {None, "add"}

\* init_network comes before the Stops, and adds the portal before it monitors it.
Life ==
    /\ portal = None <=> connection = None
    /\ pc[Starter] \in {"create_client", "purge", "prepare"} => connection = None
    /\ pc[Starter] \in {"create_client", "purge", "prepare", "add", "monitor", "cleanup", "done"}
    /\ pc[Starter] = "add" /\ Succeeded(Starter) => connection # None
    /\ pc[Starter] \in {"monitor", "cleanup"} => connection # None
    /\ result[Starter] = "ok" =>
            pc[Starter] = "done" /\ connection # None /\ received[Starter] = "activated"
    /\ \A t \in Stops :
        /\ pc[t] \in {"idle", "deactivate", "monitor", "delete", "done"}
        /\ pc[t] # "idle" => result[Starter] = "ok"
        /\ result[t] # None => pc[t] = "done"
        /\ result[t] # "not_activated"

\* The states on the bus, known and received are past states of the connection,
\* which is activated once, as its first change, and stays down.
Signals ==
    /\ connection \in {None, "activating"} =>
            known = None /\ \A i \in DOMAIN bus : ~IsState(i)
    /\ \A i \in DOMAIN bus : bus[i] = Signal("activated") =>
            known = None /\ \A j \in 1..i - 1 : ~IsState(j)
    /\ known = "deactivated" \/ (\E i \in DOMAIN bus : bus[i] = Signal("deactivated"))
            => connection = "deactivated"
    /\ \A t \in Tasks :
        /\ received[t] # None => known # None
        /\ received[t] = "deactivated" => connection = "deactivated"
    /\ \A t \in Stops :
        /\ received[t] # "activated"
        /\ pc[t] = "delete" \/ result[t] = "ok" => connection = "deactivated"

\* The delete call of a task is about the portal's profile, and has deleted it
\* if it has succeeded.
Cleanup ==
    /\ \A t \in Tasks : pc[t] \in {"cleanup", "delete"} =>
        /\ target[t] = portal /\ portal # None
        /\ Succeeded(t) => profiles[portal] = NoProfile
    /\ \A t \in Tasks \ unseen :
        (result[t] = IF t = Starter THEN "not_activated" ELSE "ok")
            => portal # None /\ profiles[portal] = NoProfile

\* The purge: no profile of the program with the SSID of this run is missed.
Purge ==
    /\ \A p \in Profiles :
        profiles[p] # NoProfile /\ profiles[p].creator = "wifi_connect" => profiles[p].ap
    /\ \A s \in Ssids : \A p, q \in Ours(s) : p = q
    /\ pc[Starter] = "purge" =>
        /\ Ours(ssid) \subseteq purge
        /\ target[Starter] \in purge
        /\ Succeeded(Starter) => profiles[target[Starter]] = NoProfile
    /\ pc[Starter] = "prepare" \/ request[Starter] = "add" => Ours(ssid) = {}

IInv ==
    /\ TypeOK
    /\ \A t \in Tasks : OneCall(t) /\ Matches(t)
    /\ Life
    /\ Signals
    /\ Cleanup
    /\ Purge

-----------------------------------------------------------------------------
(* Types. *)

\* An event is a reply to a task or a state, and what is sent is an event.
LEMMA Kinds ==
    /\ \A e \in Events :
        \/ e.kind = "reply" /\ e.task \in Tasks /\ e.outcome \in {"ok", "err"}
        \/ e.kind = "state" /\ e.state \in States
    /\ \A t \in Tasks, o \in {"ok", "err"} : ReplyTo(t, o) \in Events
    /\ \A s \in States : Signal(s) \in Events
BY DEF Events, ReplyTo, Signal

\* Every step keeps the types.
LEMMA TypeStep == TypeOK /\ [Next]_vars => TypeOK'
<1> SUFFICES ASSUME TypeOK, [Next]_vars PROVE TypeOK'
  OBVIOUS
<1> USE DEF TypeOK, daemon, cache, tasks
<1>1. CASE ConnectionChanges
  <2>1. PICK s \in States : connection' = s /\ bus' = Append(bus, Signal(s))
    BY <1>1 DEF ConnectionChanges
  <2>2. bus' \in Seq(Events)
    BY <2>1, Kinds
  <2> QED
    BY <1>1, <2>1, <2>2 DEF ConnectionChanges
<1>2. ASSUME NEW p \in Profiles, UserDeletes(p) PROVE TypeOK'
  BY <1>2 DEF UserDeletes
<1>h. CASE HandleOrphan
  <2>1. PICK o \in orphans, p \in Profiles :
            /\ profiles' = [profiles EXCEPT
                                ![p] = [ssid |-> o.ssid, ap |-> TRUE, creator |-> "past_run"]]
            /\ orphans' = orphans \ {o}
    BY <1>h DEF HandleOrphan
  <2>2. [ssid |-> o.ssid, ap |-> TRUE, creator |-> "past_run"] \in Profile
    BY <2>1 DEF Profile
  <2> QED
    BY <1>h, <2>1, <2>2 DEF HandleOrphan
<1>3. CASE DispatchEvent
  <2>1. bus' \in Seq(Events) /\ Head(bus) \in Events
    BY <1>3 DEF DispatchEvent
  <2> DEFINE e == Head(bus)
  <2>2. CASE e.kind = "reply"
    <3>1. e.task \in Tasks /\ e.outcome \in {"ok", "err"}
      BY <2>1, <2>2, Kinds
    <3>2. call' \in [Tasks -> {None, "waiting", "ok", "err"}] /\ UNCHANGED <<known, received>>
      BY <1>3, <2>2, <3>1 DEF DispatchEvent
    <3> QED
      BY <1>3, <2>1, <3>2 DEF DispatchEvent
  <2>3. CASE e.kind = "state"
    <3>1. e.state \in States
      BY <2>1, <2>3, Kinds
    <3>2. known' = e.state /\ OnStateChanged(e.state) /\ UNCHANGED call
      BY <1>3, <2>3 DEF DispatchEvent
    <3>3. received' \in [Tasks -> {None, "activated", "deactivated"}]
      BY <3>1, <3>2 DEF OnStateChanged, Final
    <3> QED
      BY <1>3, <2>1, <3>1, <3>2, <3>3 DEF DispatchEvent
  <2> QED
    BY <2>1, <2>2, <2>3, Kinds
<1>4. CASE LinkVanishes
  BY <1>4 DEF LinkVanishes
<1>5. ASSUME NEW t \in Tasks, Refuse(t) PROVE TypeOK'
  <2>1. bus' \in Seq(Events)
    BY <1>5, Kinds DEF Refuse, Handled
  <2> QED
    BY <1>5, <2>1 DEF Refuse, Handled
<1>6. ASSUME NEW t \in Tasks, HandleDelete(t) PROVE TypeOK'
  <2>1. bus' \in Seq(Events)
    BY <1>6, Kinds DEF HandleDelete, Handled
  <2> QED
    BY <1>6, <2>1 DEF HandleDelete, Handled
<1>7. ASSUME NEW t \in Tasks, HandleAddAndActivate(t) PROVE TypeOK'
  <2>1. bus' \in Seq(Events)
    BY <1>7, Kinds DEF HandleAddAndActivate, Handled
  <2>2. ApConnection \in Profile
    BY DEF ApConnection, Profile
  <2> QED
    BY <1>7, <2>1, <2>2 DEF HandleAddAndActivate, Handled, States
<1>8. ASSUME NEW t \in Tasks, HandleDeactivate(t) PROVE TypeOK'
  <2>1. bus' \in Seq(Events)
    <3>1. PICK events \in Seq(Events) : Handled(t, events)
      <4>1. ReplyTo(t, "ok") \in Events /\ Signal("deactivating") \in Events
        BY Kinds DEF States
      <4>2. <<ReplyTo(t, "ok"), Signal("deactivating")>> \in Seq(Events)
        BY <4>1
      <4>3. <<ReplyTo(t, "ok")>> \in Seq(Events)
        BY <4>1
      <4> QED
        BY <1>8, <4>2, <4>3 DEF HandleDeactivate
    <3> QED
      BY <3>1 DEF Handled
  <2> QED
    BY <1>8, <2>1 DEF HandleDeactivate, Handled, States
<1>9. ASSUME NEW t \in Tasks, Timeout(t) PROVE TypeOK'
  BY <1>9 DEF Timeout
<1> USE DEF Goto, Call, CallDelete, NoCall, Return
<1>10. Starter \in Tasks
  BY DEF Tasks
<1> DEFINE Pcs == {"idle", "create_client", "purge", "prepare", "add",
                   "monitor", "cleanup", "deactivate", "delete", "done"}
           Calls == /\ pc' \in [Tasks -> Pcs]
                    /\ call' \in [Tasks -> {None, "waiting", "ok", "err"}]
                    /\ request' \in [Tasks -> {None, "delete", "add", "deactivate"}]
                    /\ target' \in [Tasks -> Profiles \cup {None}]
<1>c. ASSUME NEW t \in Tasks, NEW l \in Pcs, NEW q \in Profiles, CallDelete(t, l, q)
      PROVE  Calls
  BY <1>c
<1>d. ASSUME NEW t \in Tasks, NEW l \in Pcs, Goto(t, l), NoCall PROVE Calls
  BY <1>d
<1>e. ASSUME NEW todo \in SUBSET Profiles, PurgeNext(todo) PROVE Calls
  BY <1>10, <1>c, <1>d, <1>e DEF PurgeNext
<1>f. ASSUME NEW t \in Tasks,
             NEW r \in {"ok", "error", "not_activated", "delete_failed"}, Return(t, r)
      PROVE  /\ Goto(t, "done") /\ "done" \in Pcs
             /\ result' \in [Tasks -> {None, "ok", "error", "not_activated", "delete_failed"}]
  BY <1>f
<1>11. CASE CreateClient
  <2>1. UNCHANGED <<daemon, bus, cache, ssid, unseen, late, runs, received>>
    BY <1>11 DEF CreateClient
  <2>2. CASE purge' = Matching /\ PurgeNext(Matching) /\ UNCHANGED result
    <3>1. Matching \in SUBSET Profiles
      BY DEF Matching
    <3>2. Calls
      BY <1>e, <2>2, <3>1
    <3> QED
      BY <2>1, <2>2, <3>1, <3>2
  <2>3. CASE Return(Starter, "error") /\ NoCall /\ UNCHANGED purge
    <3>1. Calls /\ result' \in [Tasks -> {None, "ok", "error", "not_activated", "delete_failed"}]
      BY <1>10, <1>d, <1>f, <2>3
    <3> QED
      BY <2>1, <2>3, <3>1
  <2> QED
    BY <1>11, <2>2, <2>3 DEF CreateClient
<1>12. CASE Purged
  <2>1. UNCHANGED <<daemon, bus, cache, ssid, unseen, late, runs, received>>
    BY <1>12 DEF Purged
  <2>2. CASE /\ purge' = purge \ {target[Starter]}
             /\ PurgeNext(purge \ {target[Starter]})
             /\ UNCHANGED result
    <3>1. purge \ {target[Starter]} \in SUBSET Profiles
      OBVIOUS
    <3>2. Calls
      BY <1>e, <2>2, <3>1
    <3> QED
      BY <2>1, <2>2, <3>1, <3>2
  <2>3. CASE Return(Starter, "error") /\ NoCall /\ UNCHANGED purge
    <3>1. Calls /\ result' \in [Tasks -> {None, "ok", "error", "not_activated", "delete_failed"}]
      BY <1>10, <1>d, <1>f, <2>3
    <3> QED
      BY <2>1, <2>3, <3>1
  <2> QED
    BY <1>12, <2>2, <2>3 DEF Purged
<1>13. CASE Prepare
  BY <1>10, <1>13 DEF Prepare
<1>14. CASE PortalStarted
  <2>1. UNCHANGED <<daemon, bus, cache, ssid, purge, late, runs, received>>
    BY <1>14 DEF PortalStarted
  <2>2. CASE Return(Starter, "ok") /\ NoCall /\ UNCHANGED unseen
    <3>1. Calls /\ result' \in [Tasks -> {None, "ok", "error", "not_activated", "delete_failed"}]
      BY <1>10, <1>d, <1>f, <2>2
    <3> QED
      BY <2>1, <2>2, <3>1
  <2>3. CASE DeletePortal(Starter, "cleanup", "not_activated")
    <3>1. CASE CallDelete(Starter, "cleanup", portal) /\ UNCHANGED <<result, unseen>>
      BY <1>10, <2>1, <3>1
    <3>2. CASE /\ Return(Starter, "not_activated") /\ NoCall
               /\ unseen' = unseen \cup {Starter}
      <4>1. Calls /\ result' \in [Tasks -> {None, "ok", "error", "not_activated", "delete_failed"}]
        BY <1>10, <1>d, <1>f, <3>2
      <4> QED
        BY <1>10, <2>1, <3>2, <4>1
    <3> QED
      BY <2>3, <3>1, <3>2 DEF DeletePortal
  <2> QED
    BY <1>14, <2>2, <2>3 DEF PortalStarted
<1>15. ASSUME NEW t \in Tasks, StartMonitor(t) PROVE TypeOK'
  BY <1>15 DEF StartMonitor
<1>16. ASSUME NEW t \in Tasks, PortalStopped(t) PROVE TypeOK'
  BY <1>16 DEF PortalStopped, DeletePortal
<1>17. ASSUME NEW t \in Tasks, PortalDeleted(t) PROVE TypeOK'
  BY <1>17 DEF PortalDeleted
<1>18. ASSUME NEW t \in Stops, Stop(t) PROVE TypeOK'
  BY <1>18 DEF Stop, NetworkState, Tasks
<1>19. CASE Restart
  <2>1. runs' \in 1..MaxRuns
    BY <1>19, PortalAssumption DEF Restart
  <2>2. bus' \in Seq(Events)
    BY <1>19 DEF Restart
  <2>3. FreshPc \in [Tasks -> {"idle", "create_client"}] /\ Fresh \in [Tasks -> {None}]
    BY DEF FreshPc, Fresh
  <2>4. orphans' \subseteq [run : 1..MaxRuns, ssid : Ssids]
    BY <1>19 DEF Restart
  <2> QED
    BY <1>19, <2>1, <2>2, <2>3, <2>4 DEF Restart
<1>20. CASE UNCHANGED vars
  BY <1>20 DEF vars
<1> QED
  BY <1>1, <1>2, <1>h, <1>3, <1>4, <1>5, <1>6, <1>7, <1>8, <1>9, <1>11, <1>12, <1>13,
     <1>14, <1>15, <1>16, <1>17, <1>18, <1>19, <1>20
     DEF Next, Environment, Handle, Poll

-----------------------------------------------------------------------------
(* The bus. *)

\* An event that is sent comes last.
LEMMA Grown ==
    ASSUME bus \in Seq(Events), NEW events \in Seq(Events), bus' = bus \o events
    PROVE  /\ Len(bus) \in Nat /\ DOMAIN bus = 1..Len(bus)
           /\ DOMAIN bus' = 1..Len(bus) + Len(events)
           /\ \A i \in 1..Len(bus) : bus'[i] = bus[i]
           /\ \A i \in 1..Len(events) : bus'[Len(bus) + i] = events[i]
<1>1. bus' \in Seq(Events) /\ Len(bus') = Len(bus) + Len(events)
  OBVIOUS
<1> QED
  BY <1>1

\* The event that is delivered is the first one.
LEMMA Shrunk ==
    ASSUME bus \in Seq(Events), bus # <<>>, bus' = Tail(bus)
    PROVE  /\ Len(bus) \in Nat \ {0} /\ DOMAIN bus = 1..Len(bus)
           /\ DOMAIN bus' = 1..Len(bus) - 1
           /\ \A i \in 1..Len(bus) - 1 : bus'[i] = bus[i + 1]
           /\ Head(bus) = bus[1] /\ bus[1] \in Events
<1>1. Len(bus) \in Nat \ {0} /\ bus' \in Seq(Events) /\ Len(bus') = Len(bus) - 1
  OBVIOUS
<1> QED
  BY <1>1

\* What NetworkManager may send when it is done with a call of task t.
Outcome(t) ==
    { <<ReplyTo(t, "err")>>, <<ReplyTo(t, "ok")>>,
      <<ReplyTo(t, "ok"), Signal("deactivating")>> }

\* A reply takes the place of the request of its task.
LEMMA Replied ==
    ASSUME IInv, NEW t \in Tasks, request[t] # None,
           NEW events \in Outcome(t), Handled(t, events)
    PROVE  /\ \A q \in Tasks : OneCall(q)'
           /\ \A q \in Tasks : Succeeded(q)' =>
                Succeeded(q) \/ (q = t /\ events # <<ReplyTo(t, "err")>>)
           /\ \A q \in Tasks : q # t => request'[q] = request[q]
           /\ request'[t] = None
<1> DEFINE n == Len(bus)
<1>1. events \in Seq(Events) /\ Len(events) \in 1..2 /\ Len(events) \in Nat
  <2>1. /\ ReplyTo(t, "ok") \in Events /\ ReplyTo(t, "err") \in Events
        /\ Signal("deactivating") \in Events
    BY Kinds DEF States
  <2>2. \A a \in Events : <<a>> \in Seq(Events) /\ Len(<<a>>) = 1
    OBVIOUS
  <2>3. \A a, b \in Events : <<a, b>> \in Seq(Events) /\ Len(<<a, b>>) = 2
    OBVIOUS
  <2>4. events \in Seq(Events) /\ (Len(events) = 1 \/ Len(events) = 2)
    BY <2>1, <2>2, <2>3, Zenon DEF Outcome
  <2> QED
    BY <2>4
<1>2. /\ n \in Nat /\ DOMAIN bus = 1..n
      /\ DOMAIN bus' = 1..n + Len(events)
      /\ \A i \in 1..n : bus'[i] = bus[i]
      /\ \A i \in 1..Len(events) : bus'[n + i] = events[i]
  BY <1>1, Grown DEF Handled, IInv, TypeOK
<1>3. /\ events[1].kind = "reply" /\ events[1].task = t
      /\ events[1].outcome = "ok" => events # <<ReplyTo(t, "err")>>
  BY DEF Outcome, ReplyTo
<1>4. Len(events) = 2 => events[2].kind # "reply"
  BY DEF Outcome, ReplyTo, Signal
<1>5. bus'[n + 1] = events[1] /\ n + 1 \in DOMAIN bus'
  BY <1>1, <1>2
<1>6. \A i \in DOMAIN bus' : i \in DOMAIN bus \/ i = n + 1 \/ (i = n + 2 /\ Len(events) = 2)
  BY <1>1, <1>2
<1>7. Len(events) = 2 => bus'[n + 2] = events[2]
  BY <1>1, <1>2
<1>8. \A q \in Tasks, i \in DOMAIN bus' : IsReply(i, q)' =>
            (i \in DOMAIN bus /\ IsReply(i, q)) \/ (i = n + 1 /\ q = t)
  BY <1>2, <1>3, <1>4, <1>5, <1>6, <1>7 DEF IsReply
<1>9. request' = [request EXCEPT ![t] = None] /\ UNCHANGED <<pc, call>>
  BY DEF Handled, tasks
<1>10. /\ \A q \in Tasks : q # t => request'[q] = request[q]
       /\ request'[t] = None
  BY <1>9 DEF IInv, TypeOK
<1>11. ASSUME NEW q \in Tasks PROVE OneCall(q)'
  <2>1. OneCall(q) /\ OneCall(t)
    BY DEF IInv
  <2>2. CASE q # t
    BY <1>2, <1>8, <1>9, <1>10, <2>1, <2>2 DEF OneCall
  <2>3. CASE q = t
    <3>1. \A i \in DOMAIN bus : ~IsReply(i, t)
      BY <2>1 DEF OneCall
    <3>2. call[t] \notin {None, "ok"}
      BY <2>1 DEF OneCall
    <3> QED
      BY <1>8, <1>9, <1>10, <2>1, <2>3, <3>1, <3>2 DEF OneCall
  <2> QED
    BY <2>2, <2>3
<1>12. ASSUME NEW q \in Tasks, Succeeded(q)'
       PROVE  Succeeded(q) \/ (q = t /\ events # <<ReplyTo(t, "err")>>)
  BY <1>2, <1>3, <1>5, <1>8, <1>9, <1>12 DEF Succeeded
<1> QED
  BY <1>10, <1>11, <1>12

\* Delivery takes a reply off the bus and keeps everything else.
LEMMA Delivered ==
    ASSUME IInv, DispatchEvent
    PROVE  /\ \A q \in Tasks : OneCall(q)' /\ Matches(q)'
           /\ \A q \in Tasks : Succeeded(q)' => Succeeded(q)
<1> DEFINE n == Len(bus)
           e == bus[1]
<1>1. /\ n \in Nat \ {0} /\ DOMAIN bus = 1..n
      /\ DOMAIN bus' = 1..n - 1
      /\ \A i \in 1..n - 1 : bus'[i] = bus[i + 1]
      /\ Head(bus) = e /\ e \in Events
  BY Shrunk DEF DispatchEvent, IInv, TypeOK
<1>2. UNCHANGED <<request, pc, connection>>
  BY DEF DispatchEvent, daemon, tasks
<1>3. \A q \in Tasks, i \in DOMAIN bus' :
            i + 1 \in DOMAIN bus /\ bus'[i] = bus[i + 1] /\ i + 1 # 1
  BY <1>1
<1>4. ASSUME NEW q \in Tasks, ~(e.kind = "reply" /\ e.task = q /\ call[q] = "waiting")
      PROVE  call'[q] = call[q]
  BY <1>1, <1>4, Kinds DEF DispatchEvent, IInv, TypeOK
<1>5. ASSUME NEW q \in Tasks, e.kind = "reply", e.task = q, call[q] = "waiting"
      PROVE  call'[q] = e.outcome
  BY <1>1, <1>5, Kinds DEF DispatchEvent, IInv, TypeOK
<1>6. ASSUME NEW q \in Tasks PROVE OneCall(q)'
  <2>1. OneCall(q)
    BY DEF IInv
  <2>2. \A i \in DOMAIN bus' : IsReply(i, q)' => i + 1 \in DOMAIN bus /\ IsReply(i + 1, q)
    BY <1>3 DEF IsReply
  <2>3. \A i, j \in DOMAIN bus' : IsReply(i, q)' /\ IsReply(j, q)' => i = j
    <3>1. \A i, j \in DOMAIN bus' : i \in Int /\ j \in Int
      BY <1>1
    <3> QED
      BY <2>1, <2>2, <3>1 DEF OneCall
  <2>4. CASE call'[q] = call[q]
    BY <1>2, <2>1, <2>2, <2>3, <2>4 DEF OneCall
  <2>5. CASE call'[q] # call[q]
    <3>1. IsReply(1, q) /\ call[q] = "waiting"
      BY <1>4, <2>5 DEF IsReply
    <3>2. request[q] = None /\ pc[q] \notin {"idle", "create_client", "prepare", "monitor"}
      BY <1>1, <2>1, <3>1 DEF OneCall, None
    <3>3. \A i \in DOMAIN bus' : ~IsReply(i, q)'
      <4>1. \A i \in DOMAIN bus' : i + 1 # 1 /\ i + 1 \in DOMAIN bus
        BY <1>1
      <4> QED
        BY <1>1, <2>1, <2>2, <3>1, <4>1 DEF OneCall
    <3> QED
      BY <1>2, <2>3, <3>2, <3>3 DEF OneCall
  <2> QED
    BY <2>4, <2>5
<1>7. ASSUME NEW q \in Tasks PROVE Matches(q)'
  BY <1>2 DEF IInv, Matches
<1>8. ASSUME NEW q \in Tasks, Succeeded(q)' PROVE Succeeded(q)
  <2>1. CASE call'[q] = call[q]
    BY <1>3, <1>8, <2>1 DEF Succeeded, IsReply
  <2>2. CASE call'[q] # call[q]
    BY <1>1, <1>3, <1>4, <1>5, <1>8, <2>2 DEF Succeeded, IsReply
  <2> QED
    BY <2>1, <2>2
<1> QED
  BY <1>6, <1>7, <1>8

\* A task makes a call: it had none, and knows of no success of the new one.
LEMMA Called ==
    ASSUME IInv, NEW t \in Tasks, NEW l, NEW m, Call(t, l, m), bus' = bus,
           connection' = connection, call[t] \in {None, "ok"},
           \/ m = "add" /\ l = "add" /\ t = Starter /\ connection = None
           \/ m = "delete" /\ l \in {"purge", "cleanup", "delete"}
           \/ m = "deactivate" /\ l = "deactivate"
    PROVE  /\ \A q \in Tasks : OneCall(q)' /\ Matches(q)'
           /\ \A q \in Tasks : Succeeded(q)' => Succeeded(q) /\ q # t
           /\ \A q \in Tasks \ {t} : request'[q] = request[q] /\ pc'[q] = pc[q]
           /\ request'[t] = m /\ pc'[t] = l
<1>1. /\ \A q \in Tasks \ {t} :
            request'[q] = request[q] /\ pc'[q] = pc[q] /\ call'[q] = call[q]
      /\ request'[t] = m /\ pc'[t] = l /\ call'[t] = "waiting"
  BY DEF Call, Goto, IInv, TypeOK
<1>2. \A q \in Tasks : OneCall(q) /\ Matches(q)
  BY DEF IInv
<1>3. request[t] = None /\ \A i \in DOMAIN bus : ~IsReply(i, t)
  BY <1>2 DEF OneCall
<1>4. ASSUME NEW q \in Tasks PROVE OneCall(q)' /\ Matches(q)'
  <2>1. CASE q # t
    BY <1>1, <1>2, <2>1 DEF OneCall, Matches, IsReply
  <2>2. CASE q = t
    <3>1. OneCall(t)'
      BY <1>1, <1>2, <1>3 DEF OneCall, IsReply, None
    <3>2. Matches(t)'
      BY <1>1 DEF Matches, None
    <3> QED
      BY <2>2, <3>1, <3>2
  <2> QED
    BY <2>1, <2>2
<1>5. ASSUME NEW q \in Tasks, Succeeded(q)' PROVE Succeeded(q) /\ q # t
  BY <1>1, <1>3, <1>5 DEF Succeeded, IsReply
<1> QED
  BY <1>1, <1>4, <1>5

\* A task goes on without a call: because it is done or its last one succeeded.
LEMMA GoesOn ==
    ASSUME IInv, NEW t \in Tasks, NEW l, Goto(t, l), UNCHANGED <<bus, call, request>>,
           connection' = connection,
           \/ l = "done"
           \/ l \in {"prepare", "monitor"} /\ call[t] \in {None, "ok"}
    PROVE  \A q \in Tasks : OneCall(q)' /\ Matches(q)'
<1>1. /\ \A q \in Tasks \ {t} : pc'[q] = pc[q]
      /\ pc'[t] = l
  BY DEF Goto, IInv, TypeOK
<1>2. \A q \in Tasks : OneCall(q) /\ Matches(q)
  BY DEF IInv
<1> SUFFICES ASSUME NEW q \in Tasks PROVE OneCall(q)' /\ Matches(q)'
  OBVIOUS
<1>3. CASE q # t
  BY <1>1, <1>2, <1>3 DEF OneCall, Matches, IsReply
<1>4. CASE q = t
  <2>1. call[t] \in {None, "ok"} => request[t] = None
    BY <1>2 DEF OneCall
  <2>2. OneCall(t)'
    BY <1>1, <1>2 DEF OneCall, IsReply
  <2>3. Matches(t)'
    BY <1>1, <1>2, <2>1 DEF Matches, None
  <2> QED
    BY <1>4, <2>2, <2>3
<1> QED
  BY <1>3, <1>4

-----------------------------------------------------------------------------
(* The steps of NetworkManager keep the invariant. *)

\* A state change sends one signal, which comes after all the others.
LEMMA Moves == ASSUME IInv, ConnectionChanges PROVE IInv'
<1> USE PortalAssumption DEF Tasks
<1>0. TypeOK'
  BY TypeStep DEF IInv, Next, Environment
<1>1. PICK s \in {"activated", "deactivating", "deactivated"} :
        /\ \/ connection = "activating"
           \/ connection = "activated" /\ s \in {"deactivating", "deactivated"}
           \/ connection = "deactivating" /\ s = "deactivated"
        /\ connection' = s
        /\ bus' = Append(bus, Signal(s))
  BY DEF ConnectionChanges, States
<1>2. UNCHANGED <<profiles, portal, request, cache, tasks, call, received>>
  BY DEF ConnectionChanges
<1> DEFINE n == Len(bus)
<1>3. /\ n \in Nat /\ DOMAIN bus = 1..n /\ DOMAIN bus' = 1..n + 1
      /\ \A i \in 1..n : bus'[i] = bus[i]
      /\ bus'[n + 1] = Signal(s)
  <2>1. Signal(s) \in Events
    BY Kinds DEF States
  <2> QED
    BY <1>1, <2>1 DEF IInv, TypeOK
<1>4. \A i \in DOMAIN bus' : i \in DOMAIN bus \/ i = n + 1
  BY <1>3
<1>5. \A q \in Tasks, i \in DOMAIN bus' :
            IsReply(i, q)' => i \in DOMAIN bus /\ IsReply(i, q) /\ bus'[i] = bus[i]
  BY <1>3, <1>4 DEF IsReply, Signal
<1>6. ASSUME NEW q \in Tasks PROVE OneCall(q)' /\ Matches(q)'
  <2>1. OneCall(q) /\ Matches(q) /\ connection # None
    BY <1>1 DEF IInv, None
  <2>2. OneCall(q)'
    BY <1>2, <1>3, <1>5, <2>1 DEF OneCall, tasks
  <2>3. Matches(q)'
    BY <1>2, <2>1 DEF Matches, tasks
  <2> QED
    BY <2>2, <2>3
<1>7. \A q \in Tasks : Succeeded(q)' => Succeeded(q)
  BY <1>2, <1>5 DEF Succeeded, tasks
<1>8. connection # None /\ connection' # None
  BY <1>1 DEF None
<1>9. Life'
  BY <1>2, <1>7, <1>8 DEF IInv, Life, tasks
<1>10. Signals'
  <2>1. Signals /\ UNCHANGED <<known, received, pc, result>>
    BY <1>2 DEF IInv, cache, tasks
  <2>2. connection' \notin {None, "activating"}
    BY <1>1 DEF None
  <2>3. connection # "deactivated"
    BY <1>1
  <2>4. ASSUME NEW i \in DOMAIN bus', bus'[i] = Signal("activated")
        PROVE  known' = None /\ \A j \in 1..i - 1 : ~IsState(j)'
    <3>1. CASE i \in DOMAIN bus
      <4>1. known = None /\ \A j \in 1..i - 1 : ~IsState(j)
        BY <1>3, <2>1, <2>4, <3>1 DEF Signals
      <4>2. \A j \in 1..i - 1 : bus'[j] = bus[j]
        BY <1>3, <3>1
      <4> QED
        BY <2>1, <4>1, <4>2 DEF IsState
    <3>2. CASE i = n + 1
      <4>1. s = "activated"
        BY <1>3, <2>4, <3>2 DEF Signal
      <4>2. connection = "activating"
        BY <1>1, <4>1
      <4>3. known = None /\ \A j \in DOMAIN bus : ~IsState(j)
        BY <2>1, <4>2 DEF Signals
      <4>4. \A j \in 1..i - 1 : j \in DOMAIN bus /\ bus'[j] = bus[j]
        BY <1>3, <3>2
      <4> QED
        BY <2>1, <4>3, <4>4 DEF IsState
    <3> QED
      BY <1>4, <3>1, <3>2
  <2>5. known' # "deactivated"
    BY <2>1, <2>3 DEF Signals
  <2>6. ASSUME NEW i \in DOMAIN bus', bus'[i] = Signal("deactivated")
        PROVE  connection' = "deactivated"
    BY <1>1, <1>3, <1>4, <2>1, <2>3, <2>6 DEF Signals, Signal
  <2> QED
    BY <2>1, <2>2, <2>3, <2>4, <2>5, <2>6 DEF Signals
<1>11. Cleanup'
  BY <1>2, <1>7 DEF IInv, Cleanup, tasks
<1>12. Purge'
  BY <1>2, <1>7 DEF IInv, Purge, Ours, tasks
<1> QED
  BY <1>0, <1>6, <1>9, <1>10, <1>11, <1>12 DEF IInv

\* What the user deletes is one profile less.
LEMMA Deleted == ASSUME IInv, NEW p \in Profiles, UserDeletes(p) PROVE IInv'
<1> USE PortalAssumption, NoProfileAssumption DEF Tasks, daemon, cache, tasks
<1>0. TypeOK'
  BY TypeStep DEF IInv, Next, Environment
<1>1. ASSUME NEW q \in Tasks PROVE OneCall(q)' /\ Matches(q)'
  BY DEF IInv, TypeOK, OneCall, Matches, IsReply, UserDeletes
<1>2. Life'
  BY DEF IInv, TypeOK, Life, Succeeded, IsReply, UserDeletes
<1>3. Signals'
  BY DEF IInv, TypeOK, Signals, IsState, Signal, UserDeletes
<1>4. Cleanup'
  BY DEF IInv, TypeOK, Cleanup, Succeeded, IsReply, UserDeletes
<1>5. Purge'
  BY DEF IInv, TypeOK, Purge, Ours, Succeeded, IsReply, UserDeletes
<1> QED
  BY <1>0, <1>1, <1>2, <1>3, <1>4, <1>5 DEF IInv

\* What a call of a past run adds is not a profile of this run's.
LEMMA OrphanHandled == ASSUME IInv, HandleOrphan PROVE IInv'
<1>0. TypeOK'
  BY TypeStep DEF IInv, Next, Environment
<1>1. PICK p \in Profiles \ ({portal} \cup purge), q \in Profile :
        /\ q.creator = "past_run"
        /\ profiles[p] = NoProfile
        /\ profiles' = [profiles EXCEPT ![p] = q]
  <2>1. \A o \in orphans : [ssid |-> o.ssid, ap |-> TRUE, creator |-> "past_run"] \in Profile
    BY DEF IInv, TypeOK, Profile
  <2> QED
    BY <2>1 DEF HandleOrphan
<1>2. UNCHANGED <<connection, portal, request, bus, cache, tasks, call, received>>
  BY DEF HandleOrphan
<1>3. /\ profiles'[p].creator = "past_run"
      /\ \A r \in Profiles \ {p} : profiles'[r] = profiles[r]
  BY <1>1 DEF IInv, TypeOK
<1>4. \A s : Ours(s)' = Ours(s)
  BY <1>1, <1>3 DEF Ours
<1>5. ASSUME NEW t \in Tasks PROVE OneCall(t)' /\ Matches(t)' /\ Succeeded(t)' = Succeeded(t)
  BY <1>2 DEF IInv, OneCall, Matches, IsReply, Succeeded, tasks
<1>6. Life'
  BY <1>2, <1>5, PortalAssumption DEF IInv, Life, Tasks, tasks
<1>7. Signals'
  BY <1>2 DEF IInv, Signals, IsState, cache, tasks
<1>8. Cleanup'
  <2>1. portal # None => portal \in Profiles \ {p}
    BY <1>1 DEF IInv, TypeOK
  <2> QED
    BY <1>2, <1>3, <1>5, <2>1 DEF IInv, Cleanup, tasks
<1>9. Purge'
  <2>1. \A r \in purge : r \in Profiles \ {p}
    BY <1>1 DEF IInv, TypeOK
  <2> QED
    BY <1>2, <1>3, <1>4, <1>5, <2>1, PortalAssumption DEF IInv, Purge, Tasks, tasks
<1> QED
  BY <1>0, <1>5, <1>6, <1>7, <1>8, <1>9 DEF IInv

\* The cached link to the profile is not in the invariant.
LEMMA Vanishes == ASSUME IInv, LinkVanishes PROVE IInv'
<1> USE PortalAssumption, NoProfileAssumption DEF Tasks, daemon, cache, tasks
<1>0. TypeOK'
  BY TypeStep DEF IInv, Next
<1>1. ASSUME NEW q \in Tasks PROVE OneCall(q)' /\ Matches(q)'
  BY DEF IInv, OneCall, Matches, IsReply, LinkVanishes
<1>2. Life' /\ Signals'
  BY DEF IInv, Life, Signals, IsState, Succeeded, IsReply, LinkVanishes
<1>3. Cleanup' /\ Purge'
  BY DEF IInv, Cleanup, Purge, Ours, Succeeded, IsReply, LinkVanishes
<1> QED
  BY <1>0, <1>1, <1>2, <1>3 DEF IInv

\* A refusal and a deletion send a reply and no signal.
LEMMA Refused == ASSUME IInv, NEW t \in Tasks, Refuse(t) PROVE IInv'
<1>0. TypeOK'
  BY TypeStep DEF IInv, Next, Handle
<1> DEFINE events == <<ReplyTo(t, "err")>>
<1>1. Handled(t, events) /\ request[t] # None /\ events \in Outcome(t)
  BY DEF Refuse, Outcome
<1>2. /\ \A q \in Tasks : OneCall(q)'
      /\ \A q \in Tasks : Succeeded(q)' => Succeeded(q)
      /\ \A q \in Tasks : request'[q] \in {None, request[q]}
  BY <1>1, Replied
<1>3. UNCHANGED <<daemon, cache, tasks, call, received>>
  BY DEF Refuse, Handled, cache
<1>4. \A q \in Tasks : Matches(q)'
  BY <1>2, <1>3 DEF IInv, Matches, tasks, daemon, None
<1>5. Life'
  BY <1>2, <1>3, PortalAssumption DEF IInv, Life, Tasks, tasks, daemon
<1>6. Signals'
  BY DEF IInv, TypeOK, Signals, IsState, Signal, ReplyTo, Refuse, Handled, tasks, daemon
<1>7. Cleanup'
  BY <1>2, <1>3 DEF IInv, Cleanup, tasks, daemon
<1>8. Purge'
  BY <1>2, <1>3 DEF IInv, Purge, Ours, Tasks, tasks, daemon, None
<1> QED
  BY <1>0, <1>2, <1>4, <1>5, <1>6, <1>7, <1>8 DEF IInv

\* The profile of a delete call that succeeds is gone.
LEMMA DeleteHandled == ASSUME IInv, NEW t \in Tasks, HandleDelete(t) PROVE IInv'
<1>0. TypeOK'
  BY TypeStep DEF IInv, Next, Handle
<1> DEFINE events == <<ReplyTo(t, "ok")>>
<1>1. Handled(t, events) /\ request[t] = "delete" /\ events \in Outcome(t)
  BY DEF HandleDelete, Outcome
<1>2. /\ \A q \in Tasks : OneCall(q)'
      /\ \A q \in Tasks : Succeeded(q)' => Succeeded(q) \/ q = t
      /\ \A q \in Tasks : request'[q] \in {None, request[q]}
  BY <1>1, Replied DEF None
<1>3. UNCHANGED <<connection, portal, cache, tasks, call, received>>
  BY DEF HandleDelete, Handled, cache
<1>4. /\ \A p \in Profiles : profiles'[p] # NoProfile => profiles'[p] = profiles[p]
      /\ target[t] \in Profiles => profiles'[target[t]] = NoProfile
      /\ \A p \in Profiles : profiles[p] = NoProfile => profiles'[p] = NoProfile
  BY DEF HandleDelete, IInv, TypeOK
<1>5. \A q \in Tasks : Matches(q)'
  BY <1>2, <1>3 DEF IInv, Matches, tasks, None
<1>6. Life'
  <2>1. pc[t] # "add"
    BY <1>1 DEF IInv, Matches, None
  <2> QED
    BY <1>2, <1>3, <2>1, PortalAssumption DEF IInv, Life, Tasks, tasks
<1>7. Signals'
  BY DEF IInv, TypeOK, Signals, IsState, Signal, ReplyTo, HandleDelete, Handled, tasks
<1>8. Cleanup'
  <2>1. portal # None => portal \in Profiles
    BY DEF IInv, TypeOK
  <2> QED
    BY <1>2, <1>3, <1>4, <2>1 DEF IInv, Cleanup, tasks
<1>9. Purge'
  <2>1. purge \subseteq Profiles
    BY DEF IInv, TypeOK
  <2> QED
    BY <1>2, <1>3, <1>4, <2>1 DEF IInv, Purge, Ours, Tasks, tasks, None
<1> QED
  BY <1>0, <1>2, <1>5, <1>6, <1>7, <1>8, <1>9 DEF IInv

\* Only the first call of init_network that adds anything can come this far,
\* after the purge of the profiles with the SSID that it adds.
LEMMA Added == ASSUME IInv, NEW t \in Tasks, HandleAddAndActivate(t) PROVE IInv'
<1>0. TypeOK'
  BY TypeStep DEF IInv, Next, Handle
<1> DEFINE events == <<ReplyTo(t, "ok")>>
<1>1. Handled(t, events) /\ request[t] = "add" /\ events \in Outcome(t)
  BY DEF HandleAddAndActivate, Outcome
<1>2. /\ \A q \in Tasks : OneCall(q)'
      /\ \A q \in Tasks : Succeeded(q)' => Succeeded(q) \/ q = t
      /\ \A q \in Tasks : q # t => request'[q] = request[q]
      /\ request'[t] = None
  BY <1>1, Replied DEF None
<1>3. UNCHANGED <<known, tasks, call, received>>
  BY <1>1 DEF Handled
<1>4. t = Starter /\ pc[t] \in {"add", "done"} /\ connection = None /\ portal = None
  BY <1>1 DEF IInv, Matches, Life
<1>5. PICK p \in Profiles :
        /\ profiles[p] = NoProfile
        /\ portal' = p
        /\ profiles' = [profiles EXCEPT ![p] = ApConnection]
  BY DEF HandleAddAndActivate
<1>6. connection' = "activating"
  BY DEF HandleAddAndActivate
<1>7. portal' # None /\ Starter \in Tasks
  BY <1>5, PortalAssumption DEF Tasks
<1>8. \A q \in Tasks : Matches(q)'
  BY <1>2, <1>3, <1>4 DEF IInv, Matches, tasks, None
<1>9. Life'
  BY <1>2, <1>3, <1>4, <1>6, <1>7, PortalAssumption DEF IInv, Life, Tasks, tasks, None
<1>10. Signals'
  <2>1. known = None /\ \A i \in DOMAIN bus : ~IsState(i)
    BY <1>4 DEF IInv, Signals
  <2>2. \A i \in DOMAIN bus' : ~IsState(i)' /\ \A s : bus'[i] # Signal(s)
    BY <1>1, <2>1 DEF IInv, TypeOK, IsState, Handled, ReplyTo, Signal
  <2> QED
    BY <1>3, <1>4, <1>6, <2>1, <2>2 DEF IInv, Signals, tasks, None
<1>11. Cleanup'
  BY <1>3, <1>4 DEF IInv, Cleanup, tasks
<1>12. Purge'
  <2>1. Ours(ssid) = {} /\ ssid' = ssid
    BY <1>1, <1>3, <1>4 DEF IInv, Purge, tasks
  <2>2. /\ profiles'[p] = ApConnection
        /\ \A q \in Profiles \ {p} : profiles'[q] = profiles[q]
    BY <1>5 DEF IInv, TypeOK
  <2>3. ApConnection.ssid = ssid /\ ApConnection.ap = TRUE
    BY DEF ApConnection
  <2>4. ASSUME NEW s \in Ssids, NEW q \in Ours(s)', NEW r \in Ours(s)' PROVE q = r
    <3>1. CASE s = ssid
      BY <2>1, <2>2, <2>4, <3>1 DEF Ours
    <3>2. CASE s # ssid
      <4>1. q \in Ours(s) /\ r \in Ours(s)
        BY <2>2, <2>3, <2>4, <3>2 DEF Ours
      <4> QED
        BY <4>1 DEF IInv, Purge
    <3> QED
      BY <3>1, <3>2
  <2>5. \A q \in Profiles :
            profiles'[q] # NoProfile /\ profiles'[q].creator = "wifi_connect" => profiles'[q].ap
    BY <2>2, <2>3 DEF IInv, Purge
  <2> QED
    BY <1>2, <1>3, <1>4, <1>7, <2>4, <2>5 DEF Purge, tasks, None
<1> QED
  BY <1>0, <1>2, <1>8, <1>9, <1>10, <1>11, <1>12 DEF IInv

\* Taking the connection down sends "deactivating", which no monitor waits for.
LEMMA DeactivateHandled == ASSUME IInv, NEW t \in Tasks, HandleDeactivate(t) PROVE IInv'
<1>0. TypeOK'
  BY TypeStep DEF IInv, Next, Handle
<1>1. PICK events \in {<<ReplyTo(t, "ok")>>, <<ReplyTo(t, "ok"), Signal("deactivating")>>} :
        Handled(t, events)
  BY DEF HandleDeactivate
<1>2. /\ request[t] = "deactivate" /\ events \in Outcome(t)
      /\ connection \in {"activated", "deactivating"} /\ connection' = "deactivating"
  BY DEF HandleDeactivate, Outcome
<1>3. /\ \A q \in Tasks : OneCall(q)'
      /\ \A q \in Tasks : Succeeded(q)' => Succeeded(q) \/ q = t
      /\ \A q \in Tasks : request'[q] \in {None, request[q]}
  BY <1>1, <1>2, Replied DEF None
<1>4. UNCHANGED <<profiles, portal, known, tasks, call, received>>
  BY <1>1 DEF HandleDeactivate, Handled
<1>5. pc[t] \notin {"add", "purge", "cleanup", "delete"}
  BY <1>2 DEF IInv, Matches, None
<1>6. \A q \in Tasks : Matches(q)'
  BY <1>2, <1>3, <1>4 DEF IInv, Matches, tasks, None
<1>7. Life'
  BY <1>2, <1>3, <1>4, <1>5, PortalAssumption DEF IInv, Life, Tasks, tasks, None
<1>8. Signals'
  <2>1. Signals /\ TypeOK
    BY DEF IInv
  <2>2. /\ DOMAIN bus \subseteq DOMAIN bus'
        /\ \A i \in DOMAIN bus : bus'[i] = bus[i]
        /\ \A i \in DOMAIN bus' :
            i \in DOMAIN bus \/ bus'[i] \in {ReplyTo(t, "ok"), Signal("deactivating")}
        /\ \A i \in DOMAIN bus : 1..i - 1 \subseteq DOMAIN bus
    <3>1. bus \in Seq(Events) /\ bus' = bus \o events
      BY <1>1, <2>1 DEF TypeOK, Handled
    <3>2. /\ events \in Seq(Events)
          /\ \A i \in 1..Len(events) : events[i] \in {ReplyTo(t, "ok"), Signal("deactivating")}
      <4>1. ReplyTo(t, "ok") \in Events /\ Signal("deactivating") \in Events
        BY Kinds DEF States
      <4>2. \A a \in Events : <<a>> \in Seq(Events) /\ \A i \in 1..Len(<<a>>) : <<a>>[i] = a
        OBVIOUS
      <4>3. \A a, b \in Events :
                <<a, b>> \in Seq(Events) /\ \A i \in 1..Len(<<a, b>>) : <<a, b>>[i] \in {a, b}
        OBVIOUS
      <4>4. CASE events = <<ReplyTo(t, "ok")>>
        BY <4>1, <4>2, <4>4, Zenon
      <4>5. CASE events = <<ReplyTo(t, "ok"), Signal("deactivating")>>
        BY <4>1, <4>3, <4>5, Zenon
      <4> QED
        BY <4>4, <4>5
    <3>3. Len(bus) \in Nat /\ Len(events) \in Nat
      BY <3>1, <3>2
    <3> QED
      BY <3>1, <3>2, <3>3, Grown
  <2>3. \A i \in DOMAIN bus' : bus'[i] \in {Signal("activated"), Signal("deactivated")} =>
            i \in DOMAIN bus /\ bus'[i] = bus[i]
    BY <2>2 DEF ReplyTo, Signal
  <2> QED
    BY <1>2, <1>4, <2>1, <2>2, <2>3 DEF Signals, IsState, tasks, None
<1>9. Cleanup'
  BY <1>3, <1>4, <1>5 DEF IInv, Cleanup, tasks
<1>10. Purge'
  BY <1>2, <1>3, <1>4, <1>5 DEF IInv, Purge, Ours, Tasks, tasks, None
<1> QED
  BY <1>0, <1>3, <1>6, <1>7, <1>8, <1>9, <1>10 DEF IInv

-----------------------------------------------------------------------------
(* The steps of the network thread keep the invariant. *)

\* What a monitor receives is a state the connection has been in.
LEMMA Dispatched == ASSUME IInv, DispatchEvent PROVE IInv'
<1>0. TypeOK'
  BY TypeStep DEF IInv, Next
<1>1. /\ \A q \in Tasks : OneCall(q)' /\ Matches(q)'
      /\ \A q \in Tasks : Succeeded(q)' => Succeeded(q)
  BY Delivered
<1>2. UNCHANGED <<daemon, request, linked, tasks>>
  BY DEF DispatchEvent
<1> DEFINE n == Len(bus)
           e == bus[1]
<1>3. /\ n \in Nat \ {0} /\ DOMAIN bus = 1..n
      /\ DOMAIN bus' = 1..n - 1
      /\ \A i \in 1..n - 1 : bus'[i] = bus[i + 1]
      /\ Head(bus) = e /\ e \in Events
  BY Shrunk DEF DispatchEvent, IInv, TypeOK
<1>4. Signals /\ TypeOK /\ Life
  BY DEF IInv
<1>5. received'[Starter] = "activated" \/ received[Starter] # "activated"
  <2>1. Starter \in Tasks
    BY DEF Tasks
  <2> QED
    BY <1>4, <2>1 DEF DispatchEvent, OnStateChanged, TypeOK, None
<1>6. Life'
  BY <1>1, <1>2, <1>4, <1>5, PortalAssumption DEF Life, Tasks, daemon, tasks
<1>7. Cleanup'
  BY <1>1, <1>2 DEF IInv, Cleanup, daemon, tasks
<1>8. Purge'
  BY <1>1, <1>2, PortalAssumption DEF IInv, Purge, Ours, Tasks, daemon, tasks
<1>9. \A i \in DOMAIN bus' :
        /\ i + 1 \in DOMAIN bus /\ bus'[i] = bus[i + 1]
        /\ 1 \in 1..(i + 1) - 1
        /\ \A j \in 1..i - 1 : j + 1 \in 1..(i + 1) - 1 /\ bus'[j] = bus[j + 1]
  BY <1>3
<1>10. /\ connection' \in {None, "activating"} => \A i \in DOMAIN bus' : ~IsState(i)'
       /\ (\E i \in DOMAIN bus' : bus'[i] = Signal("deactivated")) => connection' = "deactivated"
  BY <1>2, <1>4, <1>9 DEF Signals, IsState, daemon
<1>11. ASSUME NEW i \in DOMAIN bus', bus'[i] = Signal("activated")
       PROVE  known = None /\ \A j \in 1..(i + 1) - 1 : ~IsState(j)
  <2>1. i + 1 \in DOMAIN bus /\ bus[i + 1] = Signal("activated")
    BY <1>9, <1>11
  <2>2. \A k \in DOMAIN bus : bus[k] = Signal("activated") =>
            known = None /\ \A j \in 1..k - 1 : ~IsState(j)
    BY <1>4 DEF Signals
  <2> QED
    BY <2>1, <2>2
<1>12. CASE e.kind = "reply"
  <2>1. UNCHANGED <<known, received>>
    BY <1>3, <1>12 DEF DispatchEvent
  <2>2. \A i \in DOMAIN bus' : bus'[i] = Signal("activated") =>
            known' = None /\ \A j \in 1..i - 1 : ~IsState(j)'
    BY <1>9, <1>11, <2>1 DEF IsState
  <2>3. Signals'
    BY <1>2, <1>4, <1>10, <2>1, <2>2 DEF Signals, daemon, tasks
  <2> QED
    BY <1>0, <1>1, <1>6, <1>7, <1>8, <2>3 DEF IInv
<1>13. CASE e.kind = "state"
  <2> DEFINE s == e.state
  <2>1. s \in States /\ e = Signal(s)
    BY <1>3, <1>13 DEF Events, Signal
  <2>2. known' = s /\ OnStateChanged(s)
    BY <1>3, <1>13 DEF DispatchEvent
  <2>3. \A t \in Tasks :
            \/ received'[t] = received[t]
            \/ pc[t] = "monitor" /\ s \in Final /\ received'[t] = s
    BY <2>2 DEF OnStateChanged
  <2>4. 1 \in DOMAIN bus /\ IsState(1)
    BY <1>3, <1>13 DEF IsState
  <2>5. connection \notin {None, "activating"}
    BY <1>4, <2>4 DEF Signals
  <2>6. \A i \in DOMAIN bus' : bus'[i] # Signal("activated")
    BY <1>9, <1>11, <2>4
  <2>7. s = "deactivated" => connection = "deactivated"
    BY <1>4, <2>1, <2>4 DEF Signals
  <2>8. s = "activated" => known = None
    BY <1>4, <2>1, <2>4 DEF Signals
  <2>9. s # None
    BY <2>1 DEF States, None
  <2>10. \A t \in Tasks :
            /\ received'[t] # None => known' # None
            /\ received'[t] = "deactivated" => connection' = "deactivated"
    BY <1>2, <1>4, <2>2, <2>3, <2>7, <2>9 DEF Signals, daemon
  <2>11. ASSUME NEW t \in Stops PROVE received'[t] # "activated"
    <3>1. received[t] # "activated" /\ t \in Tasks
      BY <1>4 DEF Signals, Tasks
    <3>2. pc[t] = "monitor" => s # "activated"
      <4>1. pc[t] = "monitor" => received[Starter] = "activated"
        BY <1>4 DEF Life
      <4>2. received[Starter] = "activated" => known # None
        BY <1>4 DEF Signals, Tasks, None
      <4> QED
        BY <4>1, <4>2, <2>8
    <3> QED
      BY <2>3, <3>1, <3>2
  <2>12. Signals'
    BY <1>2, <1>4, <1>10, <2>2, <2>5, <2>6, <2>7, <2>10, <2>11 DEF Signals, daemon, tasks
  <2> QED
    BY <1>0, <1>1, <1>6, <1>7, <1>8, <2>12 DEF IInv
<1> QED
  BY <1>3, <1>12, <1>13, Kinds

\* A call that timed out leaves its request or its reply behind.
LEMMA TimesOut == ASSUME IInv, NEW t \in Tasks, Timeout(t) PROVE IInv'
<1> USE PortalAssumption, NoProfileAssumption DEF Tasks, daemon, cache, tasks
<1>0. TypeOK'
  BY TypeStep DEF IInv, Next
<1>1. ASSUME NEW q \in Tasks PROVE OneCall(q)' /\ Matches(q)'
  <2>1. call'[q] = call[q] \/ (call[q] = "waiting" /\ call'[q] = "err")
    BY DEF Timeout, IInv, TypeOK
  <2>2. OneCall(q) /\ Matches(q)
    BY DEF IInv
  <2> QED
    BY <2>1, <2>2 DEF OneCall, Matches, IsReply, Timeout, None
<1>2. Life'
  BY DEF IInv, TypeOK, Life, Succeeded, IsReply, Timeout
<1>3. Signals'
  BY DEF IInv, TypeOK, Signals, IsState, Signal, Timeout
<1>4. Cleanup'
  BY DEF IInv, TypeOK, Cleanup, Succeeded, IsReply, Timeout
<1>5. Purge'
  BY DEF IInv, TypeOK, Purge, Ours, Succeeded, IsReply, Timeout
<1> QED
  BY <1>0, <1>1, <1>2, <1>3, <1>4, <1>5 DEF IInv

\* The next delete call of the purge is made with none pending, and the ones
\* that are not in todo do not exist.
LEMMA PurgeGoesOn ==
    ASSUME IInv, NEW todo \in SUBSET Profiles, PurgeNext(todo),
           call[Starter] \in {None, "ok"}, connection = None,
           pc[Starter] # "done",
           Ours(ssid) \subseteq todo, purge' = todo,
           UNCHANGED <<daemon, bus, cache, ssid, result, unseen, late, runs, received>>, TypeOK'
    PROVE  IInv'
<1>1. Starter \in Tasks /\ \A t \in Stops : t # Starter
  BY PortalAssumption DEF Tasks
<1>2. \A q \in Tasks : /\ OneCall(q)' /\ Matches(q)'
                       /\ Succeeded(q)' => Succeeded(q) /\ (todo # {} => q # Starter)
                       /\ q # Starter => request'[q] = request[q] /\ pc'[q] = pc[q]
                                         /\ target'[q] = target[q]
  <2>1. CASE todo = {}
    <3>1. \A q \in Tasks : OneCall(q)' /\ Matches(q)'
      BY <1>1, <2>1, GoesOn DEF PurgeNext, NoCall, daemon
    <3> QED
      BY <2>1, <3>1 DEF PurgeNext, NoCall, Goto, Succeeded, IsReply, IInv, TypeOK
  <2>2. CASE todo # {}
    <3>1. PICK p \in todo : CallDelete(Starter, "purge", p)
      BY <2>2 DEF PurgeNext
    <3>2. \A q \in Tasks : /\ OneCall(q)' /\ Matches(q)'
                           /\ Succeeded(q)' => Succeeded(q) /\ q # Starter
      BY <1>1, <3>1, Called DEF CallDelete, daemon
    <3> QED
      BY <3>1, <3>2 DEF CallDelete, Call, Goto, IInv, TypeOK
  <2> QED
    BY <2>1, <2>2
<1>3. \/ todo = {} /\ pc'[Starter] = "prepare" /\ request'[Starter] = request[Starter]
      \/ pc'[Starter] = "purge" /\ request'[Starter] = "delete" /\ target'[Starter] \in todo /\ todo # {}
  BY <1>1 DEF PurgeNext, CallDelete, Call, Goto, NoCall, IInv, TypeOK
<1>4. Life'
  BY <1>1, <1>2, <1>3 DEF IInv, Life, Tasks, daemon
<1>5. Signals'
  BY <1>1, <1>2 DEF IInv, Signals, IsState, Signal, Tasks, daemon, cache
<1>6. Cleanup'
  BY <1>1, <1>2, <1>3 DEF IInv, Cleanup, Tasks, daemon
<1>7. Purge'
  BY <1>1, <1>2, <1>3 DEF IInv, Purge, Ours, daemon
<1> QED
  BY <1>2, <1>4, <1>5, <1>6, <1>7 DEF IInv

\* init_network gives up: whatever it left pending, it makes no further call.
LEMMA GivesUp ==
    ASSUME IInv, Return(Starter, "error"), NoCall,
           pc[Starter] # "done",
           UNCHANGED <<daemon, bus, cache, ssid, purge, unseen, late, runs, received>>, TypeOK'
    PROVE  IInv'
<1> USE PortalAssumption, NoProfileAssumption DEF Tasks, daemon, cache, tasks
<1>1. \A q \in Tasks : OneCall(q)' /\ Matches(q)'
  BY GoesOn DEF Return, NoCall
<1>2. Life'
  BY DEF IInv, TypeOK, Life, Succeeded, IsReply, Return, NoCall, Goto
<1>3. Signals'
  BY DEF IInv, TypeOK, Signals, IsState, Signal, Return, NoCall, Goto
<1>4. Cleanup'
  BY DEF IInv, TypeOK, Cleanup, Succeeded, IsReply, Return, NoCall, Goto
<1>5. Purge'
  BY DEF IInv, TypeOK, Purge, Ours, Succeeded, IsReply, Return, NoCall, Goto
<1> QED
  BY <1>1, <1>2, <1>3, <1>4, <1>5 DEF IInv

\* init_network starts its purge with every profile of the SSID.
LEMMA Created == ASSUME IInv, CreateClient PROVE IInv'
<1>0. TypeOK'
  BY TypeStep DEF IInv, Next, Poll, Tasks
<1>1. /\ Starter \in Tasks /\ pc[Starter] = "create_client" /\ connection = None
      /\ call[Starter] \in {None, "ok"}
  BY DEF CreateClient, IInv, Life, OneCall, Tasks
<1>2. Matching \in SUBSET Profiles /\ Ours(ssid) \subseteq Matching
  BY DEF Matching, Ours, IInv, Purge
<1>3. CASE purge' = Matching /\ PurgeNext(Matching) /\ UNCHANGED result
  BY <1>0, <1>1, <1>2, <1>3, PurgeGoesOn DEF CreateClient
<1>4. CASE Return(Starter, "error") /\ NoCall /\ UNCHANGED purge
  BY <1>0, <1>1, <1>4, GivesUp DEF CreateClient
<1> QED
  BY <1>3, <1>4 DEF CreateClient

\* The profile of the last delete call is gone when the purge goes on.
LEMMA PurgeContinues == ASSUME IInv, Purged PROVE IInv'
<1>0. TypeOK'
  BY TypeStep DEF IInv, Next, Poll, Tasks
<1>1. Starter \in Tasks /\ pc[Starter] = "purge" /\ connection = None
  BY DEF Purged, IInv, Life, Tasks
<1>2. CASE call[Starter] = "ok" /\ UNCHANGED result
           /\ purge' = purge \ {target[Starter]} /\ PurgeNext(purge \ {target[Starter]})
  <2>1. Ours(ssid) \subseteq purge \ {target[Starter]}
    BY <1>1, <1>2 DEF IInv, Purge, Ours, Succeeded
  <2>2. purge \ {target[Starter]} \in SUBSET Profiles
    BY DEF IInv, TypeOK
  <2> QED
    BY <1>0, <1>1, <1>2, <2>1, <2>2, PurgeGoesOn DEF Purged
<1>3. CASE Return(Starter, "error") /\ NoCall /\ UNCHANGED purge
  BY <1>0, <1>1, <1>3, GivesUp DEF Purged
<1> QED
  BY <1>2, <1>3 DEF Purged

\* add_and_activate is called when the purge has left nothing.
LEMMA Prepared == ASSUME IInv, Prepare PROVE IInv'
<1>0. TypeOK'
  BY TypeStep DEF IInv, Next, Poll, Tasks
<1>1. /\ Starter \in Tasks /\ pc[Starter] = "prepare" /\ connection = None
      /\ call[Starter] \in {None, "ok"} /\ Ours(ssid) = {}
      /\ \A t \in Stops : t # Starter
  BY PortalAssumption DEF Prepare, IInv, Life, OneCall, Purge, Tasks
<1>2. UNCHANGED <<daemon, bus, cache, ssid, purge, unseen, late, runs, received, target>>
  BY DEF Prepare, NoCall
<1>3. CASE Call(Starter, "add", "add") /\ UNCHANGED result
  <2>1. /\ \A q \in Tasks : OneCall(q)' /\ Matches(q)'
        /\ \A q \in Tasks : Succeeded(q)' => Succeeded(q) /\ q # Starter
        /\ \A q \in Tasks \ {Starter} : request'[q] = request[q] /\ pc'[q] = pc[q]
        /\ request'[Starter] = "add" /\ pc'[Starter] = "add"
    BY <1>1, <1>2, <1>3, Called DEF daemon
  <2>2. Life'
    BY <1>1, <1>2, <1>3, <2>1 DEF IInv, Life, Tasks, daemon
  <2>3. Signals'
    BY <1>1, <1>2, <1>3, <2>1 DEF IInv, Signals, IsState, Signal, Tasks, daemon, cache
  <2>4. Cleanup'
    BY <1>1, <1>2, <1>3, <2>1 DEF IInv, Cleanup, Tasks, daemon
  <2>5. Purge'
    BY <1>1, <1>2, <2>1 DEF IInv, Purge, Ours, daemon
  <2> QED
    BY <1>0, <2>1, <2>2, <2>3, <2>4, <2>5 DEF IInv
<1>4. CASE Return(Starter, "error") /\ NoCall
  BY <1>0, <1>1, <1>2, <1>4, GivesUp
<1> QED
  BY <1>3, <1>4 DEF Prepare

\* A monitor starts with no call pending.
LEMMA Monitors == ASSUME IInv, NEW t \in Tasks, StartMonitor(t) PROVE IInv'
<1> USE PortalAssumption, NoProfileAssumption DEF Tasks, daemon, cache, tasks
<1>0. TypeOK'
  BY TypeStep DEF IInv, Next, Poll
<1>1. ASSUME NEW q \in Tasks PROVE OneCall(q)' /\ Matches(q)'
  BY GoesOn DEF StartMonitor, Return, NoCall
<1>2. Life'
  BY DEF IInv, TypeOK, Life, Succeeded, IsReply, StartMonitor, Return, NoCall, Goto
<1>3. Signals'
  BY DEF IInv, TypeOK, Signals, IsState, Signal, StartMonitor, Return, NoCall, Goto
<1>4. Cleanup'
  BY DEF IInv, TypeOK, Cleanup, Succeeded, IsReply, StartMonitor, Return, NoCall, Goto
<1>5. Purge'
  BY DEF IInv, TypeOK, Purge, Ours, Succeeded, IsReply, StartMonitor, Return, NoCall, Goto
<1> QED
  BY <1>0, <1>1, <1>2, <1>3, <1>4, <1>5 DEF IInv

\* init_network has its active connection, and leaves with it or without.
LEMMA Starts == ASSUME IInv, PortalStarted PROVE IInv'
<1> USE PortalAssumption, NoProfileAssumption DEF Tasks
<1>0. TypeOK'
  BY TypeStep DEF IInv, Next, Poll
<1>1. /\ pc[Starter] = "monitor" /\ connection # None /\ portal # None
      /\ call[Starter] \in {None, "ok"}
      /\ UNCHANGED <<daemon, bus, cache, ssid, purge, late, runs, received>>
  BY DEF PortalStarted, IInv, Life, OneCall
<1>2. CASE linked /\ received[Starter] = "deactivated"
           /\ CallDelete(Starter, "cleanup", portal) /\ UNCHANGED <<result, unseen>>
  <2>1. /\ \A q \in Tasks : OneCall(q)' /\ Matches(q)'
        /\ \A q \in Tasks : Succeeded(q)' => Succeeded(q) /\ q # Starter
        /\ \A q \in Tasks \ {Starter} : request'[q] = request[q] /\ pc'[q] = pc[q]
                                        /\ target'[q] = target[q]
        /\ request'[Starter] = "delete" /\ pc'[Starter] = "cleanup" /\ target'[Starter] = portal
    BY <1>1, <1>2, Called DEF CallDelete, daemon, IInv, TypeOK
  <2>2. Life'
    BY <1>1, <1>2, <2>1 DEF IInv, Life, daemon
  <2>3. Signals'
    BY <1>1, <1>2, <2>1 DEF IInv, Signals, IsState, Signal, daemon, cache
  <2>4. Cleanup'
    BY <1>1, <1>2, <2>1 DEF IInv, Cleanup, daemon
  <2>5. Purge'
    BY <1>1, <2>1 DEF IInv, Purge, Ours, daemon
  <2> QED
    BY <1>0, <2>1, <2>2, <2>3, <2>4, <2>5 DEF IInv
<1>3. CASE /\ NoCall
           /\ \/ Return(Starter, "ok") /\ received[Starter] = "activated" /\ UNCHANGED unseen
              \/ Return(Starter, "not_activated") /\ unseen' = unseen \cup {Starter}
  <2> USE DEF Return, NoCall, Goto
  <2>1. \A q \in Tasks : OneCall(q)' /\ Matches(q)'
    BY <1>1, <1>3, GoesOn DEF daemon
  <2>2. Life'
    BY <1>1, <1>3 DEF IInv, TypeOK, Life, Succeeded, IsReply, daemon
  <2>3. Signals'
    BY <1>1, <1>3 DEF IInv, TypeOK, Signals, IsState, Signal, daemon, cache
  <2>4. Cleanup'
    BY <1>1, <1>3 DEF IInv, TypeOK, Cleanup, Succeeded, IsReply, daemon
  <2>5. Purge'
    BY <1>1, <1>3 DEF IInv, TypeOK, Purge, Ours, Succeeded, IsReply, daemon
  <2> QED
    BY <1>0, <2>1, <2>2, <2>3, <2>4, <2>5 DEF IInv
<1> QED
  BY <1>2, <1>3 DEF PortalStarted, DeletePortal

\* stop_portal deletes the profile of a connection that is down.
LEMMA Stopped == ASSUME IInv, NEW t \in Tasks, PortalStopped(t) PROVE IInv'
<1> USE PortalAssumption, NoProfileAssumption DEF Tasks
<1>0. TypeOK'
  BY TypeStep DEF IInv, Next, Poll
<1>1. /\ t \in Stops /\ t # Starter /\ pc[t] = "monitor" /\ connection = "deactivated"
      /\ portal # None
      /\ call[t] \in {None, "ok"}
      /\ UNCHANGED <<daemon, bus, cache, ssid, purge, late, runs, received>>
  <2>1. t \in Stops /\ pc[t] = "monitor" /\ received[t] # None
    BY DEF PortalStopped
  <2>2. received[t] = "deactivated"
    BY <2>1 DEF IInv, TypeOK, Signals
  <2> QED
    BY <2>1, <2>2 DEF PortalStopped, IInv, Life, Signals, OneCall, None
<1>2. CASE CallDelete(t, "delete", portal) /\ UNCHANGED <<result, unseen>>
  <2>1. /\ \A q \in Tasks : OneCall(q)' /\ Matches(q)'
        /\ \A q \in Tasks : Succeeded(q)' => Succeeded(q) /\ q # t
        /\ \A q \in Tasks \ {t} : request'[q] = request[q] /\ pc'[q] = pc[q]
                                  /\ target'[q] = target[q]
        /\ request'[t] = "delete" /\ pc'[t] = "delete" /\ target'[t] = portal
    BY <1>1, <1>2, Called DEF CallDelete, daemon, IInv, TypeOK
  <2>2. Life'
    BY <1>1, <1>2, <2>1 DEF IInv, Life, daemon
  <2>3. Signals'
    BY <1>1, <1>2, <2>1 DEF IInv, Signals, IsState, Signal, daemon, cache
  <2>4. Cleanup'
    BY <1>1, <1>2, <2>1 DEF IInv, Cleanup, daemon
  <2>5. Purge'
    BY <1>1, <2>1 DEF IInv, Purge, Ours, daemon
  <2> QED
    BY <1>0, <2>1, <2>2, <2>3, <2>4, <2>5 DEF IInv
<1>3. CASE Return(t, "ok") /\ NoCall /\ unseen' = unseen \cup {t}
  <2> USE DEF Return, NoCall, Goto
  <2>1. \A q \in Tasks : OneCall(q)' /\ Matches(q)'
    BY <1>1, <1>3, GoesOn DEF daemon
  <2>2. Life'
    BY <1>1, <1>3 DEF IInv, TypeOK, Life, Succeeded, IsReply, daemon
  <2>3. Signals'
    BY <1>1, <1>3 DEF IInv, TypeOK, Signals, IsState, Signal, daemon, cache
  <2>4. Cleanup'
    BY <1>1, <1>3 DEF IInv, TypeOK, Cleanup, Succeeded, IsReply, daemon
  <2>5. Purge'
    BY <1>1, <1>3 DEF IInv, TypeOK, Purge, Ours, Succeeded, IsReply, daemon
  <2> QED
    BY <1>0, <2>1, <2>2, <2>3, <2>4, <2>5 DEF IInv
<1> QED
  BY <1>2, <1>3 DEF PortalStopped, DeletePortal

\* The delete call is back, and with "ok" only if the profile is gone.
LEMMA Deletes == ASSUME IInv, NEW t \in Tasks, PortalDeleted(t) PROVE IInv'
<1> USE PortalAssumption, NoProfileAssumption DEF Tasks, daemon, cache, tasks, Return, NoCall, Goto
<1>0. TypeOK'
  BY TypeStep DEF IInv, Next, Poll
<1>1. ASSUME NEW q \in Tasks PROVE OneCall(q)' /\ Matches(q)'
  BY DEF IInv, TypeOK, OneCall, Matches, IsReply, PortalDeleted
<1>2. Life'
  BY DEF IInv, TypeOK, Life, Succeeded, IsReply, PortalDeleted
<1>3. Signals'
  BY DEF IInv, TypeOK, Signals, IsState, Signal, PortalDeleted
<1>4. Cleanup'
  BY DEF IInv, TypeOK, Cleanup, Succeeded, IsReply, PortalDeleted
<1>5. Purge'
  BY DEF IInv, TypeOK, Purge, Ours, Succeeded, IsReply, PortalDeleted
<1> QED
  BY <1>0, <1>1, <1>2, <1>3, <1>4, <1>5 DEF IInv

\* A Stop comes after init_network and calls deactivate first.
LEMMA StopCalled == ASSUME IInv, NEW t \in Stops, Stop(t) PROVE IInv'
<1> USE PortalAssumption, NoProfileAssumption DEF Tasks
<1>0. TypeOK'
  BY TypeStep DEF IInv, Next
<1>1. /\ t # Starter /\ result[Starter] = "ok" /\ pc[t] = "idle"
      /\ call[t] \in {None, "ok"}
      /\ Call(t, "deactivate", "deactivate")
      /\ UNCHANGED <<daemon, bus, cache, ssid, purge, target, result, unseen, late, runs, received>>
  BY DEF Stop, NetworkState, IInv, OneCall
<1>2. /\ \A q \in Tasks : OneCall(q)' /\ Matches(q)'
      /\ \A q \in Tasks : Succeeded(q)' => Succeeded(q) /\ q # t
      /\ \A q \in Tasks \ {t} : request'[q] = request[q] /\ pc'[q] = pc[q]
      /\ request'[t] = "deactivate" /\ pc'[t] = "deactivate"
  BY <1>1, Called DEF daemon
<1>3. Life'
  BY <1>1, <1>2 DEF IInv, Life, daemon, None
<1>4. Signals'
  BY <1>1, <1>2 DEF IInv, Signals, IsState, Signal, daemon, cache
<1>5. Cleanup'
  BY <1>1, <1>2 DEF IInv, Cleanup, daemon
<1>6. Purge'
  BY <1>1, <1>2 DEF IInv, Purge, Ours, daemon
<1> QED
  BY <1>0, <1>2, <1>3, <1>4, <1>5, <1>6 DEF IInv

\* A run starts with the profiles of the runs before it and nothing else.
LEMMA Restarts == ASSUME IInv, Restart PROVE IInv'
<1> USE PortalAssumption DEF Tasks
<1>0. TypeOK'
  BY TypeStep DEF IInv, Next
<1>1. /\ pc' = FreshPc /\ request' = Fresh /\ call' = Fresh /\ target' = Fresh
      /\ received' = Fresh /\ result' = Fresh
      /\ connection' = None /\ portal' = None /\ bus' = <<>> /\ known' = None
      /\ profiles' = profiles
  BY DEF Restart
<1>2. \A q \in Tasks :
        /\ pc'[q] = IF q = Starter THEN "create_client" ELSE "idle"
        /\ request'[q] = None /\ call'[q] = None /\ received'[q] = None /\ result'[q] = None
  BY <1>1 DEF FreshPc, Fresh
<1>3. DOMAIN bus' = {}
  BY <1>1
<1>4. \A q \in Tasks : OneCall(q)' /\ Matches(q)'
  BY <1>2, <1>3 DEF OneCall, Matches, IsReply, None
<1>5. Life'
  BY <1>1, <1>2 DEF Life, None
<1>6. Signals'
  BY <1>1, <1>2, <1>3 DEF Signals, None
<1>7. Cleanup'
  BY <1>2 DEF Cleanup, None
<1>8. Purge'
  BY <1>1, <1>2 DEF IInv, Purge, Ours, None
<1> QED
  BY <1>0, <1>4, <1>5, <1>6, <1>7, <1>8 DEF IInv

-----------------------------------------------------------------------------
(* The theorems. *)

\* No run has come before the first.
LEMMA Initially == Init => IInv
<1> USE PortalAssumption DEF Tasks
<1> SUFFICES ASSUME Init PROVE IInv
  OBVIOUS
<1>1. \A q \in Tasks :
        /\ pc[q] = IF q = Starter THEN "create_client" ELSE "idle"
        /\ request[q] = None /\ call[q] = None /\ received[q] = None /\ result[q] = None
  BY DEF Init, FreshPc, Fresh
<1>2. DOMAIN bus = {}
  BY DEF Init
<1>3. TypeOK
  <2>1. runs \in 1..MaxRuns /\ bus \in Seq(Events)
    BY DEF Init
  <2>2. FreshPc \in [Tasks -> {"idle", "create_client"}] /\ Fresh \in [Tasks -> {None}]
    BY DEF FreshPc, Fresh
  <2> QED
    BY <2>1, <2>2 DEF Init, TypeOK
<1>4. \A q \in Tasks : OneCall(q) /\ Matches(q)
  BY <1>1, <1>2 DEF OneCall, Matches, IsReply, None
<1>5. Life
  BY <1>1 DEF Init, Life, None
<1>6. Signals
  BY <1>1, <1>2 DEF Init, Signals, None
<1>7. Cleanup
  BY <1>1 DEF Cleanup, None
<1>8. Purge
  <2>1. \A p \in Profiles : profiles[p] # NoProfile => profiles[p].creator # "wifi_connect"
    BY DEF Init
  <2> QED
    BY <1>1, <2>1 DEF Purge, Ours, None
<1> QED
  BY <1>3, <1>4, <1>5, <1>6, <1>7, <1>8 DEF IInv

\* No step breaks the invariant.
LEMMA Inductive == IInv /\ [Next]_vars => IInv'
<1> SUFFICES ASSUME IInv, [Next]_vars PROVE IInv'
  OBVIOUS
<1>1. CASE UNCHANGED vars
  BY <1>1 DEF IInv, TypeOK, OneCall, Matches, Life, Signals, Cleanup, Purge, Ours,
     Succeeded, IsReply, IsState, vars, daemon, cache, tasks
<1>2. CASE Environment
  BY <1>2, Moves, OrphanHandled, Deleted DEF Environment
<1>3. ASSUME NEW t \in Tasks, Handle(t) PROVE IInv'
  BY <1>3, Refused, DeleteHandled, Added, DeactivateHandled DEF Handle
<1>4. ASSUME NEW t \in Tasks, Poll(t) PROVE IInv'
  BY <1>4, Created, PurgeContinues, Prepared, Starts, Monitors, Stopped, Deletes DEF Poll
<1> QED
  BY <1>1, <1>2, <1>3, <1>4, Dispatched, Vanishes, TimesOut, StopCalled, Restarts DEF Next

-----------------------------------------------------------------------------
(* The history of the connection: what the signals tell has been. *)

Activation ==
    /\ connection = "activated" => activated
    /\ activated => connection \in {"activated", "deactivating", "deactivated"}
    /\ \A i \in DOMAIN bus : bus[i] = Signal("activated") => activated
    /\ \A t \in Tasks : received[t] = "activated" => activated

\* Only ConnectionChanges sends "activated", and a monitor receives nothing
\* that was not sent.
LEMMA ActivationStep == IInv /\ Activation /\ [Next]_vars => Activation'
<1> SUFFICES ASSUME IInv, Activation, [Next]_vars PROVE Activation'
  OBVIOUS
<1>t. TypeOK
  BY DEF IInv
<1>1. CASE ConnectionChanges
  <2>1. PICK s \in States :
            /\ connection # None /\ s # "activating"
            /\ s = "activated" => connection = "activating"
            /\ connection' = s /\ activated' = (activated \/ s = "activated")
            /\ bus' = Append(bus, Signal(s))
    BY <1>1 DEF ConnectionChanges, None
  <2>2. UNCHANGED received
    BY <1>1 DEF ConnectionChanges
  <2>3. \A i \in DOMAIN bus' : (i \in DOMAIN bus /\ bus'[i] = bus[i]) \/ bus'[i] = Signal(s)
    <3>1. Signal(s) \in Events
      BY Kinds
    <3> QED
      BY <1>t, <2>1, <3>1 DEF TypeOK
  <2>4. Signal(s) = Signal("activated") => s = "activated"
    BY DEF Signal
  <2>5. s \in {"activated", "deactivating", "deactivated"}
    BY <2>1 DEF States
  <2> QED
    BY <2>1, <2>2, <2>3, <2>4, <2>5 DEF Activation
<1>2. ASSUME NEW t \in Tasks, NEW events \in Outcome(t), Handled(t, events)
      PROVE  /\ UNCHANGED received
             /\ \A i \in DOMAIN bus' : bus'[i] = Signal("activated") =>
                    \E j \in DOMAIN bus : bus[j] = Signal("activated")
  <2>1. /\ ReplyTo(t, "ok") \in Events /\ ReplyTo(t, "err") \in Events
        /\ Signal("deactivating") \in Events
    BY Kinds DEF States
  <2>2. /\ Signal("activated") # ReplyTo(t, "ok") /\ Signal("activated") # ReplyTo(t, "err")
        /\ Signal("activated") # Signal("deactivating")
    BY DEF Signal, ReplyTo
  <2>3. /\ events \in Seq(Events)
        /\ \A i \in DOMAIN events : events[i] # Signal("activated")
    <3>1. \A a \in Events : <<a>> \in Seq(Events) /\ \A i \in DOMAIN <<a>> : <<a>>[i] = a
      OBVIOUS
    <3>2. \A a, b \in Events :
            <<a, b>> \in Seq(Events) /\ \A i \in DOMAIN <<a, b>> : <<a, b>>[i] \in {a, b}
      OBVIOUS
    <3>3. \/ \E a \in {ReplyTo(t, "ok"), ReplyTo(t, "err")} : events = <<a>>
          \/ events = <<ReplyTo(t, "ok"), Signal("deactivating")>>
      BY DEF Outcome
    <3>4. CASE \E a \in {ReplyTo(t, "ok"), ReplyTo(t, "err")} : events = <<a>>
      BY <2>1, <2>2, <3>1, <3>4, Zenon
    <3>5. CASE events = <<ReplyTo(t, "ok"), Signal("deactivating")>>
      BY <2>1, <2>2, <3>2, <3>5, Zenon
    <3> QED
      BY <3>3, <3>4, <3>5
  <2>4. bus' = bus \o events
    BY <1>2 DEF Handled
  <2>5. \A i \in DOMAIN bus' :
            \/ i \in DOMAIN bus /\ bus'[i] = bus[i]
            \/ \E j \in DOMAIN events : bus'[i] = events[j]
    BY <1>t, <2>3, <2>4 DEF TypeOK
  <2> QED
    BY <1>2, <2>3, <2>5 DEF Handled
<1>3. ASSUME NEW t \in Tasks, Handle(t) PROVE Activation'
  <2>1. PICK events \in Outcome(t) : Handled(t, events)
    BY <1>3 DEF Handle, Refuse, HandleDelete, HandleAddAndActivate, HandleDeactivate, Outcome
  <2>2. UNCHANGED activated
    BY <1>3 DEF Handle, Refuse, HandleDelete, HandleAddAndActivate, HandleDeactivate, daemon
  <2>3. \/ UNCHANGED connection
        \/ connection = None /\ connection' = "activating"
        \/ connection \in {"activated", "deactivating"} /\ connection' = "deactivating"
    BY <1>3 DEF Handle, Refuse, HandleDelete, HandleAddAndActivate, HandleDeactivate,
           daemon, IInv, Matches
  <2> QED
    BY <1>2, <2>1, <2>2, <2>3 DEF Activation, None
<1>4. CASE DispatchEvent
  <2>1. /\ UNCHANGED <<connection, activated>>
        /\ \A i \in DOMAIN bus' : i + 1 \in DOMAIN bus /\ bus'[i] = bus[i + 1]
        /\ 1 \in DOMAIN bus /\ Head(bus) = bus[1] /\ bus[1] \in Events
    BY <1>t, <1>4, Shrunk DEF DispatchEvent, TypeOK, daemon
  <2>2. ASSUME NEW t \in Tasks, received'[t] = "activated" PROVE activated
    <3>1. CASE received[t] = "activated"
      BY <3>1 DEF Activation
    <3>2. CASE received[t] # "activated"
      <4>1. bus[1].kind = "state" /\ bus[1].state = "activated"
        BY <1>t, <1>4, <2>1, <2>2, <3>2, Kinds DEF DispatchEvent, OnStateChanged, TypeOK
      <4>2. bus[1] = Signal("activated")
        BY <2>1, <4>1 DEF Events, Signal
      <4> QED
        BY <2>1, <4>2 DEF Activation
    <3> QED
      BY <3>1, <3>2
  <2> QED
    BY <2>1, <2>2 DEF Activation
<1>5. CASE Restart
  <2>1. /\ activated' = FALSE /\ connection' = None /\ bus' = <<>>
        /\ \A t \in Tasks : received'[t] = None
    BY <1>5 DEF Restart, Fresh
  <2>2. DOMAIN bus' = {}
    BY <2>1
  <2> QED
    BY <2>1, <2>2 DEF Activation, None
<1>6. CASE UNCHANGED <<connection, activated, bus, received>>
  BY <1>6 DEF Activation
<1>7. HandleOrphan \/ (\E p \in Profiles : UserDeletes(p)) \/ LinkVanishes \/ UNCHANGED vars
        => UNCHANGED <<connection, activated, bus, received>>
  BY DEF HandleOrphan, UserDeletes, LinkVanishes, vars, daemon
<1>8. ASSUME NEW t \in Tasks, Timeout(t) \/ Poll(t) \/ (t \in Stops /\ Stop(t))
      PROVE  UNCHANGED <<connection, activated, bus, received>>
  BY <1>8 DEF Timeout, Poll, Stop, CreateClient, Purged, Prepare, PortalStarted,
         StartMonitor, PortalStopped, PortalDeleted, daemon
<1> QED
  BY <1>1, <1>3, <1>4, <1>5, <1>6, <1>7, <1>8 DEF Next, Environment, Tasks

\* No connection of the first run has been activated before it.
LEMMA InitiallyNotActivated == Init => Activation
<1>1. Init => DOMAIN bus = {}
  BY DEF Init
<1> QED
  BY <1>1 DEF Init, Activation, Fresh, None

-----------------------------------------------------------------------------

\* The invariant holds for every set of stops, profiles and SSIDs.
THEOREM Invariant == Spec => []IInv
<1>1. Init => IInv
  BY Initially
<1>2. IInv /\ [Next]_vars => IInv'
  BY Inductive
<1> QED
  BY <1>1, <1>2, PTL DEF Spec

\* Every variable of the network thread, of the bus and of NetworkManager
\* stays in its type, through refused and late calls and restarts.
THEOREM TypeCorrect == Spec => []TypeOK
<1>1. IInv => TypeOK
  BY DEF IInv
<1> QED
  BY <1>1, Invariant, PTL

\* stop_portal returns Ok only when the access point is down, whatever calls
\* were refused or timed out, and in whatever order signals and replies came.
THEOREM StopTakesDownHolds == Spec => []StopTakesDown
<1>1. IInv => StopTakesDown
  BY DEF IInv, Signals, StopTakesDown
<1> QED
  BY <1>1, Invariant, PTL

\* stop_portal that returns Ok, and create_portal that reports a failed
\* activation, have deleted the profile unless they found no connection().
THEOREM NothingLeftBehindHolds == Spec => []NothingLeftBehind
<1>1. IInv => NothingLeftBehind
  BY DEF IInv, Cleanup, NothingLeftBehind
<1> QED
  BY <1>1, Invariant, PTL

\* delete_exising_wifi_connect_ap_profile keeps the profiles of the program
\* at one per SSID over any number of runs that end anywhere.
THEOREM OneProfilePerSsidHolds == Spec => []OneProfilePerSsid
<1>1. ASSUME IInv, NEW s \in Ssids PROVE Cardinality(Ours(s)) <= 1
  <2>1. CASE Ours(s) = {}
    BY <2>1, FS_EmptySet
  <2>2. CASE Ours(s) # {}
    <3>1. PICK p \in Ours(s) : TRUE
      BY <2>2
    <3>2. Ours(s) = {p}
      BY <1>1, <3>1 DEF IInv, Purge
    <3> QED
      BY <3>2, FS_Singleton
  <2> QED
    BY <2>1, <2>2
<1>2. IInv => OneProfilePerSsid
  BY <1>1 DEF OneProfilePerSsid
<1> QED
  BY <1>2, Invariant, PTL
==============================================================================
