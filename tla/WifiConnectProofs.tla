--------------------------- MODULE WifiConnectProofs ---------------------------
(***************************************************************************)
(* Proofs about WifiConnect, for every set of requests, profiles and SSIDs *)
(* and any number of runs.  The two components are those of the proofs     *)
(* about them, LoopProofs and PortalProofs, and their invariants hold here *)
(* because every step of the program is a step of each, or of neither.     *)
(***************************************************************************)
EXTENDS WifiConnect, TLAPS

LoopProofs == INSTANCE CommandLoopProofs
PortalProofs == INSTANCE PortalProofs WITH Stops <- Requests

-----------------------------------------------------------------------------
(* The components. *)

\* The assumptions of PortalProofs are those of WifiConnect.
LEMMA Assumptions ==
    /\ PortalProofs!None \notin Profiles
    /\ PortalProofs!Starter \notin Requests
    /\ MaxRuns \in Nat \ {0}
    /\ NoProfile \notin PortalProofs!Profile
BY WifiConnectAssumption
   DEF None, Starter, Loop!None, Portal!Starter, Portal!Profile,
       PortalProofs!None, PortalProofs!Starter, PortalProofs!Profile

\* The names that the two instances of Portal share.
LEMMA SameNames ==
    /\ Starter = PortalProofs!Starter /\ Portal!Tasks = PortalProofs!Tasks
    /\ None = PortalProofs!None /\ None = LoopProofs!None
    /\ Starter \in PortalProofs!Tasks /\ Requests \subseteq PortalProofs!Tasks
BY DEF Starter, None, Portal!Starter, PortalProofs!Starter, Portal!Tasks,
       PortalProofs!Tasks, Loop!None, LoopProofs!None, PortalProofs!None

\* So are their actions.
LEMMA SamePortal ==
    /\ Portal!Init => PortalProofs!Init
    /\ Portal!Environment => PortalProofs!Environment
    /\ Portal!DispatchEvent => PortalProofs!DispatchEvent
    /\ Portal!LinkVanishes => PortalProofs!LinkVanishes
    /\ Portal!Restart => PortalProofs!Restart
    /\ \A t \in Portal!Tasks :
        /\ Portal!Handle(t) => PortalProofs!Handle(t)
        /\ Portal!Timeout(t) => PortalProofs!Timeout(t)
        /\ Portal!Poll(t) => PortalProofs!Poll(t)
    /\ \A t \in Requests : Portal!Stop(t) => PortalProofs!Stop(t)
    /\ UNCHANGED access => UNCHANGED PortalProofs!vars

<1>1. Portal!Init => PortalProofs!Init
  BY DEF Portal!None, PortalProofs!None, Portal!Starter, PortalProofs!Starter,
         Portal!Tasks, PortalProofs!Tasks, Portal!daemon,
         PortalProofs!daemon, Portal!cache, PortalProofs!cache,
         Portal!tasks, PortalProofs!tasks, Portal!Init, PortalProofs!Init,
         Portal!FreshPc, PortalProofs!FreshPc, Portal!Fresh,
         PortalProofs!Fresh, Portal!Profile, PortalProofs!Profile
<1>2. Portal!Environment => PortalProofs!Environment
  BY DEF Portal!None, PortalProofs!None, Portal!Starter, PortalProofs!Starter,
         Portal!Tasks, PortalProofs!Tasks, Portal!daemon,
         PortalProofs!daemon, Portal!cache, PortalProofs!cache,
         Portal!tasks, PortalProofs!tasks, Portal!Environment,
         PortalProofs!Environment, Portal!ConnectionChanges,
         PortalProofs!ConnectionChanges, Portal!HandleOrphan,
         PortalProofs!HandleOrphan, Portal!UserDeletes,
         PortalProofs!UserDeletes, Portal!States, PortalProofs!States,
         Portal!Signal, PortalProofs!Signal
<1>3. Portal!DispatchEvent => PortalProofs!DispatchEvent
  BY DEF Portal!None, PortalProofs!None, Portal!Starter, PortalProofs!Starter,
         Portal!Tasks, PortalProofs!Tasks, Portal!daemon,
         PortalProofs!daemon, Portal!cache, PortalProofs!cache,
         Portal!tasks, PortalProofs!tasks, Portal!DispatchEvent,
         PortalProofs!DispatchEvent, Portal!OnStateChanged,
         PortalProofs!OnStateChanged, Portal!Final, PortalProofs!Final
<1>4. Portal!LinkVanishes => PortalProofs!LinkVanishes
  BY DEF Portal!None, PortalProofs!None, Portal!Starter, PortalProofs!Starter,
         Portal!Tasks, PortalProofs!Tasks, Portal!daemon,
         PortalProofs!daemon, Portal!cache, PortalProofs!cache,
         Portal!tasks, PortalProofs!tasks, Portal!LinkVanishes,
         PortalProofs!LinkVanishes
<1>5. Portal!Restart => PortalProofs!Restart
  BY DEF Portal!None, PortalProofs!None, Portal!Starter, PortalProofs!Starter,
         Portal!Tasks, PortalProofs!Tasks, Portal!daemon,
         PortalProofs!daemon, Portal!cache, PortalProofs!cache,
         Portal!tasks, PortalProofs!tasks, Portal!Restart,
         PortalProofs!Restart, Portal!FreshPc, PortalProofs!FreshPc,
         Portal!Fresh, PortalProofs!Fresh
<1>6. ASSUME NEW t PROVE Portal!Handle(t) => PortalProofs!Handle(t)
  BY DEF Portal!None, PortalProofs!None, Portal!Starter, PortalProofs!Starter,
         Portal!Tasks, PortalProofs!Tasks, Portal!daemon,
         PortalProofs!daemon, Portal!cache, PortalProofs!cache,
         Portal!tasks, PortalProofs!tasks, Portal!Handle,
         PortalProofs!Handle, Portal!Refuse, PortalProofs!Refuse,
         Portal!HandleDelete, PortalProofs!HandleDelete,
         Portal!HandleAddAndActivate, PortalProofs!HandleAddAndActivate,
         Portal!HandleDeactivate, PortalProofs!HandleDeactivate,
         Portal!Handled, PortalProofs!Handled, Portal!ApConnection,
         PortalProofs!ApConnection, Portal!Signal, PortalProofs!Signal,
         Portal!ReplyTo, PortalProofs!ReplyTo
<1>7. ASSUME NEW t PROVE Portal!Timeout(t) => PortalProofs!Timeout(t)
  BY DEF Portal!None, PortalProofs!None, Portal!Starter, PortalProofs!Starter,
         Portal!Tasks, PortalProofs!Tasks, Portal!daemon,
         PortalProofs!daemon, Portal!cache, PortalProofs!cache,
         Portal!tasks, PortalProofs!tasks, Portal!Timeout,
         PortalProofs!Timeout
<1>8. ASSUME NEW t PROVE Portal!Poll(t) => PortalProofs!Poll(t)
  BY DEF Portal!None, PortalProofs!None, Portal!Starter, PortalProofs!Starter,
         Portal!Tasks, PortalProofs!Tasks, Portal!daemon,
         PortalProofs!daemon, Portal!cache, PortalProofs!cache,
         Portal!tasks, PortalProofs!tasks, Portal!Poll, PortalProofs!Poll,
         Portal!CreateClient, PortalProofs!CreateClient, Portal!Purged,
         PortalProofs!Purged, Portal!Prepare, PortalProofs!Prepare,
         Portal!PortalStarted, PortalProofs!PortalStarted,
         Portal!StartMonitor, PortalProofs!StartMonitor,
         Portal!Awaited, PortalProofs!Awaited,
         Portal!PortalStopped, PortalProofs!PortalStopped,
         Portal!PortalDeleted, PortalProofs!PortalDeleted,
         Portal!DeletePortal, PortalProofs!DeletePortal, Portal!PurgeNext,
         PortalProofs!PurgeNext, Portal!Matching, PortalProofs!Matching,
         Portal!Goto, PortalProofs!Goto, Portal!Call, PortalProofs!Call,
         Portal!CallDelete, PortalProofs!CallDelete, Portal!NoCall,
         PortalProofs!NoCall, Portal!Return, PortalProofs!Return
<1>9. ASSUME NEW t PROVE Portal!Stop(t) => PortalProofs!Stop(t)
  BY DEF Portal!None, PortalProofs!None, Portal!Starter, PortalProofs!Starter,
         Portal!Tasks, PortalProofs!Tasks, Portal!daemon,
         PortalProofs!daemon, Portal!cache, PortalProofs!cache,
         Portal!tasks, PortalProofs!tasks, Portal!Stop, PortalProofs!Stop,
         Portal!NetworkState, PortalProofs!NetworkState,
         Portal!Call, PortalProofs!Call, Portal!Goto, PortalProofs!Goto
<1>10. UNCHANGED access => UNCHANGED PortalProofs!vars
  BY DEF access, PortalProofs!vars, PortalProofs!daemon, PortalProofs!cache, PortalProofs!tasks
<1> QED
  BY <1>1, <1>2, <1>3, <1>4, <1>5, <1>6, <1>7, <1>8, <1>9, <1>10

\* And those of the two instances of CommandLoop.
LEMMA SameLoop ==
    /\ Loop!Init => LoopProofs!Init
    /\ Loop!InitNetwork => LoopProofs!InitNetwork
    /\ Messages => LoopProofs!Next
    /\ \A r \in Requests : Loop!ExecuteAndRespond(r) => LoopProofs!ExecuteAndRespond(r)
    /\ UNCHANGED loop => UNCHANGED LoopProofs!vars
<1>1. Loop!Init => LoopProofs!Init
  BY DEF Loop!None, LoopProofs!None, Loop!Error, LoopProofs!Error, Loop!Commands,
         LoopProofs!Commands, Loop!Spawned, LoopProofs!Spawned,
         Loop!Outcomes, LoopProofs!Outcomes, Loop!Answers,
         LoopProofs!Answers, Loop!startup, LoopProofs!startup,
         Loop!Running, LoopProofs!Running, Loop!Respond,
         LoopProofs!Respond, Loop!Init, LoopProofs!Init
<1>2. Loop!InitNetwork => LoopProofs!InitNetwork
  BY DEF Loop!None, LoopProofs!None, Loop!Error, LoopProofs!Error, Loop!Commands,
         LoopProofs!Commands, Loop!Spawned, LoopProofs!Spawned,
         Loop!Outcomes, LoopProofs!Outcomes, Loop!Answers,
         LoopProofs!Answers, Loop!startup, LoopProofs!startup,
         Loop!Running, LoopProofs!Running, Loop!Respond,
         LoopProofs!Respond, Loop!InitNetwork, LoopProofs!InitNetwork,
         Loop!InitNetworkRespond, LoopProofs!InitNetworkRespond,
         Loop!InitNetworkPanics, LoopProofs!InitNetworkPanics
<1>3. Messages => LoopProofs!Next
  <2>1. Loop!ThreadDies => LoopProofs!ThreadDies
    BY DEF Loop!ThreadDies, LoopProofs!ThreadDies, Loop!Running,
       LoopProofs!Running, Loop!ToSet, LoopProofs!ToSet
  <2>2. Loop!AttachReceiver => LoopProofs!AttachReceiver
    BY DEF Loop!AttachReceiver, LoopProofs!AttachReceiver, Loop!Running,
       LoopProofs!Running
  <2>3. Loop!ReceiveNetworkInitialized => LoopProofs!ReceiveNetworkInitialized
    BY DEF Loop!ReceiveNetworkInitialized,
       LoopProofs!ReceiveNetworkInitialized
  <2>4. Loop!Bind => LoopProofs!Bind
    BY DEF Loop!Bind, LoopProofs!Bind
  <2>5. Loop!ServerEnds => LoopProofs!ServerEnds
    BY DEF Loop!ServerEnds, LoopProofs!ServerEnds
  <2>6. Loop!Dispatch => LoopProofs!Dispatch
    BY DEF Loop!Dispatch, LoopProofs!Dispatch, Loop!Dispatched,
       LoopProofs!Dispatched, Loop!Running, LoopProofs!Running,
       Loop!Spawned, LoopProofs!Spawned, Loop!Respond,
       LoopProofs!Respond, Loop!startup, LoopProofs!startup
  <2>7. ASSUME NEW r PROVE Loop!SendCommand(r) => LoopProofs!SendCommand(r)
    BY DEF Loop!SendCommand, LoopProofs!SendCommand, Loop!Commands,
       LoopProofs!Commands, Loop!startup, LoopProofs!startup
  <2>8. ASSUME NEW r PROVE Loop!ReceiveResponse(r) => LoopProofs!ReceiveResponse(r)
    BY DEF Loop!ReceiveResponse, LoopProofs!ReceiveResponse,
       Loop!Commands, LoopProofs!Commands, Loop!Error, LoopProofs!Error,
       Loop!None, LoopProofs!None, Loop!startup, LoopProofs!startup
  <2>9. ASSUME NEW r PROVE Loop!ClientLeaves(r) => LoopProofs!ClientLeaves(r)
    BY DEF Loop!ClientLeaves, LoopProofs!ClientLeaves, Loop!startup,
       LoopProofs!startup
  <2> QED
    BY <2>1, <2>2, <2>3, <2>4, <2>5, <2>6, <2>7, <2>8, <2>9 DEF Messages, LoopProofs!Next
<1>4. ASSUME NEW r PROVE Loop!ExecuteAndRespond(r) => LoopProofs!ExecuteAndRespond(r)
  BY DEF Loop!None, LoopProofs!None, Loop!Error, LoopProofs!Error, Loop!Commands,
         LoopProofs!Commands, Loop!Spawned, LoopProofs!Spawned,
         Loop!Outcomes, LoopProofs!Outcomes, Loop!Answers,
         LoopProofs!Answers, Loop!startup, LoopProofs!startup,
         Loop!Running, LoopProofs!Running, Loop!Respond,
         LoopProofs!Respond, Loop!ExecuteAndRespond,
         LoopProofs!ExecuteAndRespond
<1>5. UNCHANGED loop => UNCHANGED LoopProofs!vars
  BY DEF loop, LoopProofs!vars
<1> QED
  BY <1>1, <1>2, <1>3, <1>4, <1>5

-----------------------------------------------------------------------------
(* Steps of the program are steps of its components. *)

\* The HTTP side sees nothing of the portal.
LEMMA LoopStepOfRun == [Next]_vars /\ ~Restart => [LoopProofs!Next]_(LoopProofs!vars)
<1> SUFFICES ASSUME [Next]_vars, ~Restart PROVE [LoopProofs!Next]_(LoopProofs!vars)
  OBVIOUS
<1>1. CASE Messages
  BY <1>1, SameLoop
<1>2. CASE Start
  BY <1>2, SameLoop DEF Start, LoopProofs!Next
<1>3. ASSUME NEW r \in Requests, BeginStop(r) \/ ContinueStop(r) \/ EndCheck(r)
      PROVE  [LoopProofs!Next]_(LoopProofs!vars)
  BY <1>3, SameLoop DEF BeginStop, ContinueStop, EndCheck, LoopProofs!Next
<1>4. CASE DispatchEvent \/ LinkVanishes \/ (\E t \in Portal!Tasks : Timeout(t))
  BY <1>4, SameLoop DEF DispatchEvent, LinkVanishes, Timeout
<1>5. CASE NetworkManager
  BY <1>5, SameLoop DEF NetworkManager
<1>6. CASE UNCHANGED vars
  BY <1>6, SameLoop DEF vars
<1> QED
  BY <1>1, <1>2, <1>3, <1>4, <1>5, <1>6 DEF Next

\* Its next run begins with the program's.
LEMMA LoopStep ==
    [Next]_vars => [LoopProofs!Next]_(LoopProofs!vars) \/ LoopProofs!Init'
<1>1. Restart => LoopProofs!Init'
  BY DEF Restart, LoopProofs!Init, None, Loop!None, LoopProofs!None
<1> QED
  BY <1>1, LoopStepOfRun

\* The portal sees nothing of the threads but when its tasks are polled.
LEMMA PortalStep == [Next]_vars => [PortalProofs!Next]_(PortalProofs!vars)
<1> SUFFICES ASSUME [Next]_vars PROVE [PortalProofs!Next]_(PortalProofs!vars)
  OBVIOUS
<1>1. CASE Messages \/ (\E r \in Requests : EndCheck(r)) \/ UNCHANGED vars
  BY <1>1, SamePortal DEF Messages, EndCheck, vars
<1>2. CASE Start
  BY <1>2, SamePortal, SameNames DEF Start, PortalProofs!Next
<1>3. ASSUME NEW r \in Requests, BeginStop(r) PROVE PortalProofs!Next
  BY <1>3, SamePortal DEF BeginStop, PortalProofs!Next
<1>4. ASSUME NEW r \in Requests, ContinueStop(r) PROVE PortalProofs!Next
  BY <1>4, SamePortal, SameNames DEF ContinueStop, PortalProofs!Next
<1>5. CASE DispatchEvent \/ LinkVanishes
  BY <1>5, SamePortal DEF DispatchEvent, LinkVanishes, PortalProofs!Next
<1>6. ASSUME NEW t \in Portal!Tasks, Timeout(t) PROVE PortalProofs!Next
  BY <1>6, SamePortal, SameNames DEF Timeout, PortalProofs!Next
<1>7. CASE NetworkManager
  BY <1>7, SamePortal, SameNames DEF NetworkManager, PortalProofs!Next
<1>8. CASE Restart
  BY <1>8, SamePortal DEF Restart, PortalProofs!Next
<1> QED
  BY <1>1, <1>2, <1>3, <1>4, <1>5, <1>6, <1>7, <1>8 DEF Next

\* So their invariants hold.
THEOREM Invariant == Spec => [](LoopProofs!IInv /\ PortalProofs!IInv /\ PortalProofs!Activation)
<1>1. Init => LoopProofs!Init /\ PortalProofs!Init
  BY SameLoop, SamePortal DEF Init
<1>2. LoopProofs!Init => LoopProofs!IInv
  BY LoopProofs!Initially
<1>3. PortalProofs!Init => PortalProofs!IInv /\ PortalProofs!Activation
  BY Assumptions, PortalProofs!Initially, PortalProofs!InitiallyNotActivated
<1>4. LoopProofs!IInv /\ [LoopProofs!Next]_(LoopProofs!vars) => LoopProofs!IInv'
  BY LoopProofs!Inductive
<1>5. PortalProofs!IInv /\ [PortalProofs!Next]_(PortalProofs!vars) => PortalProofs!IInv'
  BY Assumptions, PortalProofs!Inductive
<1>6. PortalProofs!IInv /\ PortalProofs!Activation /\ [PortalProofs!Next]_(PortalProofs!vars)
        => PortalProofs!Activation'
  BY Assumptions, PortalProofs!ActivationStep
<1> QED
  BY <1>1, <1>2, <1>3, <1>4, <1>5, <1>6, LoopStep, PortalStep, PTL DEF Spec

-----------------------------------------------------------------------------
(* What the messages between the threads say about the portal. *)

\* Ok(()) is sent for a portal that was activated, and "Stop" is replied and
\* responded for a stop_portal that has returned Ok.
Link ==
    /\ initialized = "ok" => result[PortalProofs!Starter] = "ok"
    /\ \A r \in Requests : reply[r] = "Stop" \/ response[r] = "Stop" => result[r] = "ok"

\* What a task of this run has returned does not change.
LEMMA Kept ==
    ASSUME PortalProofs!IInv, [Next]_vars, ~Restart,
           NEW t \in PortalProofs!Tasks, result[t] = "ok"
    PROVE  result'[t] = "ok"
<1>1. pc[t] = "done" /\ result \in [PortalProofs!Tasks -> {PortalProofs!None, "ok", "error", "not_activated", "delete_failed"}]
  BY DEF PortalProofs!IInv, PortalProofs!TypeOK, PortalProofs!Life,
         PortalProofs!Tasks, PortalProofs!None
<1>2. CASE UNCHANGED result
  BY <1>2
<1>3. ASSUME NEW q \in PortalProofs!Tasks, Portal!Poll(q) PROVE result'[t] = "ok"
  <2>1. PortalProofs!Poll(q)
    BY <1>3, SamePortal, SameNames
  <2>2. pc[q] # "done" /\ (UNCHANGED result \/ \E v : result' = [result EXCEPT ![q] = v])
    BY <2>1 DEF PortalProofs!Poll, PortalProofs!CreateClient, PortalProofs!Purged,
           PortalProofs!Prepare, PortalProofs!PortalStarted,
           PortalProofs!StartMonitor, PortalProofs!PortalStopped,
           PortalProofs!PortalDeleted, PortalProofs!DeletePortal, PortalProofs!Return
  <2> QED
    BY <1>1, <2>2
<1>4. CASE Start
  BY <1>3, <1>4, SameNames DEF Start
<1>5. ASSUME NEW r \in Requests, ContinueStop(r) PROVE result'[t] = "ok"
  BY <1>3, <1>5, SameNames DEF ContinueStop
<1>6. ASSUME NEW r \in Requests, BeginStop(r) PROVE UNCHANGED result
  BY <1>6 DEF BeginStop, Portal!Stop, Portal!NetworkState
<1>7. CASE Messages \/ (\E r \in Requests : EndCheck(r)) \/ UNCHANGED vars
  BY <1>7 DEF Messages, EndCheck, vars, access
<1>8. CASE DispatchEvent \/ LinkVanishes \/ (\E q \in Portal!Tasks : Timeout(q))
  BY <1>8 DEF DispatchEvent, LinkVanishes, Timeout, Portal!DispatchEvent,
         Portal!LinkVanishes, Portal!Timeout, Portal!tasks
<1>9. CASE NetworkManager
  BY <1>9 DEF NetworkManager, Portal!Environment, Portal!ConnectionChanges,
         Portal!HandleOrphan, Portal!UserDeletes, Portal!Handle, Portal!Refuse,
         Portal!HandleDelete,
         Portal!HandleAddAndActivate, Portal!HandleDeactivate, Portal!Handled,
         Portal!tasks
<1> QED
  BY <1>2, <1>4, <1>5, <1>6, <1>7, <1>8, <1>9 DEF Next

\* Every message about the portal is sent with what its future returned.
LEMMA LinkStep ==
    ASSUME LoopProofs!IInv, PortalProofs!IInv, Link, [Next]_vars
    PROVE  Link'
<1> USE DEF LoopProofs!Commands, LoopProofs!Spawned, LoopProofs!Outcomes,
            LoopProofs!Error, LoopProofs!None, Loop!Commands, Loop!Spawned,
            Loop!Error, Loop!None, None
<1>0. LoopProofs!TypeOK /\ \A r \in Requests : LoopProofs!Truthful(r)
  BY DEF LoopProofs!IInv
<1>1. CASE Restart
  BY <1>1, SameNames DEF Restart, Link
<1>2. CASE ~Restart
  <2>1. \A t \in PortalProofs!Tasks : result[t] = "ok" => result'[t] = "ok"
    BY <1>2, Kept
  <2>2. initialized' = "ok" => initialized = "ok" \/ result'[PortalProofs!Starter] = "ok"
    <3>1. CASE Start
      BY <3>1, SameNames DEF Start, loop
    <3>2. CASE Messages
      BY <3>2 DEF Messages, Loop!ThreadDies, Loop!AttachReceiver,
             Loop!ReceiveNetworkInitialized, Loop!Bind, Loop!ServerEnds,
             Loop!Dispatch, Loop!SendCommand, Loop!ReceiveResponse,
             Loop!ClientLeaves, Loop!startup
    <3>3. ASSUME NEW r \in Requests, BeginStop(r) \/ ContinueStop(r) \/ EndCheck(r)
          PROVE  UNCHANGED initialized
      BY <3>3 DEF BeginStop, ContinueStop, EndCheck, Loop!ExecuteAndRespond,
             Loop!startup, loop
    <3>4. CASE UNCHANGED loop
      BY <3>4 DEF loop
    <3> QED
      BY <1>2, <3>1, <3>2, <3>3, <3>4
         DEF Next, DispatchEvent, LinkVanishes, Timeout, NetworkManager, vars
  <2>3. ASSUME NEW r \in Requests
        PROVE  /\ reply'[r] = "Stop" => reply[r] = "Stop" \/ result'[r] = "ok"
               /\ response'[r] = "Stop" => response[r] = "Stop" \/ reply[r] = "Stop"
    <3>1. CASE Start
      BY <3>1 DEF Start, Loop!InitNetwork, loop
    <3>2. CASE Messages
      <4>1. CASE Loop!ThreadDies
        BY <1>0, <4>1 DEF Loop!ThreadDies, LoopProofs!TypeOK
      <4>2. CASE Loop!Dispatch
        BY <1>0, <4>2 DEF Loop!Dispatch, Loop!Dispatched, Loop!Respond, LoopProofs!TypeOK
      <4>3. ASSUME NEW q \in Requests, Loop!ReceiveResponse(q)
            PROVE  /\ UNCHANGED reply
                   /\ response'[r] = "Stop" => response[r] = "Stop" \/ reply[r] = "Stop"
        BY <1>0, <4>3 DEF Loop!ReceiveResponse, LoopProofs!TypeOK
      <4>4. CASE UNCHANGED <<reply, response>>
        BY <4>4
      <4>5. CASE Loop!AttachReceiver \/ Loop!ReceiveNetworkInitialized \/ Loop!Bind \/ Loop!ServerEnds
        BY <4>5 DEF Loop!AttachReceiver, Loop!ReceiveNetworkInitialized, Loop!Bind,
               Loop!ServerEnds
      <4>6. ASSUME NEW q \in Requests, Loop!SendCommand(q) \/ Loop!ClientLeaves(q)
            PROVE  UNCHANGED <<reply, response>>
        BY <4>6 DEF Loop!SendCommand, Loop!ClientLeaves
      <4> QED
        BY <3>2, <4>1, <4>2, <4>3, <4>4, <4>5, <4>6 DEF Messages
    <3>3. ASSUME NEW q \in Requests, BeginStop(q)
          PROVE  UNCHANGED <<reply, response>>
      BY <3>3 DEF BeginStop, loop
    <3>4. ASSUME NEW q \in Requests, ContinueStop(q)
          PROVE  /\ reply'[r] = "Stop" => reply[r] = "Stop" \/ result'[r] = "ok"
                 /\ UNCHANGED response
      <4>1. CASE UNCHANGED loop
        BY <4>1 DEF loop
      <4>2. CASE Loop!ExecuteAndRespond(q) /\ Loop!Respond(q, StopAnswer(q))
        BY <1>0, <4>2 DEF Loop!ExecuteAndRespond, Loop!Respond, StopAnswer, Loop!Stopped,
               LoopProofs!TypeOK
      <4> QED
        BY <3>4, <4>1, <4>2 DEF ContinueStop
    <3>5. ASSUME NEW q \in Requests, EndCheck(q)
          PROVE  /\ reply'[r] = "Stop" => reply[r] = "Stop"
                 /\ UNCHANGED response
      <4>1. PICK a \in Loop!Outcomes(command[q]) : Loop!Respond(q, a)
        BY <3>5 DEF EndCheck, Loop!ExecuteAndRespond
      <4>2. a # "Stop" /\ UNCHANGED response
        BY <3>5 DEF EndCheck, Loop!ExecuteAndRespond, Loop!Outcomes
      <4> QED
        BY <1>0, <4>1, <4>2 DEF Loop!Respond, LoopProofs!TypeOK
    <3>6. CASE UNCHANGED loop
      BY <3>6 DEF loop
    <3> QED
      BY <1>2, <3>1, <3>2, <3>3, <3>4, <3>5, <3>6
         DEF Next, DispatchEvent, LinkVanishes, Timeout, NetworkManager, vars
  <2> QED
    BY <2>1, <2>2, <2>3, SameNames DEF Link
<1> QED
  BY <1>1, <1>2

\* What the two invariants and their link say together, in every state.
THEOREM LinkHolds == Spec => []Link
<1>1. Init => Link
  BY SameNames DEF Init, Loop!Init, Link, None, Loop!None
<1>2. LoopProofs!IInv /\ PortalProofs!IInv /\ Link /\ [Next]_vars => Link'
  BY LinkStep
<1> QED
  BY <1>1, <1>2, Invariant, PTL DEF Spec

\* Who is told "Stop" by respond_to can rely on what stop_portal has done, by
\* whatever way the answer came: the reply, a late client, concurrent Stops.
THEOREM StopToldHolds == Spec => []StopTold
<1>1. PortalProofs!IInv /\ Link => StopTold
  <2> SUFFICES ASSUME PortalProofs!IInv, Link, NEW r \in Requests, response[r] = "Stop"
      PROVE  /\ connection = "deactivated"
             /\ r \notin unseen => profiles[portal] = NoProfile
    BY DEF StopTold
  <2>1. result[r] = "ok" /\ r # PortalProofs!Starter /\ r \in PortalProofs!Tasks
    BY Assumptions, SameNames DEF Link
  <2>2. connection = "deactivated"
    BY <2>1 DEF PortalProofs!IInv, PortalProofs!Signals
  <2>3. r \notin unseen => profiles[portal] = NoProfile
    BY <2>1 DEF PortalProofs!IInv, PortalProofs!Cleanup
  <2> QED
    BY <2>2, <2>3
<1> QED
  BY <1>1, Invariant, LinkHolds, PTL

-----------------------------------------------------------------------------
(* The refinement of Hotspot. *)

\* The operators that the instances of Commands share.
LEMMA SameCommands ==
    /\ Promise!None = None /\ LoopProofs!Service!None = None
    /\ Promise!Commands = LoopProofs!Service!Commands
    /\ \A c : Promise!Outcomes(c) = LoopProofs!Service!Outcomes(c)
BY DEF Promise!None, LoopProofs!Service!None, None, Loop!None, Promise!Commands,
       LoopProofs!Service!Commands, Promise!Outcomes, LoopProofs!Service!Outcomes,
       Promise!Spawned, LoopProofs!Service!Spawned, Promise!Error,
       LoopProofs!Service!Error

\* And what they are told of the two threads.
LEMMA SameBar ==
    /\ Loop!serviceBar = LoopProofs!serviceBar /\ Loop!answerBar = LoopProofs!answerBar
    /\ (Loop!serviceBar = LoopProofs!serviceBar)' /\ (Loop!answerBar = LoopProofs!answerBar)'
BY DEF Loop!serviceBar, LoopProofs!serviceBar, Loop!answerBar, LoopProofs!answerBar,
       Loop!Running, LoopProofs!Running

\* The access point of this run moves as NetworkManager's connection does, and
\* only then: the steps of the program itself leave it alone.
LEMMA PointStep ==
    ASSUME PortalProofs!IInv, PortalProofs!Activation, [Next]_vars, ~Restart
    PROVE  \/ UNCHANGED <<connection, activated>>
           \/ /\ UNCHANGED loop
              /\ \/ UNCHANGED pointBar
                 \/ pointBar = "absent" /\ pointBar' = "starting"
                 \/ pointBar = "starting" /\ pointBar' \in {"up", "failed"}
                 \/ pointBar = "up" /\ pointBar' = "down"
<1>1. CASE Messages \/ (\E r \in Requests : EndCheck(r)) \/ UNCHANGED vars
  BY <1>1 DEF Messages, EndCheck, vars, access
<1>2. ASSUME NEW q \in Portal!Tasks, Portal!Poll(q) PROVE UNCHANGED <<connection, activated>>
  BY <1>2 DEF Portal!Poll, Portal!CreateClient, Portal!Purged, Portal!Prepare,
         Portal!PortalStarted, Portal!StartMonitor, Portal!PortalStopped,
         Portal!PortalDeleted, Portal!daemon
<1>3. CASE Start
  BY <1>2, <1>3, SameNames DEF Start
<1>4. ASSUME NEW r \in Requests, ContinueStop(r) PROVE UNCHANGED <<connection, activated>>
  BY <1>2, <1>4, SameNames DEF ContinueStop
<1>5. ASSUME NEW r \in Requests, BeginStop(r) PROVE UNCHANGED <<connection, activated>>
  BY <1>5 DEF BeginStop, Portal!Stop, Portal!NetworkState, Portal!daemon
<1>6. CASE DispatchEvent \/ LinkVanishes \/ (\E q \in Portal!Tasks : Timeout(q))
  BY <1>6 DEF DispatchEvent, LinkVanishes, Timeout, Portal!DispatchEvent,
         Portal!LinkVanishes, Portal!Timeout, Portal!daemon
<1>7. CASE NetworkManager
  <2>1. CASE Portal!ConnectionChanges
    <3>1. UNCHANGED loop
      BY <1>7 DEF NetworkManager
    <3>2. \/ connection = "activating" /\ ~activated
          \/ connection = "activated" /\ activated
          \/ connection = "deactivating"
      BY <2>1 DEF Portal!ConnectionChanges, PortalProofs!Activation
    <3>3. PortalProofs!None = "none" /\ None = "none" /\ activated \in BOOLEAN
      BY DEF PortalProofs!None, None, Loop!None, PortalProofs!IInv, PortalProofs!TypeOK
    <3>4. CASE connection = "activating" /\ ~activated
      BY <2>1, <3>1, <3>3, <3>4 DEF Portal!ConnectionChanges, Portal!States, pointBar
    <3>5. CASE connection = "activated" /\ activated
      BY <2>1, <3>1, <3>3, <3>5 DEF Portal!ConnectionChanges, Portal!States, pointBar
    <3>6. CASE connection = "deactivating"
      BY <2>1, <3>1, <3>3, <3>6 DEF Portal!ConnectionChanges, Portal!States, pointBar
    <3> QED
      BY <3>2, <3>4, <3>5, <3>6
  <2>o. CASE Portal!HandleOrphan
    BY <2>o DEF Portal!HandleOrphan
  <2>2. ASSUME NEW p \in Profiles, Portal!UserDeletes(p) PROVE UNCHANGED <<connection, activated>>
    BY <2>2 DEF Portal!UserDeletes
  <2>3. ASSUME NEW t \in Portal!Tasks,
               Portal!Refuse(t) \/ Portal!HandleDelete(t)
        PROVE  UNCHANGED <<connection, activated>>
    BY <2>3 DEF Portal!Refuse, Portal!HandleDelete, Portal!daemon
  <2>4. ASSUME NEW t \in Portal!Tasks, Portal!HandleAddAndActivate(t)
        PROVE  pointBar = "absent" /\ pointBar' = "starting"
    <3>1. connection = PortalProofs!None
      BY <2>4, SameNames DEF Portal!HandleAddAndActivate, PortalProofs!IInv,
             PortalProofs!Matches
    <3> QED
      BY <2>4, <3>1 DEF Portal!HandleAddAndActivate, pointBar, PortalProofs!None, None,
             Loop!None
  <2>5. ASSUME NEW t \in Portal!Tasks, Portal!HandleDeactivate(t)
        PROVE  UNCHANGED pointBar
    BY <2>5 DEF Portal!HandleDeactivate, pointBar, PortalProofs!Activation, None, Loop!None
  <2> QED
    BY <1>7, <2>1, <2>o, <2>2, <2>3, <2>4, <2>5
       DEF NetworkManager, Portal!Environment, Portal!Handle
<1> QED
  BY <1>1, <1>3, <1>4, <1>5, <1>6, <1>7 DEF Next

\* A step of the service is one of Hotspot when the access point is where the
\* messages between the threads have said it is.
LEMMA ServiceWithPoint ==
    ASSUME LoopProofs!Service!Next, UNCHANGED pointBar,
           LoopProofs!IInv, LoopProofs!IInv', PortalProofs!IInv, PortalProofs!IInv',
           PortalProofs!Activation', Link, Link'
    PROVE  Promise!HotspotNext
<1> USE SameBar, SameCommands
<1>1. CASE LoopProofs!Service!Start
  <2>1. Promise!Start
    BY <1>1 DEF LoopProofs!Service!Start, Promise!Start
  <2>2. initialized' = "ok"
    BY <1>1 DEF LoopProofs!Service!Start, LoopProofs!serviceBar, LoopProofs!Running,
           LoopProofs!IInv, LoopProofs!Started
  <2>3. result'[PortalProofs!Starter] = "ok"
    BY <2>2 DEF Link
  <2>4. connection' \notin {PortalProofs!None, "activating"}
    BY <2>3, SameNames DEF PortalProofs!IInv, PortalProofs!Life, PortalProofs!Signals,
           PortalProofs!None
  <2>5. connection' \in {"activated", "deactivating", "deactivated"}
    BY <2>4 DEF PortalProofs!IInv, PortalProofs!TypeOK, PortalProofs!States
  <2>6. activated'
    <3>1. received'[PortalProofs!Starter] = "activated"
      BY <2>3 DEF PortalProofs!IInv, PortalProofs!Life
    <3> QED
      BY <3>1, SameNames DEF PortalProofs!Activation
  <2>7. pointBar' \in {"up", "down"}
    BY <2>5, <2>6 DEF pointBar, None, Loop!None
  <2> QED
    BY <2>1, <2>7 DEF Promise!HotspotNext, Promise!StartWithPoint
<1>2. CASE LoopProofs!Service!GoDown
  BY <1>2 DEF LoopProofs!Service!GoDown, Promise!GoDown, Promise!HotspotNext
<1>3. ASSUME NEW r \in Requests, LoopProofs!Service!Ask(r) PROVE Promise!Ask(r)
  BY <1>3 DEF LoopProofs!Service!Ask, Promise!Ask
<1>4. ASSUME NEW r \in Requests, LoopProofs!Service!Resolve(r)
      PROVE  Promise!ResolveWithPoint(r)
  <2>1. Promise!Resolve(r)
    BY <1>4 DEF LoopProofs!Service!Resolve, LoopProofs!Service!Pending,
           Promise!Resolve, Promise!Pending
  <2>2. ASSUME LoopProofs!answerBar'[r] = "Stop" PROVE pointBar' = "down"
    <3>1. response'[r] = "Stop"
      BY <2>2 DEF LoopProofs!answerBar
    <3>2. result'[r] = "ok"
      BY <3>1 DEF Link
    <3>3. connection' = "deactivated"
      BY <3>2 DEF PortalProofs!IInv, PortalProofs!Signals
    <3>4. activated'
      <4>1. pc'[r] # "idle"
        BY <3>2 DEF PortalProofs!IInv, PortalProofs!Life, PortalProofs!None
      <4>2. result'[PortalProofs!Starter] = "ok"
        BY <4>1 DEF PortalProofs!IInv, PortalProofs!Life
      <4>3. received'[PortalProofs!Starter] = "activated"
        BY <4>2 DEF PortalProofs!IInv, PortalProofs!Life
      <4> QED
        BY <4>3, SameNames DEF PortalProofs!Activation
    <3> QED
      BY <3>3, <3>4 DEF pointBar, None, Loop!None
  <2> QED
    BY <2>1, <2>2 DEF Promise!ResolveWithPoint
<1> QED
  BY <1>1, <1>2, <1>3, <1>4 DEF LoopProofs!Service!Next, Promise!HotspotNext

\* One step of the program is one step of Hotspot, or none.
LEMMA HotspotStep ==
    ASSUME LoopProofs!IInv, LoopProofs!IInv', PortalProofs!IInv, PortalProofs!IInv',
           PortalProofs!Activation, PortalProofs!Activation', Link, Link', [Next]_vars
    PROVE  [Promise!HotspotNext]_(Promise!hotspot)
<1>1. CASE Restart
  <2>1. /\ Loop!serviceBar' = "starting" /\ pointBar' = "absent"
        /\ Loop!answerBar' = [r \in Requests |-> None]
        /\ command' = [r \in Requests |-> None]
    BY <1>1 DEF Restart, Portal!Restart, Loop!serviceBar, Loop!Running, Loop!answerBar,
           pointBar, Portal!None, None, Loop!None
  <2> QED
    BY <2>1, SameCommands DEF Promise!HotspotNext, Promise!NewRun
<1>2. CASE ~Restart
  <2>1. CASE UNCHANGED <<connection, activated>>
    <3>1. UNCHANGED pointBar
      BY <2>1 DEF pointBar
    <3>2. [LoopProofs!Next]_(LoopProofs!vars)
      BY <1>2, LoopStepOfRun
    <3>3. [LoopProofs!Service!Next]_(LoopProofs!Service!vars)
      BY <3>2, LoopProofs!ServiceStep
    <3>4. CASE LoopProofs!Service!Next
      BY <3>1, <3>4, ServiceWithPoint
    <3>5. CASE UNCHANGED LoopProofs!Service!vars
      BY <3>1, <3>5, SameBar DEF LoopProofs!Service!vars, Promise!hotspot, Promise!vars
    <3> QED
      BY <3>3, <3>4, <3>5
  <2>2. CASE UNCHANGED loop /\ ~UNCHANGED <<connection, activated>>
    <3>1. UNCHANGED Promise!vars
      BY <2>2 DEF loop, Promise!vars, Loop!serviceBar, Loop!Running, Loop!answerBar
    <3>2. UNCHANGED pointBar \/ Promise!PointMoves
      BY <1>2, <2>2, <3>1, PointStep DEF Promise!PointMoves
    <3> QED
      BY <3>1, <3>2 DEF Promise!HotspotNext, Promise!hotspot
  <2> QED
    BY <1>2, <2>1, <2>2, PointStep
<1> QED
  BY <1>1, <1>2

\* The program keeps the promise of Hotspot: run_web_loop serves only when the
\* access point of this run has been activated, and "Stop" is responded only
\* when it was activated and is down again.
THEOREM ImplementsHotspotHolds == Spec => ImplementsHotspot
<1>1. Init => Promise!HotspotInit
  BY SameCommands DEF Init, Loop!Init, Portal!Init, Promise!HotspotInit, Promise!Init,
         Loop!serviceBar, Loop!Running, Loop!answerBar, pointBar, Portal!None, None,
         Loop!None
<1>2. /\ LoopProofs!IInv /\ PortalProofs!IInv /\ PortalProofs!Activation /\ Link
      /\ LoopProofs!IInv' /\ PortalProofs!IInv' /\ PortalProofs!Activation' /\ Link'
      /\ [Next]_vars
      => [Promise!HotspotNext]_(Promise!hotspot)
  BY HotspotStep
<1> QED
  BY <1>1, <1>2, Invariant, LinkHolds, PTL
     DEF Spec, ImplementsHotspot, Promise!HotspotSpec
==============================================================================
