------------------------------ MODULE WifiConnect ------------------------------
(***************************************************************************)
(* The whole program beside /scan: the threads and their messages, module  *)
(* CommandLoop, whose futures are those of module Portal.  The initializa- *)
(* tion oneshot is sent what init_network returns, when it returns it, and *)
(* a Stop is answered with what its future returns.  The network thread    *)
(* dispatches D-Bus events while it runs a main loop: inside block_on for  *)
(* init_network, then in loop_.run.  NetworkManager goes on whatever the   *)
(* program does.                                                           *)
(***************************************************************************)
EXTENDS Naturals, Sequences, FiniteSets

CONSTANTS
    Requests,    \* the HTTP requests of one run of the program
    Profiles, Ssids, MaxRuns, NoProfile     \* as in Portal

VARIABLES
    main, network, initialized, channel, command, handler, spawned, reply, response,
    profiles, connection, portal, activated, orphans, request, bus, known, linked,
    ssid, purge, pc, call, target, received, result, unseen, late, runs

Loop == INSTANCE CommandLoop
Portal == INSTANCE Portal WITH Stops <- Requests

loop == <<main, network, initialized, channel, command, handler, spawned, reply,
          response>>
access == <<profiles, connection, portal, activated, orphans, request, bus, known,
            linked, ssid, purge, pc, call, target, received, result, unseen, late, runs>>
vars == <<loop, access>>

Starter == Portal!Starter
None == Loop!None

ASSUME WifiConnectAssumption ==
    /\ None \notin Profiles
    /\ Starter \notin Requests
    /\ MaxRuns \in Nat \ {0}
    /\ NoProfile \notin Portal!Profile

Init == Loop!Init /\ Portal!Init

-----------------------------------------------------------------------------
(* The two threads. *)

\* What passes between the threads and has nothing to do with the portal.
Messages ==
    /\ \/ Loop!ThreadDies
       \/ Loop!AttachReceiver
       \/ Loop!ReceiveNetworkInitialized
       \/ Loop!Bind
       \/ Loop!ServerEnds
       \/ Loop!Dispatch
       \/ \E r \in Requests :
            Loop!SendCommand(r) \/ Loop!ReceiveResponse(r) \/ Loop!ClientLeaves(r)
    /\ UNCHANGED access

BlockingIterating ==     \* a monitor blocks the thread where it should await
    /\ Loop!Running
    /\ network \in {"initializing", "looping"}
    /\ \A t \in Portal!Tasks : pc[t] # "monitor"

\* The main context of the network thread is iterated.
Iterating == Loop!Running /\ network \in {"initializing", "looping"}

\* block_on polls init_network.  What it returns goes to the main thread; a
\* panic, which only the interface without a name causes, drops the sender.
Start ==
    /\ Loop!Running
    /\ network = "initializing"
    /\ Portal!Poll(Starter)
    /\ IF result'[Starter] = None
       THEN UNCHANGED loop
       ELSE /\ Loop!InitNetwork
            /\ initialized' = "ok" <=> result'[Starter] = "ok"
            /\ initialized' = "closed" => pc[Starter] = "prepare"

\* The future of a Stop is polled for the first time.
BeginStop(r) ==
    /\ Loop!Running
    /\ network = "looping"
    /\ r \in spawned
    /\ command[r] = "Stop"
    /\ Portal!Stop(r)
    /\ UNCHANGED loop

UncheckedStopAnswer(r) == Loop!Stopped     \* errors of stop_portal are only logged

\* stop: the error of stop_portal is passed on.
StopAnswer(r) == IF result'[r] = "ok" THEN Loop!Stopped ELSE Loop!Error

\* It is polled again, and when it returns execute_and_respond responds.
ContinueStop(r) ==
    /\ Loop!Running
    /\ network = "looping"
    /\ Portal!Poll(r)
    /\ IF result'[r] = None
       THEN UNCHANGED loop
       ELSE Loop!ExecuteAndRespond(r) /\ Loop!Respond(r, StopAnswer(r))

\* The future of CheckConnectivity ends; it has no part in the portal.
EndCheck(r) ==
    /\ command[r] # "Stop"
    /\ Loop!ExecuteAndRespond(r)
    /\ UNCHANGED access

DispatchEvent == Iterating /\ Portal!DispatchEvent /\ UNCHANGED loop

Timeout(t) == Iterating /\ Portal!Timeout(t) /\ UNCHANGED loop

LinkVanishes == Iterating /\ Portal!LinkVanishes /\ UNCHANGED loop

-----------------------------------------------------------------------------
(* NetworkManager, and the next run of the program. *)

NetworkManager ==
    /\ Portal!Environment \/ \E t \in Portal!Tasks : Portal!Handle(t)
    /\ UNCHANGED loop

Restart ==
    /\ Portal!Restart
    /\ main' = "awaiting" /\ network' = "initializing" /\ initialized' = "empty"
    /\ channel' = <<>>
    /\ command' = [r \in Requests |-> None]
    /\ handler' = [r \in Requests |-> "idle"]
    /\ spawned' = {}
    /\ reply' = [r \in Requests |-> None]
    /\ response' = [r \in Requests |-> None]

-----------------------------------------------------------------------------

Next ==
    \/ Messages
    \/ Start
    \/ \E r \in Requests : BeginStop(r) \/ ContinueStop(r) \/ EndCheck(r)
    \/ DispatchEvent
    \/ LinkVanishes
    \/ \E t \in Portal!Tasks : Timeout(t)
    \/ NetworkManager
    \/ Restart

Spec == Init /\ [][Next]_vars

\* What is fair in CommandLoop and in Portal; a ready future is polled.
Fairness ==
    /\ WF_vars(Loop!AttachReceiver /\ Messages)
    /\ WF_vars(Loop!ReceiveNetworkInitialized /\ Messages)
    /\ WF_vars(Loop!Dispatch /\ Messages)
    /\ WF_vars(Start)
    /\ WF_vars(DispatchEvent)
    /\ WF_vars(/\ connection \in {"activating", "deactivating"}
               /\ Portal!ConnectionChanges
               /\ UNCHANGED loop)
    /\ \A t \in Portal!Tasks : WF_vars(Timeout(t))
    /\ \A r \in Requests :
        /\ WF_vars(Loop!ReceiveResponse(r) /\ Messages)
        /\ WF_vars(BeginStop(r))
        /\ WF_vars(ContinueStop(r))
        /\ WF_vars(EndCheck(r))

FairSpec == Spec /\ Fairness

-----------------------------------------------------------------------------
(* Properties. *)

\* A client that is told "Stop" can rely on it, through the responder, the
\* oneshot and the HTTP response: the access point is down, and its profile is
\* gone unless connection() was None when stop_portal looked.
StopTold ==
    \A r \in Requests : response[r] = "Stop" =>
        /\ connection = "deactivated"
        /\ r \notin unseen => profiles[portal] = NoProfile

\* The main thread does not wait for ever: it starts to serve or ends, unless
\* init_network has missed the state change it waits for.
StartupEnds ==
    main = "awaiting" ~> (main # "awaiting" \/ Portal!Missed(Starter))

\* A Stop does not leave its client waiting: it is answered, or the client
\* leaves or the process ends, unless the state change was missed.
StopAnswered ==
    \A r \in Requests :
        (handler[r] = "waiting" /\ command[r] = "Stop")
            ~> (handler[r] # "waiting" \/ ~Loop!Running \/ Portal!Missed(r))

\* The program keeps the promise of Hotspot, which is told what NetworkManager
\* does to the access point.  What goes down has been up only if it was activated.
pointBar ==
    CASE connection = None -> "absent"
      [] connection = "activating" -> "starting"
      [] connection = "activated" -> "up"
      [] connection = "deactivating" -> IF activated THEN "up" ELSE "failed"
      [] connection = "deactivated" -> IF activated THEN "down" ELSE "failed"

Promise == INSTANCE Hotspot WITH
    service <- Loop!serviceBar, asked <- command, answer <- Loop!answerBar,
    point <- pointBar

ImplementsHotspot == Promise!HotspotSpec
==============================================================================
