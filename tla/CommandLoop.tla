----------------------------- MODULE CommandLoop -----------------------------
(***************************************************************************)
(* The two threads of the program and everything that passes between them: *)
(*                                                                         *)
(*   main thread (tokio)          network thread (glib main loop)          *)
(*   -------------------          -------------------------------          *)
(*   receive_network_initialized <-- initialized (oneshot) -- init_network *)
(*   run_web_loop: bind, serve                                             *)
(*     one handler per HTTP       -- channel (FIFO) --> dispatch callback  *)
(*     request, send_command     <-- reply (one oneshot per request) --    *)
(*                                      respond, from the callback or from *)
(*                                      a spawned future                   *)
(*                                                                         *)
(* What the futures do to NetworkManager is left open here: a future ends  *)
(* with any outcome its command allows, and the one of Stop may never end. *)
(***************************************************************************)
EXTENDS Naturals, Sequences, SequencesExt, Commands

CONSTANT Requests       \* the HTTP requests, each made at most once

VARIABLES
    main,         \* the main thread: "awaiting" the initialization, "binding"
                  \* the socket, "serving", "exited" (the process is gone)
    network,      \* the network thread: "initializing", "attaching" the
                  \* receiver, "looping", "failed" (unwinding), "dead"
    initialized,  \* the initialization oneshot: "empty", "ok", "err", or
                  \* "closed" when its sender was dropped
    channel,      \* the glib channel: the requests whose responder is queued
    command,      \* the command of each request
    handler,      \* its web handler: "idle", "waiting", "answered", "gone"
                  \* (dropped with its connection) or "panicked"
    spawned,      \* the requests whose future runs on the main context
    reply,        \* the oneshot of each request: None, a result, or "dropped"
    response      \* what the HTTP client was sent

vars == <<main, network, initialized, channel, command, handler, spawned,
          reply, response>>

startup == <<main, network, initialized>>

TypeOK ==
    /\ main \in {"awaiting", "binding", "serving", "exited"}
    /\ network \in {"initializing", "attaching", "looping", "failed", "dead"}
    /\ initialized \in {"empty", "ok", "err", "closed"}
    /\ channel \in Seq(Requests)
    /\ command \in [Requests -> Commands \cup {None}]
    /\ handler \in [Requests -> {"idle", "waiting", "answered", "gone", "panicked"}]
    /\ spawned \in SUBSET Requests
    /\ reply \in [Requests -> Answers \cup {None, "dropped"}]
    /\ response \in [Requests -> Answers \cup {None}]

Init ==
    /\ main = "awaiting"
    /\ network = "initializing"
    /\ initialized = "empty"
    /\ channel = <<>>
    /\ command = [r \in Requests |-> None]
    /\ handler = [r \in Requests |-> "idle"]
    /\ spawned = {}
    /\ reply = [r \in Requests |-> None]
    /\ response = [r \in Requests |-> None]

\* The end of main ends the process, and every thread with it.
Running == main # "exited"

-----------------------------------------------------------------------------
(* The network thread starts up. *)

BuggyInitNetworkRespond ==     \* the failure is logged and Ok(()) sent anyway
    /\ network = "initializing"
    /\ initialized' = "ok"
    /\ network' \in {"attaching", "failed"}

\* init_network_respond: the outcome of init_network goes to the main thread;
\* an Err makes the caller's expect unwind the thread.
InitNetworkRespond ==
    /\ network = "initializing"
    /\ \/ initialized' = "ok" /\ network' = "attaching"
       \/ initialized' = "err" /\ network' = "failed"

\* A panic inside init_network (an interface without a name) drops the sender.
InitNetworkPanics ==
    /\ network = "initializing"
    /\ initialized' = "closed"
    /\ network' = "failed"

InitNetwork ==
    /\ Running
    /\ InitNetworkRespond \/ InitNetworkPanics
    /\ UNCHANGED <<main, channel, command, handler, spawned, reply, response>>

\* The unwinding drops the receiver, and with it every queued responder.
ThreadDies ==
    /\ Running
    /\ network = "failed"
    /\ network' = "dead"
    /\ channel' = <<>>
    /\ reply' = [r \in Requests |->
                    IF r \in ToSet(channel) THEN "dropped" ELSE reply[r]]
    /\ UNCHANGED <<main, initialized, command, handler, spawned, response>>

AttachReceiver ==
    /\ Running
    /\ network = "attaching"
    /\ network' = "looping"
    /\ UNCHANGED <<main, initialized, channel, command, handler, spawned,
                   reply, response>>

-----------------------------------------------------------------------------
(* The main thread starts up, serves and ends. *)

\* receive_network_initialized: an Err and a dropped sender both end main.
ReceiveNetworkInitialized ==
    /\ main = "awaiting"
    /\ initialized # "empty"
    /\ main' = IF initialized = "ok" THEN "binding" ELSE "exited"
    /\ UNCHANGED <<network, initialized, channel, command, handler, spawned,
                   reply, response>>

\* run_web_loop binds the listening socket, or fails to.
Bind ==
    /\ main = "binding"
    /\ main' \in {"serving", "exited"}
    /\ UNCHANGED <<network, initialized, channel, command, handler, spawned,
                   reply, response>>

\* HttpServer::run returns, on a signal or an error.
ServerEnds ==
    /\ main = "serving"
    /\ main' = "exited"
    /\ UNCHANGED <<network, initialized, channel, command, handler, spawned,
                   reply, response>>

-----------------------------------------------------------------------------
(* The web handlers. *)

BuggySendCommand(r) ==     \* the command goes without its responder
    /\ main = "serving"
    /\ handler[r] = "idle"
    /\ \E c \in Commands : channel' = Append(channel, c)
    /\ handler' = [handler EXCEPT ![r] = "waiting"]
    /\ UNCHANGED <<startup, command, spawned, reply, response>>

\* send_command up to its await.  Sending panics when the receiver is gone.
SendCommand(r) ==
    /\ main = "serving"
    /\ handler[r] = "idle"
    /\ \E c \in Commands : command' = [command EXCEPT ![r] = c]
    /\ IF network = "dead"
       THEN /\ handler' = [handler EXCEPT ![r] = "panicked"]
            /\ UNCHANGED channel
       ELSE /\ handler' = [handler EXCEPT ![r] = "waiting"]
            /\ channel' = Append(channel, r)
    /\ UNCHANGED <<startup, spawned, reply, response>>

\* receive_network_thread_response and respond_to: a result is sent as 200 or
\* 500, and so is the loss of the responder (500).
ReceiveResponse(r) ==
    /\ main = "serving"
    /\ handler[r] = "waiting"
    /\ reply[r] # None
    /\ handler' = [handler EXCEPT ![r] = "answered"]
    /\ response' = [response EXCEPT
            ![r] = IF reply[r] \in Commands THEN reply[r] ELSE Error]
    /\ UNCHANGED <<startup, channel, command, spawned, reply>>

\* The HTTP client closes its connection: the handler, and the receiver it
\* awaits, are dropped.  The command is not recalled.
ClientLeaves(r) ==
    /\ main = "serving"
    /\ handler[r] = "waiting"
    /\ handler' = [handler EXCEPT ![r] = "gone"]
    /\ UNCHANGED <<startup, channel, command, spawned, reply, response>>

-----------------------------------------------------------------------------
(* The main loop of the network thread. *)

\* respond: sending to a receiver that was dropped fails, and is ignored.
Respond(r, result) ==
    reply' = IF handler[r] = "waiting"
             THEN [reply EXCEPT ![r] = result]
             ELSE reply

BuggyDispatched(r) ==     \* one list answers for the other
    IF command[r] \in Spawned
    THEN /\ spawned' = spawned \cup {r}
         /\ UNCHANGED reply
    ELSE /\ Respond(r, "ListConnections")
         /\ UNCHANGED spawned

\* The match of the callback: answer at once, or move the responder into a
\* future.
Dispatched(r) ==
    IF command[r] \in Spawned
    THEN /\ spawned' = spawned \cup {r}
         /\ UNCHANGED reply
    ELSE /\ Respond(r, command[r])
         /\ UNCHANGED spawned

BuggyDispatch ==     \* the loop blocks on a future instead of spawning it
    /\ Running
    /\ network = "looping"
    /\ channel # <<>>
    /\ spawned = {}
    /\ Dispatched(Head(channel))
    /\ channel' = Tail(channel)
    /\ UNCHANGED <<startup, command, handler, response>>

\* One run of the callback given to attach, for the oldest request.
Dispatch ==
    /\ Running
    /\ network = "looping"
    /\ channel # <<>>
    /\ Dispatched(Head(channel))
    /\ channel' = Tail(channel)
    /\ UNCHANGED <<startup, command, handler, response>>

BuggyExecuteAndRespond(r) ==     \* `command_future.await?` drops the responder
    /\ Running
    /\ network = "looping"
    /\ r \in spawned
    /\ Respond(r, command[r]) \/ Respond(r, "dropped")
    /\ spawned' = spawned \ {r}
    /\ UNCHANGED <<startup, channel, command, handler, response>>

\* execute_and_respond: the future of r ends, with any outcome its command has.
ExecuteAndRespond(r) ==
    /\ Running
    /\ network = "looping"
    /\ r \in spawned
    /\ \E result \in Outcomes(command[r]) : Respond(r, result)
    /\ spawned' = spawned \ {r}
    /\ UNCHANGED <<startup, channel, command, handler, response>>

-----------------------------------------------------------------------------

Next ==
    \/ InitNetwork
    \/ ThreadDies
    \/ AttachReceiver
    \/ ReceiveNetworkInitialized
    \/ Bind
    \/ ServerEnds
    \/ Dispatch
    \/ \E r \in Requests :
        \/ SendCommand(r)
        \/ ReceiveResponse(r)
        \/ ClientLeaves(r)
        \/ ExecuteAndRespond(r)

Spec == Init /\ [][Next]_vars

\* The schedulers run what is ready: the main loop its sources, tokio its
\* handlers; and a connectivity check ends, because D-Bus calls time out.
\* Nothing is assumed of the future of Stop, of the initialization, of the
\* clients or of the signals that end the server.
Fairness ==
    /\ WF_vars(AttachReceiver)
    /\ WF_vars(Dispatch)
    /\ \A r \in Requests :
        /\ WF_vars(ReceiveResponse(r))
        /\ WF_vars(command[r] # "Stop" /\ ExecuteAndRespond(r))

FairSpec == Spec /\ Fairness

-----------------------------------------------------------------------------
(* The inductive invariant behind the properties. *)

Queued(r) == \E i \in DOMAIN channel : channel[i] = r

\* The main thread goes on only after Ok(()), which only a live network thread
\* has sent.
Started ==
    /\ initialized = "ok" <=> network \in {"attaching", "looping"}
    /\ main \in {"binding", "serving"} => initialized = "ok"

QueuedOnce == \A i, j \in DOMAIN channel : channel[i] = channel[j] => i = j

\* A request leaves no trace before it is made, and is made to a live thread.
Idle(r) ==
    IF handler[r] = "idle"
    THEN command[r] = None /\ ~Queued(r) /\ r \notin spawned /\ reply[r] = None
    ELSE command[r] \in Commands /\ initialized = "ok"

\* Its responder is queued, or owned by a future, or used; a waiting request
\* has one.
Responder(r) ==
    /\ Queued(r) => r \notin spawned /\ reply[r] = None
    /\ r \in spawned => reply[r] = None
    /\ handler[r] = "waiting" => Queued(r) \/ r \in spawned \/ reply[r] # None

\* Replies, and the responses made from them, are outcomes of the command.
Truthful(r) ==
    /\ handler[r] # "panicked"
    /\ reply[r] # None => reply[r] \in Outcomes(command[r])
    /\ IF handler[r] = "answered"
       THEN response[r] \in Outcomes(command[r])
       ELSE response[r] = None

IInv ==
    /\ TypeOK
    /\ Started
    /\ QueuedOnce
    /\ \A r \in Requests : Idle(r) /\ Responder(r) /\ Truthful(r)

-----------------------------------------------------------------------------
(* Properties. *)

\* The startup handshake: commands are only ever accepted by a process whose
\* network thread has initialized and is alive, so the expect in send_command
\* never fires and no responder is dropped unanswered.
Handshake ==
    /\ main \in {"binding", "serving"} => network \in {"attaching", "looping"}
    /\ \A r \in Requests : handler[r] # "panicked" /\ reply[r] # "dropped"

\* A request that waits can be answered: its responder is in exactly one
\* place, queued in the channel once, owned by its future, or used, for a
\* result its own command can have; it is never dropped unused.
OneResponder ==
    \A r \in Requests : handler[r] = "waiting" =>
        LET queued == {i \in DOMAIN channel : channel[i] = r} IN
        /\ \A i, j \in queued : i = j
        /\ \/ queued # {} /\ r \notin spawned /\ reply[r] = None
           \/ queued = {} /\ r \in spawned /\ reply[r] = None
           \/ queued = {} /\ r \notin spawned /\ reply[r] \in Outcomes(command[r])

\* A request whose future may hang does not keep the others waiting: any
\* request but Stop that waits is eventually answered, unless its client
\* leaves or the process ends.
Answered ==
    \A r \in Requests :
        (handler[r] = "waiting" /\ command[r] # "Stop")
            ~> (handler[r] # "waiting" \/ ~Running)

\* The two threads implement the service of module Rpc.
serviceBar ==
    IF main = "serving" THEN "serving" ELSE IF Running THEN "starting" ELSE "down"

answerBar ==
    [r \in Requests |->
        IF handler[r] \in {"gone", "panicked"} THEN handler[r] ELSE response[r]]

Service == INSTANCE Rpc WITH
    service <- serviceBar, asked <- command, answer <- answerBar

ImplementsRpc == Service!Spec
==============================================================================
