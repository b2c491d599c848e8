-------------------------- MODULE CommandLoopProofs --------------------------
(* Proofs about CommandLoop, for every set of requests. *)
EXTENDS CommandLoop, TLAPS

\* Each step of main.rs, web.rs or network.rs leaves every variable in its type.
LEMMA TypeStep == TypeOK /\ [Next]_vars => TypeOK'
<1> USE DEF Commands, Answers, Error, None, Spawned, Outcomes
<1> SUFFICES ASSUME TypeOK, [Next]_vars PROVE TypeOK'
  OBVIOUS
<1> USE DEF TypeOK
<1>1. CASE InitNetwork
  BY <1>1 DEF InitNetwork, InitNetworkRespond, InitNetworkPanics
<1>2. CASE ThreadDies
  BY <1>2 DEF ThreadDies
<1>3. CASE AttachReceiver
  BY <1>3 DEF AttachReceiver
<1>4. CASE ReceiveNetworkInitialized
  BY <1>4 DEF ReceiveNetworkInitialized
<1>5. CASE Bind \/ ServerEnds
  BY <1>5 DEF Bind, ServerEnds
<1>6. CASE Dispatch
  BY <1>6 DEF Dispatch, Dispatched, Respond, startup
<1>7. ASSUME NEW r \in Requests, SendCommand(r) PROVE TypeOK'
  <2>1. PICK c \in Commands : command' = [command EXCEPT ![r] = c]
    BY <1>7 DEF SendCommand
  <2>2. command' \in [Requests -> Commands \cup {None}]
    BY <2>1
  <2>3. channel' \in Seq(Requests)
    BY <1>7 DEF SendCommand
  <2>4. handler' \in [Requests -> {"idle", "waiting", "answered", "gone", "panicked"}]
    BY <1>7 DEF SendCommand
  <2> QED
    BY <1>7, <2>2, <2>3, <2>4 DEF SendCommand, startup
<1>8. ASSUME NEW r \in Requests, ReceiveResponse(r) PROVE TypeOK'
  BY <1>8 DEF ReceiveResponse, startup
<1>9. ASSUME NEW r \in Requests, ClientLeaves(r) PROVE TypeOK'
  BY <1>9 DEF ClientLeaves, startup
<1>10. ASSUME NEW r \in Requests, ExecuteAndRespond(r) PROVE TypeOK'
  <2>1. PICK result \in Outcomes(command[r]) : Respond(r, result)
    BY <1>10 DEF ExecuteAndRespond
  <2>2. result \in Answers \cup {None, "dropped"}
    OBVIOUS
  <2>3. reply' \in [Requests -> Answers \cup {None, "dropped"}]
    BY <2>1, <2>2 DEF Respond
  <2> QED
    BY <1>10, <2>3 DEF ExecuteAndRespond, startup
<1>11. CASE UNCHANGED vars
  BY <1>11 DEF vars
<1> QED
  BY <1>1, <1>2, <1>3, <1>4, <1>5, <1>6, <1>7, <1>8, <1>9, <1>10, <1>11 DEF Next

\* Every reachable variable has its type: the control states of the threads,
\* the channel and the oneshots of main.rs, web.rs and network.rs.
THEOREM TypeCorrect == Spec => []TypeOK
<1>1. Init => TypeOK
  BY DEF Init, TypeOK, Commands, Answers, Error, None
<1> QED
  BY <1>1, TypeStep, PTL DEF Spec

-----------------------------------------------------------------------------
(* The channel. *)

\* Sending to the glib channel adds the request at its end.
LEMMA Sent ==
    ASSUME channel \in Seq(Requests), NEW r \in Requests,
           channel' = Append(channel, r)
    PROVE  /\ \A q \in Requests : Queued(q)' <=> (Queued(q) \/ q = r)
           /\ QueuedOnce /\ ~Queued(r) => QueuedOnce'
<1>1. Len(channel') = Len(channel) + 1 /\ channel'[Len(channel) + 1] = r
  OBVIOUS
<1>2. DOMAIN channel' = 1..(Len(channel) + 1) /\ DOMAIN channel = 1..Len(channel)
  BY <1>1
<1>3. \A i \in DOMAIN channel : channel'[i] = channel[i]
  OBVIOUS
<1>4. ASSUME NEW q \in Requests PROVE Queued(q)' <=> (Queued(q) \/ q = r)
  BY <1>1, <1>2, <1>3 DEF Queued
<1>5. ASSUME QueuedOnce, ~Queued(r) PROVE QueuedOnce'
  BY <1>1, <1>2, <1>3, <1>5 DEF QueuedOnce, Queued
<1> QED
  BY <1>4, <1>5

\* The callback takes the oldest request out of the channel.
LEMMA Taken ==
    ASSUME channel \in Seq(Requests), channel # <<>>, channel' = Tail(channel)
    PROVE  /\ Head(channel) \in Requests
           /\ Queued(Head(channel))
           /\ QueuedOnce => /\ QueuedOnce'
                            /\ \A q \in Requests :
                                Queued(q)' <=> (Queued(q) /\ q # Head(channel))
<1>1. Len(channel) \in Nat \ {0} /\ Head(channel) = channel[1] /\ channel[1] \in Requests
  OBVIOUS
<1>2. DOMAIN channel = 1..Len(channel) /\ DOMAIN channel' = 1..(Len(channel) - 1)
  BY <1>1
<1>3. \A i \in 1..(Len(channel) - 1) : channel'[i] = channel[i + 1]
  BY <1>1
<1>4. Queued(Head(channel))
  BY <1>1, <1>2 DEF Queued
<1>5. ASSUME QueuedOnce PROVE QueuedOnce'
  BY <1>1, <1>2, <1>3, <1>5 DEF QueuedOnce
<1>6. ASSUME QueuedOnce, NEW q \in Requests
      PROVE  Queued(q)' <=> (Queued(q) /\ q # Head(channel))
  <2>1. ASSUME Queued(q)' PROVE Queued(q) /\ q # Head(channel)
    <3>1. PICK i \in 1..(Len(channel) - 1) : channel'[i] = q
      BY <1>2, <2>1 DEF Queued
    <3>2. i + 1 \in 1..Len(channel) /\ channel[i + 1] = q /\ i + 1 # 1
      BY <1>1, <1>3, <3>1
    <3> QED
      BY <1>1, <1>2, <1>6, <3>2 DEF QueuedOnce, Queued
  <2>2. ASSUME Queued(q), q # Head(channel) PROVE Queued(q)'
    <3>1. PICK i \in 1..Len(channel) : channel[i] = q
      BY <1>2, <2>2 DEF Queued
    <3>2. i - 1 \in 1..(Len(channel) - 1) /\ channel'[i - 1] = q
      BY <1>1, <1>3, <2>2, <3>1
    <3> QED
      BY <1>2, <3>2 DEF Queued
  <2> QED
    BY <2>1, <2>2
<1> QED
  BY <1>1, <1>4, <1>5, <1>6

-----------------------------------------------------------------------------
(* The inductive invariant. *)

\* The part of the invariant that is about one request.
Request(r) == Idle(r) /\ Responder(r) /\ Truthful(r)

\* A step that touches nothing of request r, and changes initialized, if at
\* all, when no request has been made, keeps what holds of r.
LEMMA Untouched ==
    ASSUME NEW r \in Requests, Request(r),
           Queued(r)' <=> Queued(r), r \in spawned' <=> r \in spawned,
           command'[r] = command[r], handler'[r] = handler[r],
           reply'[r] = reply[r], response'[r] = response[r],
           initialized = "ok" => initialized' = "ok"
    PROVE  Request(r)'
BY DEF Request, Idle, Responder, Truthful

\* Before initialization no request exists: none is queued.
LEMMA NothingQueued ==
    ASSUME IInv, initialized # "ok"
    PROVE  \A r \in Requests : handler[r] = "idle" /\ ~Queued(r)
BY DEF IInv, Idle

\* No step of either thread breaks the invariant.
LEMMA Inductive == IInv /\ [Next]_vars => IInv'
<1> SUFFICES ASSUME IInv, [Next]_vars PROVE IInv'
  OBVIOUS
<1>t. TypeOK /\ TypeOK'
  BY TypeStep DEF IInv
<1>r. \A r \in Requests : Request(r)
  BY DEF IInv, Request
<1>s. Started /\ QueuedOnce
  BY DEF IInv
<1>g. ASSUME Started', QueuedOnce', \A r \in Requests : Request(r)' PROVE IInv'
  BY <1>t, <1>g DEF IInv, Request
<1>1. CASE InitNetwork
  <2>1. Started'
    BY <1>1, <1>s DEF InitNetwork, InitNetworkRespond, InitNetworkPanics, Started
  <2>2. QueuedOnce'
    BY <1>1, <1>s DEF InitNetwork, QueuedOnce
  <2>3. initialized # "ok"
    BY <1>1, <1>s DEF InitNetwork, InitNetworkRespond, InitNetworkPanics, Started
  <2>4. ASSUME NEW r \in Requests PROVE Request(r)'
    BY <1>1, <1>r, <2>3, <2>4, Untouched DEF InitNetwork, Queued
  <2> QED
    BY <1>g, <2>1, <2>2, <2>4
<1>2. CASE ThreadDies
  <2>1. Started' /\ initialized # "ok" /\ initialized' = initialized
    BY <1>2, <1>s DEF ThreadDies, Started
  <2>2. QueuedOnce'
    BY <1>2 DEF ThreadDies, QueuedOnce
  <2>3. ASSUME NEW r \in Requests PROVE Request(r)'
    <3>1. ~Queued(r)
      BY <2>1, NothingQueued
    <3>2. r \notin ToSet(channel)
      BY <3>1 DEF Queued, ToSet
    <3>3. reply'[r] = reply[r]
      BY <1>2, <3>2 DEF ThreadDies
    <3>4. ~Queued(r)'
      BY <1>2 DEF ThreadDies, Queued
    <3> QED
      BY <1>2, <1>r, <2>1, <3>1, <3>3, <3>4, Untouched DEF ThreadDies
  <2> QED
    BY <1>g, <2>1, <2>2, <2>3
<1>3. CASE AttachReceiver
  <2>1. Started' /\ QueuedOnce'
    BY <1>3, <1>s DEF AttachReceiver, Started, QueuedOnce
  <2>2. ASSUME NEW r \in Requests PROVE Request(r)'
    BY <1>3, <1>r, Untouched DEF AttachReceiver, Queued
  <2> QED
    BY <1>g, <2>1, <2>2
<1>4. CASE ReceiveNetworkInitialized
  <2>1. Started' /\ QueuedOnce'
    BY <1>4, <1>s DEF ReceiveNetworkInitialized, Started, QueuedOnce
  <2>2. ASSUME NEW r \in Requests PROVE Request(r)'
    BY <1>4, <1>r, Untouched DEF ReceiveNetworkInitialized, Queued
  <2> QED
    BY <1>g, <2>1, <2>2
<1>5. CASE Bind \/ ServerEnds
  <2>1. Started' /\ QueuedOnce'
    BY <1>5, <1>s DEF Bind, ServerEnds, Started, QueuedOnce
  <2>2. ASSUME NEW r \in Requests PROVE Request(r)'
    BY <1>5, <1>r, Untouched DEF Bind, ServerEnds, Queued
  <2> QED
    BY <1>g, <2>1, <2>2
<1>6. CASE Dispatch
  <2> DEFINE h == Head(channel)
  <2>1. /\ h \in Requests /\ Queued(h) /\ QueuedOnce'
        /\ \A q \in Requests : Queued(q)' <=> (Queued(q) /\ q # h)
    BY <1>6, <1>s, <1>t, Taken DEF Dispatch, TypeOK
  <2>2. Started'
    BY <1>6, <1>s DEF Dispatch, Started, startup
  <2>3. ASSUME NEW r \in Requests PROVE Request(r)'
    <3>1. CASE r # h
      <4>1. reply'[r] = reply[r] /\ (r \in spawned' <=> r \in spawned)
        BY <1>6, <1>t, <2>1, <3>1 DEF Dispatch, Dispatched, Respond, TypeOK
      <4> QED
        BY <1>6, <1>r, <2>1, <3>1, <4>1, Untouched DEF Dispatch, startup
    <3>2. CASE r = h
      <4>1. Queued(r) /\ ~Queued(r)'
        BY <2>1, <3>2
      <4>2. Dispatched(r) /\ UNCHANGED <<startup, command, handler, response>>
        BY <1>6, <3>2 DEF Dispatch
      <4>3. handler[r] # "idle" /\ command[r] \in Commands /\ initialized' = "ok"
        BY <1>r, <4>1, <4>2 DEF Request, Idle, startup
      <4>4. r \notin spawned /\ reply[r] = None
        BY <1>r, <4>1 DEF Request, Responder
      <4>5. CASE command[r] \in Spawned
        BY <1>r, <4>1, <4>2, <4>3, <4>4, <4>5
           DEF Request, Idle, Responder, Truthful, Dispatched
      <4>6. CASE command[r] \notin Spawned
        <5>1. reply'[r] = IF handler[r] = "waiting" THEN command[r] ELSE None
          BY <1>t, <4>2, <4>4, <4>6 DEF Dispatched, Respond, TypeOK
        <5>2. r \notin spawned'
          BY <4>2, <4>4, <4>6 DEF Dispatched
        <5>3. command[r] # None /\ command[r] \in Outcomes(command[r])
          BY <4>3 DEF Commands, None, Outcomes
        <5> QED
          BY <1>r, <4>1, <4>2, <4>3, <5>1, <5>2, <5>3
             DEF Request, Idle, Responder, Truthful
      <4> QED
        BY <4>5, <4>6
    <3> QED
      BY <3>1, <3>2
  <2> QED
    BY <1>g, <2>1, <2>2, <2>3
<1>7. ASSUME NEW q \in Requests, SendCommand(q) PROVE IInv'
  <2>1. initialized = "ok" /\ network # "dead"
    BY <1>7, <1>s DEF SendCommand, Started
  <2>2. PICK c \in Commands : command' = [command EXCEPT ![q] = c]
    BY <1>7 DEF SendCommand
  <2>3. channel' = Append(channel, q) /\ handler' = [handler EXCEPT ![q] = "waiting"]
    BY <1>7, <2>1 DEF SendCommand
  <2>4. handler[q] = "idle" /\ UNCHANGED <<main, network, initialized, spawned, reply, response>>
    BY <1>7 DEF SendCommand, startup
  <2>5. ~Queued(q) /\ q \notin spawned /\ reply[q] = None /\ response[q] = None
    BY <1>r, <2>4 DEF Request, Idle, Truthful
  <2>6. QueuedOnce' /\ \A r \in Requests : Queued(r)' <=> (Queued(r) \/ r = q)
    BY <1>s, <1>t, <2>3, <2>5, Sent DEF TypeOK
  <2>7. Started'
    BY <1>s, <2>4 DEF Started
  <2>8. ASSUME NEW r \in Requests PROVE Request(r)'
    <3>1. CASE r # q
      <4>1. command'[r] = command[r] /\ handler'[r] = handler[r]
        BY <1>t, <2>2, <2>3, <3>1 DEF TypeOK
      <4> QED
        BY <1>r, <2>4, <2>6, <3>1, <4>1, Untouched
    <3>2. CASE r = q
      <4>1. command'[r] = c /\ handler'[r] = "waiting"
        BY <1>t, <2>2, <2>3, <3>2 DEF TypeOK
      <4> QED
        BY <2>1, <2>4, <2>5, <2>6, <3>2, <4>1 DEF Request, Idle, Responder, Truthful
    <3> QED
      BY <3>1, <3>2
  <2> QED
    BY <1>g, <2>6, <2>7, <2>8
<1>8. ASSUME NEW q \in Requests, ReceiveResponse(q) PROVE IInv'
  <2>1. Started' /\ QueuedOnce'
    BY <1>8, <1>s DEF ReceiveResponse, Started, QueuedOnce, startup
  <2>2. UNCHANGED <<initialized, channel, command, spawned, reply>>
    BY <1>8 DEF ReceiveResponse, startup
  <2>3. ASSUME NEW r \in Requests PROVE Request(r)'
    <3>1. CASE r # q
      <4>1. handler'[r] = handler[r] /\ response'[r] = response[r]
        BY <1>8, <1>t, <3>1 DEF ReceiveResponse, TypeOK
      <4> QED
        BY <1>r, <2>2, <4>1, Untouched DEF Queued
    <3>2. CASE r = q
      <4>1. handler[r] = "waiting" /\ reply[r] # None
        BY <1>8, <3>2 DEF ReceiveResponse
      <4>2. handler'[r] = "answered"
        BY <1>8, <1>t, <3>2 DEF ReceiveResponse, TypeOK
      <4>3. response'[r] = IF reply[r] \in Commands THEN reply[r] ELSE Error
        BY <1>8, <1>t, <3>2 DEF ReceiveResponse, TypeOK
      <4>4. reply[r] \in Outcomes(command[r]) /\ command[r] \in Commands
        BY <1>r, <4>1 DEF Request, Idle, Truthful
      <4>5. response'[r] \in Outcomes(command[r])
        BY <4>3, <4>4 DEF Outcomes, Commands, Error
      <4>6. Queued(r)' <=> Queued(r)
        BY <2>2 DEF Queued
      <4> QED
        BY <1>r, <2>2, <4>1, <4>2, <4>4, <4>5, <4>6
           DEF Request, Idle, Responder, Truthful
    <3> QED
      BY <3>1, <3>2
  <2> QED
    BY <1>g, <2>1, <2>3
<1>9. ASSUME NEW q \in Requests, ClientLeaves(q) PROVE IInv'
  <2>1. Started' /\ QueuedOnce'
    BY <1>9, <1>s DEF ClientLeaves, Started, QueuedOnce, startup
  <2>2. UNCHANGED <<initialized, channel, command, spawned, reply, response>>
    BY <1>9 DEF ClientLeaves, startup
  <2>3. ASSUME NEW r \in Requests PROVE Request(r)'
    <3>1. CASE r # q
      BY <1>9, <1>r, <1>t, <2>2, <3>1, Untouched DEF ClientLeaves, Queued, TypeOK
    <3>2. CASE r = q
      <4>1. handler[r] = "waiting" /\ handler'[r] = "gone"
        BY <1>9, <1>t, <3>2 DEF ClientLeaves, TypeOK
      <4>2. Queued(r)' <=> Queued(r)
        BY <2>2 DEF Queued
      <4> QED
        BY <1>r, <2>2, <4>1, <4>2 DEF Request, Idle, Responder, Truthful
    <3> QED
      BY <3>1, <3>2
  <2> QED
    BY <1>g, <2>1, <2>3
<1>10. ASSUME NEW q \in Requests, ExecuteAndRespond(q) PROVE IInv'
  <2>1. Started' /\ QueuedOnce'
    BY <1>10, <1>s DEF ExecuteAndRespond, Started, QueuedOnce, startup
  <2>2. /\ q \in spawned /\ spawned' = spawned \ {q}
        /\ UNCHANGED <<initialized, channel, command, handler, response>>
    BY <1>10 DEF ExecuteAndRespond, startup
  <2>3. PICK result \in Outcomes(command[q]) : Respond(q, result)
    BY <1>10 DEF ExecuteAndRespond
  <2>4. ASSUME NEW r \in Requests PROVE Request(r)'
    <3>0. Queued(r)' <=> Queued(r)
      BY <2>2 DEF Queued
    <3>1. CASE r # q
      <4>1. reply'[r] = reply[r]
        BY <1>t, <2>3, <3>1 DEF Respond, TypeOK
      <4> QED
        BY <1>r, <2>2, <3>0, <3>1, <4>1, Untouched
    <3>2. CASE r = q
      <4>1. reply[r] = None /\ ~Queued(r) /\ handler[r] # "idle" /\ command[r] \in Commands
        BY <1>r, <2>2, <3>2 DEF Request, Idle, Responder
      <4>2. reply'[r] = IF handler[r] = "waiting" THEN result ELSE None
        BY <1>t, <2>3, <3>2, <4>1 DEF Respond, TypeOK
      <4>3. result # None
        BY <3>2, <4>1 DEF Outcomes, Commands, Error, None
      <4> QED
        BY <1>r, <2>2, <2>3, <3>0, <3>2, <4>1, <4>2, <4>3
           DEF Request, Idle, Responder, Truthful
    <3> QED
      BY <3>1, <3>2
  <2> QED
    BY <1>g, <2>1, <2>4
<1>11. CASE UNCHANGED vars
  <2>1. Started' /\ QueuedOnce'
    BY <1>11, <1>s DEF vars, Started, QueuedOnce
  <2>2. ASSUME NEW r \in Requests PROVE Request(r)'
    BY <1>11, <1>r, Untouched DEF vars, Queued
  <2> QED
    BY <1>g, <2>1, <2>2
<1> QED
  BY <1>1, <1>2, <1>3, <1>4, <1>5, <1>6, <1>7, <1>8, <1>9, <1>10, <1>11 DEF Next

\* No request has been made at the start.
LEMMA Initially == Init => IInv
<1> SUFFICES ASSUME Init PROVE IInv
  OBVIOUS
<1>1. TypeOK
  BY DEF Init, TypeOK, Commands, Answers, Error, None
<1>2. Started /\ QueuedOnce
  BY DEF Init, Started, QueuedOnce
<1>3. ASSUME NEW r \in Requests PROVE Idle(r) /\ Responder(r) /\ Truthful(r)
  BY DEF Init, Idle, Responder, Truthful, Queued
<1> QED
  BY <1>1, <1>2, <1>3 DEF IInv

\* The responder of every request made is in one place, and everything said
\* about a request is an outcome of its command: the invariant that
\* send_command, dispatch and respond maintain together.
THEOREM Invariant == Spec => []IInv
<1> QED
  BY Initially, Inductive, PTL DEF Spec

\* Commands are only accepted by a process whose network thread has sent
\* Ok(()) and lives: the expect of send_command (web.rs) never fires, and no
\* responder is dropped with the receiver of a thread that unwinds.
THEOREM HandshakeHolds == Spec => []Handshake
<1>1. IInv => Handshake
  <2> SUFFICES ASSUME IInv PROVE Handshake
    OBVIOUS
  <2>1. ASSUME NEW r \in Requests PROVE reply[r] # "dropped"
    BY DEF IInv, Idle, Truthful, Outcomes, Commands, Error, None
  <2>2. ASSUME NEW r \in Requests PROVE handler[r] # "panicked"
    BY DEF IInv, Truthful
  <2> QED
    BY <2>1, <2>2 DEF IInv, Started, Handshake
<1> QED
  BY <1>1, Invariant, PTL

\* A request that waits has its responder in exactly one place: queued once in
\* the glib channel, owned by its future, or used by respond for a result of
\* its command; no way through dispatch or execute_and_respond drops it.
THEOREM OneResponderHolds == Spec => []OneResponder
<1>1. IInv => OneResponder
  <2> SUFFICES ASSUME IInv PROVE OneResponder
    OBVIOUS
  <2> SUFFICES ASSUME NEW r \in Requests, handler[r] = "waiting"
      PROVE LET queued == {i \in DOMAIN channel : channel[i] = r} IN
        /\ \A i, j \in queued : i = j
        /\ \/ queued # {} /\ r \notin spawned /\ reply[r] = None
           \/ queued = {} /\ r \in spawned /\ reply[r] = None
           \/ queued = {} /\ r \notin spawned /\ reply[r] \in Outcomes(command[r])
    BY DEF OneResponder
  <2> DEFINE queued == {i \in DOMAIN channel : channel[i] = r}
  <2>1. \A i, j \in queued : i = j
    BY DEF IInv, QueuedOnce
  <2>2. queued # {} <=> Queued(r)
    BY DEF Queued
  <2>3. Responder(r) /\ Truthful(r)
    BY DEF IInv
  <2> HIDE DEF queued
  <2>4. \/ queued # {} /\ r \notin spawned /\ reply[r] = None
        \/ queued = {} /\ r \in spawned /\ reply[r] = None
        \/ queued = {} /\ r \notin spawned /\ reply[r] \in Outcomes(command[r])
    BY <2>2, <2>3 DEF Responder, Truthful
  <2> QED
    BY <2>1, <2>4 DEF queued
<1> QED
  BY <1>1, Invariant, PTL

-----------------------------------------------------------------------------
(* The refinement of Rpc. *)

\* One step of the two threads is one step of the service, or none.
LEMMA ServiceStep == IInv /\ [Next]_vars => [Service!Next]_(Service!vars)
<1> SUFFICES ASSUME IInv, [Next]_vars PROVE [Service!Next]_(Service!vars)
  OBVIOUS
<1>t. TypeOK
  BY DEF IInv
<1> USE DEF Service!vars
<1>1. CASE InitNetwork \/ ThreadDies \/ AttachReceiver \/ Dispatch
  BY <1>1 DEF InitNetwork, ThreadDies, AttachReceiver, Dispatch, startup,
              serviceBar, Running, answerBar
<1>2. CASE ReceiveNetworkInitialized \/ Bind \/ ServerEnds
  <2>1. UNCHANGED <<command, handler, response>>
    BY <1>2 DEF ReceiveNetworkInitialized, Bind, ServerEnds
  <2>2. UNCHANGED <<command, answerBar>>
    BY <2>1 DEF answerBar
  <2>3. \/ serviceBar' = serviceBar
        \/ serviceBar = "starting" /\ serviceBar' = "serving"
        \/ serviceBar # "down" /\ serviceBar' = "down"
    BY <1>2 DEF ReceiveNetworkInitialized, Bind, ServerEnds, serviceBar, Running
  <2> QED
    BY <2>2, <2>3 DEF Service!Next, Service!Start, Service!GoDown
<1>3. ASSUME NEW q \in Requests, SendCommand(q) PROVE Service!Ask(q)
  <2>1. main = "serving" /\ UNCHANGED <<main, response>> /\ handler[q] = "idle"
    BY <1>3 DEF SendCommand, startup
  <2>2. network # "dead"
    BY <2>1 DEF IInv, Started
  <2>3. handler' = [handler EXCEPT ![q] = "waiting"]
    BY <1>3, <2>2 DEF SendCommand
  <2>4. answerBar' = answerBar
    BY <1>t, <2>1, <2>3 DEF answerBar, TypeOK
  <2>5. command[q] = None
    BY <2>1 DEF IInv, Idle
  <2>6. serviceBar = "serving" /\ serviceBar' = "serving"
    BY <2>1 DEF serviceBar, Running
  <2>7. \E c \in Commands : command' = [command EXCEPT ![q] = c]
    BY <1>3 DEF SendCommand
  <2> QED
    BY <2>4, <2>5, <2>6, <2>7
       DEF Service!Ask, Commands, None, Service!Commands, Service!None
<1>4. ASSUME NEW q \in Requests, ReceiveResponse(q) \/ ClientLeaves(q)
      PROVE  Service!Resolve(q)
  <2>1. main = "serving" /\ handler[q] = "waiting" /\ UNCHANGED <<main, command>>
    BY <1>4 DEF ReceiveResponse, ClientLeaves, startup
  <2>2. serviceBar = "serving" /\ serviceBar' = "serving"
    BY <2>1 DEF serviceBar, Running
  <2>3. command[q] # None /\ answerBar[q] = None
    <3>1. command[q] \in Commands /\ response[q] = None
      BY <2>1 DEF IInv, Idle, Truthful
    <3> QED
      BY <2>1, <3>1 DEF answerBar, Commands, None
  <2>4. PICK a \in Outcomes(command[q]) \cup {"gone"} :
            answerBar' = [answerBar EXCEPT ![q] = a]
    <3>1. CASE ClientLeaves(q)
      <4>1. handler' = [handler EXCEPT ![q] = "gone"] /\ response' = response
        BY <3>1 DEF ClientLeaves
      <4>2. answerBar' = [answerBar EXCEPT ![q] = "gone"]
        BY <1>t, <4>1 DEF answerBar, TypeOK
      <4> QED
        BY <4>2
    <3>2. CASE ReceiveResponse(q)
      <4> DEFINE a == IF reply[q] \in Commands THEN reply[q] ELSE Error
      <4>1. handler' = [handler EXCEPT ![q] = "answered"]
            /\ response' = [response EXCEPT ![q] = a]
        BY <3>2 DEF ReceiveResponse
      <4>2. reply[q] # None
        BY <3>2 DEF ReceiveResponse
      <4>3. a \in Outcomes(command[q])
        BY <2>1, <4>2 DEF IInv, Idle, Truthful, Outcomes, Commands, Error
      <4>4. answerBar' = [answerBar EXCEPT ![q] = a]
        BY <1>t, <4>1 DEF answerBar, TypeOK
      <4> QED
        BY <4>3, <4>4
    <3> QED
      BY <1>4, <3>1, <3>2
  <2> QED
    BY <2>1, <2>2, <2>3, <2>4
       DEF Service!Resolve, Service!Pending, Outcomes, Commands, Spawned, Error, None,
           Service!Outcomes, Service!Commands, Service!Spawned, Service!Error, Service!None
<1>5. ASSUME NEW q \in Requests, ExecuteAndRespond(q)
      PROVE  UNCHANGED <<serviceBar, command, answerBar>>
  BY <1>5 DEF ExecuteAndRespond, startup, serviceBar, Running, answerBar
<1>6. CASE UNCHANGED vars
  BY <1>6 DEF vars, serviceBar, Running, answerBar
<1> QED
  BY <1>1, <1>2, <1>3, <1>4, <1>5, <1>6 DEF Next, Service!Next

\* Whatever the interleaving of the two threads, the HTTP clients see the
\* service of Rpc: answers only while it serves, at most one per request, and
\* one its command can produce, so that the list commands never fail.
THEOREM ImplementsService == Spec => Service!SafeSpec
<1>1. Init => Service!Init
  BY DEF Init, Service!Init, serviceBar, Running, answerBar, None, Service!None
<1> QED
  BY <1>1, ServiceStep, Invariant, PTL DEF Spec, Service!SafeSpec
==============================================================================
