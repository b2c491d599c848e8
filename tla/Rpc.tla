--------------------------------- MODULE Rpc ---------------------------------
(***************************************************************************)
(* What the HTTP interface promises to its clients, with no thread, channel *)
(* or oneshot in sight: once the service is up a request may be asked, it  *)
(* gets at most one answer, that answer is one its own command can produce *)
(* (so the two list commands never fail), and a request other than Stop is *)
(* eventually answered, whatever the other requests do.                    *)
(***************************************************************************)
EXTENDS Commands

CONSTANT Requests

VARIABLES
    service,   \* "starting", "serving" or "down"
    asked,     \* the command of each request, None before it is asked
    answer     \* the answer of each request, None before it, "gone" when the
               \* client has left

vars == <<service, asked, answer>>

Init ==
    /\ service = "starting"
    /\ asked = [r \in Requests |-> None]
    /\ answer = [r \in Requests |-> None]

Start ==
    /\ service = "starting"
    /\ service' = "serving"
    /\ UNCHANGED <<asked, answer>>

GoDown ==
    /\ service # "down"
    /\ service' = "down"
    /\ UNCHANGED <<asked, answer>>

Ask(r) ==
    /\ service = "serving"
    /\ asked[r] = None
    /\ \E c \in Commands : asked' = [asked EXCEPT ![r] = c]
    /\ UNCHANGED <<service, answer>>

Pending(r) == asked[r] # None /\ answer[r] = None

Resolve(r) ==
    /\ service = "serving"
    /\ Pending(r)
    /\ \E a \in Outcomes(asked[r]) \cup {"gone"} :
            answer' = [answer EXCEPT ![r] = a]
    /\ UNCHANGED <<service, asked>>

Next ==
    \/ Start
    \/ GoDown
    \/ \E r \in Requests : Ask(r) \/ Resolve(r)

\* The safety part of the promise.
SafeSpec == Init /\ [][Next]_vars

Spec ==
    /\ SafeSpec
    /\ \A r \in Requests : WF_vars(asked[r] # "Stop" /\ Resolve(r))
==============================================================================
