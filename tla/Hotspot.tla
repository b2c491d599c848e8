-------------------------------- MODULE Hotspot --------------------------------
(***************************************************************************)
(* What the whole program promises: the service of Rpc, tied to the access *)
(* point its clients are connected to.  The service starts only when the   *)
(* access point has come up, never when it has failed to, and a Stop is    *)
(* answered "Stop" only when the access point, once up, is down.  The      *)
(* program may end and be started again at any point.                      *)
(***************************************************************************)
EXTENDS Rpc

VARIABLE point     \* the access point of this run: "absent", "starting",
                   \* "up" (or on its way down), "down" after it was up,
                   \* or "failed", which it is when it never was

hotspot == <<vars, point>>

HotspotInit == Init /\ point = "absent"

\* The access point comes, may fail to come up, and goes, on its own too.
PointMoves ==
    /\ \/ point = "absent" /\ point' = "starting"
       \/ point = "starting" /\ point' \in {"up", "failed"}
       \/ point = "up" /\ point' = "down"
    /\ UNCHANGED vars

\* The access point may have gone down again by the time the service starts.
StartWithPoint == Start /\ point \in {"up", "down"} /\ UNCHANGED point

ResolveWithPoint(r) ==
    /\ Resolve(r)
    /\ answer'[r] = "Stop" => point = "down"
    /\ UNCHANGED point

NewRun ==
    /\ service' = "starting"
    /\ asked' = [r \in Requests |-> None]
    /\ answer' = [r \in Requests |-> None]
    /\ point' = "absent"

HotspotNext ==
    \/ PointMoves
    \/ StartWithPoint
    \/ GoDown /\ UNCHANGED point
    \/ \E r \in Requests : Ask(r) /\ UNCHANGED point
    \/ \E r \in Requests : ResolveWithPoint(r)
    \/ NewRun

HotspotSpec == HotspotInit /\ [][HotspotNext]_hotspot
==============================================================================
