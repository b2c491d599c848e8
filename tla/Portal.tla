-------------------------------- MODULE Portal --------------------------------
(***************************************************************************)
(* The life of the captive portal: init_network purges the profiles of an  *)
(* earlier run, adds and activates an access point profile and waits until *)
(* it is active; each Stop command deactivates it, waits until it is down  *)
(* and deletes the profile.  NetworkManager is another process: calls go   *)
(* to it over D-Bus, its replies and StateChanged signals come back on one *)
(* ordered bus and reach the tasks of the network thread through its main  *)
(* loop, one event or one ready task at a time.                            *)
(*                                                                         *)
(* Profiles outlive the process, which may end at any point and be started *)
(* again with another --ssid.                                              *)
(***************************************************************************)
EXTENDS Naturals, Sequences, FiniteSets

CONSTANTS
    Stops,       \* the Stop commands of one run of the program
    Profiles,    \* identities of connection profiles
    Ssids,       \* values of --ssid
    MaxRuns,     \* bound on the number of runs of the program
    NoProfile    \* what is found where there is no profile

None == "none"
Starter == "init_network"       \* the future that runs init_network
Tasks == Stops \cup {Starter}

ASSUME PortalAssumption ==
    /\ None \notin Profiles
    /\ Starter \notin Stops
    /\ MaxRuns \in Nat \ {0}

VARIABLES
    (* NetworkManager *)
    profiles,    \* the profile of each identity, or NoProfile
    connection,  \* the state of the active connection of this run
    portal,      \* the profile added by this run, None before it
    activated,   \* history: that connection has been activated
    orphans,     \* calls of add_and_activate whose run has ended before them
    request,     \* the call of each task it has not handled yet
    (* the bus, from NetworkManager to the network thread *)
    bus,
    (* the cache of libnm in the network thread *)
    known,       \* the last state a StateChanged signal has delivered
    linked,      \* active_connection.connection() is Some
    (* the tasks of the network thread *)
    ssid,        \* opts.ssid of this run
    purge,       \* matching profiles the loop over connections() has not done
    pc,          \* the await each task is at
    call,        \* its last D-Bus call: None, "waiting", then "ok" or "err"
    target,      \* the profile its delete call is about
    received,    \* the oneshot of its state monitor
    result,      \* what it returned
    unseen,      \* history: tasks that found connection() to be None
    late,        \* history: tasks that monitor a state that has gone by
    runs         \* the number of this run

daemon == <<profiles, connection, portal, activated, orphans>>
cache == <<known, linked>>
tasks == <<ssid, purge, pc, target, result, unseen, late, runs>>
vars == <<daemon, request, bus, cache, tasks, call, received>>

-----------------------------------------------------------------------------

\* Who has added a profile: the user, the program, or the program by a call
\* of a run that had ended when NetworkManager came to it.
Profile == [ssid : Ssids, ap : BOOLEAN, creator : {"wifi_connect", "past_run", "user"}]

ASSUME NoProfileAssumption == NoProfile \notin Profile

States == {"activating", "activated", "deactivating", "deactivated"}
Events == [kind : {"reply"}, task : Tasks, outcome : {"ok", "err"}]
              \cup [kind : {"state"}, state : States]

TypeOK ==
    /\ profiles \in [Profiles -> Profile \cup {NoProfile}]
    /\ connection \in States \cup {None}
    /\ portal \in Profiles \cup {None}
    /\ activated \in BOOLEAN
    /\ orphans \subseteq [run : 1..MaxRuns, ssid : Ssids]
    /\ bus \in Seq(Events)
    /\ known \in States \cup {None}
    /\ linked \in BOOLEAN
    /\ ssid \in Ssids
    /\ purge \in SUBSET Profiles
    /\ pc \in [Tasks -> {"idle", "create_client", "purge", "prepare", "add",
                         "monitor", "cleanup", "deactivate", "delete", "done"}]
    /\ call \in [Tasks -> {None, "waiting", "ok", "err"}]
    /\ request \in [Tasks -> {None, "delete", "add", "deactivate"}]
    /\ target \in [Tasks -> Profiles \cup {None}]
    /\ received \in [Tasks -> {None, "activated", "deactivated"}]
    /\ result \in [Tasks -> {None, "ok", "error", "not_activated", "delete_failed"}]
    /\ unseen \in SUBSET Tasks
    /\ late \in SUBSET Tasks
    /\ runs \in 1..MaxRuns

\* A process that starts has no task but the one of init_network.
FreshPc == [t \in Tasks |-> IF t = Starter THEN "create_client" ELSE "idle"]
Fresh == [t \in Tasks |-> None]

\* The user may have profiles of any kind; the program has not run yet.
Init ==
    /\ profiles \in [Profiles -> {NoProfile} \cup {q \in Profile : q.creator = "user"}]
    /\ connection = None
    /\ portal = None
    /\ activated = FALSE
    /\ orphans = {}
    /\ bus = <<>>
    /\ known = None
    /\ linked = FALSE
    /\ ssid \in Ssids
    /\ purge = {}
    /\ pc = FreshPc
    /\ request = Fresh /\ call = Fresh /\ target = Fresh /\ received = Fresh /\ result = Fresh
    /\ unseen = {} /\ late = {}
    /\ runs = 1

-----------------------------------------------------------------------------
(* NetworkManager. *)

Signal(s) == [kind |-> "state", state |-> s]
ReplyTo(t, o) == [kind |-> "reply", task |-> t, outcome |-> o]

\* NetworkManager is done with the call of task t and sends events about it.
Handled(t, events) ==
    /\ request' = [request EXCEPT ![t] = None]
    /\ bus' = bus \o events
    /\ UNCHANGED <<tasks, call, received, known>>

\* Whatever the call, it may be refused.
Refuse(t) ==
    /\ request[t] # None
    /\ Handled(t, <<ReplyTo(t, "err")>>)
    /\ UNCHANGED <<daemon, linked>>

HandleDelete(t) ==
    /\ request[t] = "delete"
    /\ profiles[target[t]] # NoProfile
    /\ profiles' = [profiles EXCEPT ![target[t]] = NoProfile]
    /\ Handled(t, <<ReplyTo(t, "ok")>>)
    /\ UNCHANGED <<connection, portal, activated, orphans, linked>>

\* create_ap_connection: the settings that tell the profile from others.
ApConnection == [ssid |-> ssid, ap |-> TRUE, creator |-> "wifi_connect"]

HandleAddAndActivate(t) ==
    /\ request[t] = "add"
    /\ \E p \in Profiles :
        /\ profiles[p] = NoProfile
        /\ portal' = p
        /\ profiles' = [profiles EXCEPT ![p] = ApConnection]
    /\ connection' = "activating"
    /\ linked' = TRUE
    /\ Handled(t, <<ReplyTo(t, "ok")>>)
    /\ UNCHANGED <<activated, orphans>>

\* Deactivating what is already going down may succeed; what is down has
\* left the bus and is refused.
HandleDeactivate(t) ==
    /\ request[t] = "deactivate"
    /\ \/ /\ connection = "activated"
          /\ connection' = "deactivating"
          /\ Handled(t, <<ReplyTo(t, "ok"), Signal("deactivating")>>)
       \/ /\ connection = "deactivating"
          /\ Handled(t, <<ReplyTo(t, "ok")>>)
          /\ UNCHANGED connection
    /\ UNCHANGED <<profiles, portal, activated, orphans, linked>>

\* The active connection moves on: activation succeeds or fails, the access
\* point breaks or is taken down by someone else.
ConnectionChanges ==
    /\ \E s \in States :
        /\ \/ connection = "activating" /\ s # "activating"
           \/ connection = "activated" /\ s \in {"deactivating", "deactivated"}
           \/ connection = "deactivating" /\ s = "deactivated"
        /\ connection' = s
        /\ activated' = (activated \/ s = "activated")
        /\ bus' = Append(bus, Signal(s))
    /\ UNCHANGED <<profiles, portal, orphans, request, cache, tasks, call, received>>

\* The user deletes a profile.
UserDeletes(p) ==
    /\ profiles[p] # NoProfile
    /\ profiles' = [profiles EXCEPT ![p] = NoProfile]
    /\ UNCHANGED <<connection, portal, activated, orphans, request, bus, cache, tasks,
                   call, received>>

\* D-Bus does not take back the calls of a process that has ended: a profile
\* may be added late, as a new one that no list of this run holds.  What its
\* activation does to the device is one of the ConnectionChanges.
HandleOrphan ==
    /\ \E o \in orphans, p \in Profiles \ ({portal} \cup purge) :
        /\ profiles[p] = NoProfile
        /\ profiles' = [profiles EXCEPT
                            ![p] = [ssid |-> o.ssid, ap |-> TRUE, creator |-> "past_run"]]
        /\ orphans' = orphans \ {o}
    /\ UNCHANGED <<connection, portal, activated, request, bus, cache, tasks, call, received>>

-----------------------------------------------------------------------------
(* The main loop of the network thread delivers one event from the bus. *)

BuggyFinal == States \ {"activating"}     \* Deactivating taken for the end
UnheardFinal == {"activated"}             \* Deactivated not taken for it

\* The states that end a monitor.
Final == {"activated", "deactivated"}

BuggyOnStateChanged(s) ==     \* any state is sent on
    received' = [t \in Tasks |->
        IF pc[t] = "monitor" /\ received[t] = None THEN s ELSE received[t]]

\* The state-changed handler of every monitor: the first final state is sent,
\* the sender is taken and later ones find none.
OnStateChanged(s) ==
    received' = [t \in Tasks |->
        IF pc[t] = "monitor" /\ received[t] = None /\ s \in Final
        THEN s ELSE received[t]]

DispatchEvent ==
    /\ bus # <<>>
    /\ bus' = Tail(bus)
    /\ LET e == Head(bus) IN
        \/ /\ e.kind = "reply"
           /\ call' = IF call[e.task] = "waiting"
                      THEN [call EXCEPT ![e.task] = e.outcome] ELSE call
           /\ UNCHANGED <<known, received>>
        \/ /\ e.kind = "state"
           /\ known' = e.state
           /\ OnStateChanged(e.state)
           /\ UNCHANGED call
    /\ UNCHANGED <<daemon, request, linked, tasks>>

\* A D-Bus call times out.  NetworkManager may still handle it, too late.
Timeout(t) ==
    /\ call[t] = "waiting"
    /\ call' = [call EXCEPT ![t] = "err"]
    /\ UNCHANGED <<daemon, request, bus, cache, tasks, received>>

\* The removal of the active connection, once it is down, or of its profile
\* reaches the cache.
LinkVanishes ==
    /\ linked
    /\ known = "deactivated" \/ profiles[portal] = NoProfile
    /\ linked' = FALSE
    /\ UNCHANGED <<daemon, request, bus, known, tasks, call, received>>

-----------------------------------------------------------------------------
(* The tasks, each from one await to the next. *)

Goto(t, l) == pc' = [pc EXCEPT ![t] = l]

\* Task t calls method m of NetworkManager and awaits its reply at l.
Call(t, l, m) ==
    /\ Goto(t, l)
    /\ call' = [call EXCEPT ![t] = "waiting"]
    /\ request' = [request EXCEPT ![t] = m]

CallDelete(t, l, p) ==
    Call(t, l, "delete") /\ target' = [target EXCEPT ![t] = p]

\* Nothing is called.
NoCall == UNCHANGED <<call, request, target>>

\* The future of task t returns r.
Return(t, r) ==
    /\ Goto(t, "done")
    /\ result' = [result EXCEPT ![t] = r]

\* The profiles delete_exising_wifi_connect_ap_profile deletes: any access
\* point with the SSID of the portal.
Matching ==
    {p \in Profiles :
        profiles[p] # NoProfile /\ profiles[p].ap /\ profiles[p].ssid = ssid}

BuggyPurgeNext(todo) ==      \* only the first match is deleted
    IF todo = {} \/ purge # {}
    THEN Goto(Starter, "prepare") /\ NoCall
    ELSE \E p \in todo : CallDelete(Starter, "purge", p)

\* The loop over connections(): delete the next match, or go on.
PurgeNext(todo) ==
    IF todo = {}
    THEN Goto(Starter, "prepare") /\ NoCall
    ELSE \E p \in todo : CallDelete(Starter, "purge", p)

\* create_client, then the snapshot of connections() and the loop's start.
CreateClient ==
    /\ pc[Starter] = "create_client"
    /\ \/ purge' = Matching /\ PurgeNext(Matching) /\ UNCHANGED result
       \/ Return(Starter, "error") /\ NoCall /\ UNCHANGED purge
    /\ UNCHANGED <<daemon, bus, cache, ssid, unseen, late, runs, received>>

\* delete_future of the loop is back: an error ends init_network.
Purged ==
    /\ pc[Starter] = "purge"
    /\ \/ /\ call[Starter] = "ok"
          /\ purge' = purge \ {target[Starter]}
          /\ PurgeNext(purge \ {target[Starter]})
          /\ UNCHANGED result
       \/ /\ call[Starter] = "err"
          /\ Return(Starter, "error")
          /\ NoCall
          /\ UNCHANGED purge
    /\ UNCHANGED <<daemon, bus, cache, ssid, unseen, late, runs, received>>

\* find_device, scan_wifi, get_nearby_stations and create_ap_connection, none
\* of which touches this state; any of the fallible ones may end init_network.
Prepare ==
    /\ pc[Starter] = "prepare"
    /\ \/ Call(Starter, "add", "add") /\ UNCHANGED <<result, target>>
       \/ Return(Starter, "error") /\ NoCall
    /\ UNCHANGED <<daemon, bus, cache, ssid, purge, unseen, late, runs, received>>

\* There is a NetworkState when init_network has returned Ok.  Its portal
\* connection is Some, and is never replaced nor cleared.
NetworkState == result[Starter] = "ok"

\* stop, up to deactivate_connection_future.
Stop(t) ==
    /\ pc[t] = "idle"
    /\ NetworkState
    /\ Call(t, "deactivate", "deactivate")
    /\ UNCHANGED <<daemon, bus, cache, ssid, purge, target, result, unseen, late, runs, received>>

\* The states that end what task t monitors, and that come once.
Awaited(t) == {"deactivated"} \cup (IF t = Starter THEN {"activated"} ELSE {})

RetryingStartMonitor(t) ==     \* a deactivate call that fails is made again
    /\ pc[t] \in {"add", "deactivate"}
    /\ \/ /\ call[t] = "ok"
          /\ Goto(t, "monitor")
          /\ late' = IF known \in Awaited(t) THEN late \cup {t} ELSE late
          /\ NoCall
          /\ UNCHANGED result
       \/ /\ call[t] = "err"
          /\ IF t = Starter
             THEN Return(t, "error") /\ NoCall
             ELSE Call(t, "deactivate", "deactivate") /\ UNCHANGED <<target, result>>
          /\ UNCHANGED late
    /\ UNCHANGED <<daemon, bus, cache, ssid, purge, unseen, runs, received>>

\* The reply to add_and_activate or deactivate is back: monitor the state, or
\* give up.  Being at "monitor" is having the signal handler connected.
StartMonitor(t) ==
    /\ pc[t] \in {"add", "deactivate"}
    /\ \/ /\ call[t] = "ok"
          /\ Goto(t, "monitor")
          /\ late' = IF known \in Awaited(t) THEN late \cup {t} ELSE late
          /\ UNCHANGED result
       \/ call[t] = "err" /\ Return(t, "error") /\ UNCHANGED late
    /\ NoCall
    /\ UNCHANGED <<daemon, bus, cache, ssid, purge, unseen, runs, received>>

BuggyDeletePortal(t, l, r) ==     \* delete_future is not awaited
    /\ Return(t, r)
    /\ request' = [request EXCEPT ![t] = "delete"]
    /\ target' = [target EXCEPT ![t] = portal]
    /\ UNCHANGED <<call, unseen>>

\* Delete the portal's profile, or return r when connection() is None.
DeletePortal(t, l, r) ==
    IF linked
    THEN CallDelete(t, l, portal) /\ UNCHANGED <<result, unseen>>
    ELSE Return(t, r) /\ NoCall /\ unseen' = unseen \cup {t}

UncheckedPortalStarted ==     \* Deactivated is not looked for
    /\ pc[Starter] = "monitor"
    /\ received[Starter] # None
    /\ Return(Starter, "ok")
    /\ NoCall
    /\ UNCHANGED unseen
    /\ UNCHANGED <<daemon, bus, cache, ssid, purge, late, runs, received>>

\* finalize_active_connection_state is over: the rest of create_portal.
PortalStarted ==
    /\ pc[Starter] = "monitor"
    /\ \/ /\ received[Starter] = "activated"
          /\ Return(Starter, "ok")
          /\ NoCall
          /\ UNCHANGED unseen
       \/ /\ received[Starter] = "deactivated"
          /\ DeletePortal(Starter, "cleanup", "not_activated")
    /\ UNCHANGED <<daemon, bus, cache, ssid, purge, late, runs, received>>

\* finalize_active_connection_state is over: the rest of stop_portal.
PortalStopped(t) ==
    /\ t \in Stops
    /\ pc[t] = "monitor"
    /\ received[t] # None
    /\ DeletePortal(t, "delete", "ok")
    /\ UNCHANGED <<daemon, bus, cache, ssid, purge, late, runs, received>>

\* The reply to delete_future is back.
PortalDeleted(t) ==
    /\ \/ pc[t] = "cleanup" /\ call[t] = "ok" /\ Return(t, "not_activated")
       \/ pc[t] = "delete" /\ call[t] = "ok" /\ Return(t, "ok")
       \/ pc[t] \in {"cleanup", "delete"} /\ call[t] = "err" /\ Return(t, "delete_failed")
    /\ NoCall
    /\ UNCHANGED <<daemon, bus, cache, ssid, purge, unseen, late, runs, received>>

-----------------------------------------------------------------------------

\* The process ends, at any point and with no cleanup, and is started again.
\* What is on the bus is lost, but not the calls NetworkManager has not handled
\* yet: an add becomes an orphan, a delete is one of the UserDeletes, and a
\* deactivate is about a connection that is no longer looked at.
Restart ==
    /\ runs < MaxRuns
    /\ runs' = runs + 1
    /\ ssid' \in Ssids
    /\ orphans' = IF request[Starter] = "add"
                  THEN orphans \cup {[run |-> runs, ssid |-> ssid]} ELSE orphans
    /\ purge' = {}
    /\ pc' = FreshPc
    /\ request' = Fresh /\ call' = Fresh /\ target' = Fresh /\ received' = Fresh /\ result' = Fresh
    /\ unseen' = {} /\ late' = {}
    /\ connection' = None /\ portal' = None /\ activated' = FALSE
    /\ bus' = <<>>
    /\ known' = None /\ linked' = FALSE
    /\ UNCHANGED profiles

Environment == ConnectionChanges \/ HandleOrphan \/ \E p \in Profiles : UserDeletes(p)

Handle(t) ==
    \/ Refuse(t) \/ HandleDelete(t) \/ HandleAddAndActivate(t) \/ HandleDeactivate(t)

Poll(t) ==
    \/ t = Starter /\ (CreateClient \/ Purged \/ Prepare \/ PortalStarted)
    \/ StartMonitor(t) \/ PortalStopped(t) \/ PortalDeleted(t)

Next ==
    \/ Environment
    \/ DispatchEvent
    \/ LinkVanishes
    \/ \E t \in Tasks : Handle(t) \/ Timeout(t) \/ Poll(t)
    \/ \E t \in Stops : Stop(t)
    \/ Restart

Spec == Init /\ [][Next]_vars

\* The main loop runs, D-Bus calls time out if they are not answered, and an
\* active connection does not stay in transition (NetworkManager has timeouts
\* for that).  The rest is up to users and to the environment.
Fairness ==
    /\ WF_vars(DispatchEvent)
    /\ WF_vars(connection \in {"activating", "deactivating"} /\ ConnectionChanges)
    /\ \A t \in Tasks : WF_vars(Timeout(t)) /\ WF_vars(Poll(t))

FairSpec == Spec /\ Fairness
-----------------------------------------------------------------------------
(* Properties. *)

Ours(s) ==
    {p \in Profiles : profiles[p] # NoProfile /\ profiles[p].creator = "wifi_connect"
                        /\ profiles[p].ssid = s}

\* Whatever runs ended where, there is at most one access point profile of
\* the program per SSID, but for those that calls of past runs still add: a run
\* deletes those of the runs before it.
OneProfilePerSsid == \A s \in Ssids : Cardinality(Ours(s)) <= 1

\* A Stop that returns Ok has taken the access point down.
StopTakesDown ==
    \A t \in Stops : result[t] = "ok" => connection = "deactivated"

\* A Stop that returns Ok, and a start that returns that the portal failed to
\* activate, leave no profile behind, unless connection() was None for them.
NothingLeftBehind ==
    \A t \in Tasks \ unseen :
        (result[t] = IF t = Starter THEN "not_activated" ELSE "ok")
            => profiles[portal] = NoProfile

\* The task waits for a state change that was delivered before it connected
\* its handler.
Missed(t) == t \in late /\ pc[t] = "monitor" /\ received[t] = None

\* Starts and stops come to an end, the lost state change being the only way
\* for them not to.
Returns ==
    \A t \in Tasks : pc[t] # "idle" ~> (pc[t] \in {"done", "idle"} \/ Missed(t))

\* The log line of the purge speaks of profiles created by WiFi Connect.
PurgesOnlyOwn ==
    \A p \in purge : profiles[p] # NoProfile => profiles[p].creator # "user"
==============================================================================
