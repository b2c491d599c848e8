------------------------------ MODULE Discovery ------------------------------
(***************************************************************************)
(* The part of init_network between the purge and the portal: find_device  *)
(* picks a Wi-Fi device, scan_wifi asks NetworkManager to scan with it and *)
(* polls for the end of the scan once a second, a bounded number of times, *)
(* and then the access points are read.                                    *)
(*                                                                         *)
(* The end of a scan shows only as the time of the last one (last_scan),   *)
(* which libnm learns a little later; other programs make NetworkManager   *)
(* scan too.  Time goes by in ticks of a second; any number of steps may   *)
(* have the same time.                                                     *)
(***************************************************************************)
EXTENDS Integers

CONSTANTS
    Ifaces,      \* names of network interfaces
    WIFI_SCAN_TIMEOUT_SECONDS,
    MaxDelay     \* bound on the time at which a tick other than one of a
                 \* sleep may happen

None == "none"

ASSUME DiscoveryAssumption ==
    /\ None \notin Ifaces
    /\ WIFI_SCAN_TIMEOUT_SECONDS \in Nat
    /\ MaxDelay \in Nat

\* No time goes by after the last sleep.
MaxTime == MaxDelay + WIFI_SCAN_TIMEOUT_SECONDS

VARIABLES
    (* NetworkManager *)
    devices,    \* the interfaces by kind: Wi-Fi, Wi-Fi it does not manage, other
    now,        \* the clock, which it shares with the program
    scanning,
    lastScan,   \* when its last scan ended, -1 for never
    (* init_network *)
    requested,  \* opts.interface
    pc,         \* "find", "scan", "request", "poll", "sleep", "collected", "error"
    device,     \* the device found
    cached,     \* last_scan as libnm knows it
    prescan,
    polls,      \* turns of the loop so far
    wake,       \* when the timer of the turn fires
    ended       \* history: a scan has ended since prescan was taken

manager == <<devices, now, scanning, lastScan>>
vars == <<manager, requested, pc, device, cached, prescan, polls, wake, ended>>

Wifi(d) == devices[d] \in {"wifi", "unmanaged"}
Times == -1..MaxTime + 1

\* In particular find_device only finds what can be downcast to DeviceWifi.
TypeOK ==
    /\ devices \in [Ifaces -> {"wifi", "unmanaged", "other", "absent"}]
    /\ now \in 0..MaxTime
    /\ scanning \in BOOLEAN
    /\ lastScan \in Times /\ cached \in Times /\ prescan \in Times /\ wake \in Times
    /\ requested \in Ifaces \cup {None}
    /\ pc \in {"find", "scan", "request", "poll", "sleep", "collected", "error"}
    /\ IF pc \in {"find", "error"} THEN device = None ELSE device \in Ifaces /\ Wifi(device)
    /\ polls \in 0..WIFI_SCAN_TIMEOUT_SECONDS
    /\ ended \in BOOLEAN

Init ==
    /\ devices \in [Ifaces -> {"wifi", "unmanaged", "other", "absent"}]
    /\ now = 0
    /\ scanning \in BOOLEAN
    /\ lastScan \in {-1, 0}
    /\ requested \in Ifaces \cup {None}
    /\ pc = "find"
    /\ device = None
    /\ cached = lastScan
    /\ prescan = -1
    /\ polls = 0
    /\ wake = -1
    /\ ended = FALSE

-----------------------------------------------------------------------------
(* NetworkManager and time. *)

ScanStarts ==
    /\ ~scanning
    /\ scanning' = TRUE
    /\ UNCHANGED <<devices, now, lastScan, requested, pc, device, cached, prescan,
                   polls, wake, ended>>

ScanEnds ==
    /\ scanning
    /\ scanning' = FALSE
    /\ lastScan' = now
    /\ ended' = (pc \in {"request", "poll", "sleep"} \/ ended)
    /\ UNCHANGED <<devices, now, requested, pc, device, cached, prescan, polls, wake>>

\* The change of LastScan reaches libnm.
Learn ==
    /\ cached # lastScan
    /\ cached' = lastScan
    /\ UNCHANGED <<manager, requested, pc, device, prescan, polls, wake, ended>>

\* A second goes by, in a sleep or not.
Tick ==
    /\ IF pc = "sleep" THEN now < wake ELSE now < MaxDelay
    /\ now' = now + 1
    /\ UNCHANGED <<devices, scanning, lastScan, requested, pc, device, cached,
                   prescan, polls, wake, ended>>

-----------------------------------------------------------------------------
(* The steps of init_network. *)

Fail ==
    /\ pc' = "error"
    /\ device' = None

BuggyCandidates ==     \* get_exact_device does not look at the device type
    IF requested = None
    THEN {d \in Ifaces : devices[d] = "wifi"}
    ELSE {d \in {requested} : devices[d] \notin {"unmanaged", "absent"}}

\* The devices find_device may return: get_exact_device, or the first of
\* client.devices(), in whatever order they come, for find_any_wifi_device.
Candidates ==
    LET usable == {d \in Ifaces : devices[d] = "wifi"} IN
    IF requested = None THEN usable ELSE usable \cap {requested}

FindDevice ==
    /\ pc = "find"
    /\ \/ \E d \in Candidates : device' = d /\ pc' = "scan"
       \/ Candidates = {} /\ Fail
    /\ UNCHANGED <<manager, requested, cached, prescan, polls, wake, ended>>

\* The start of scan_wifi, up to request_scan_future.
RequestScan ==
    /\ pc = "scan"
    /\ prescan' = now
    /\ pc' = "request"
    /\ UNCHANGED <<manager, requested, device, cached, polls, wake, ended>>

RetryRequested ==     \* a refused request is made again
    /\ pc = "request"
    /\ \/ /\ scanning' \in {TRUE, scanning}
          /\ pc' = "poll"
       \/ /\ pc' = "scan"
          /\ UNCHANGED scanning
    /\ UNCHANGED <<devices, now, lastScan, requested, device, cached, prescan, polls,
                   wake, ended>>

\* The reply is back: NetworkManager scans, or has done so by now; or it has
\* refused, or the call has timed out, which ends init_network.
Requested ==
    /\ pc = "request"
    /\ \/ /\ scanning' \in {TRUE, scanning}
          /\ pc' = "poll"
          /\ UNCHANGED device
       \/ /\ Fail
          /\ UNCHANGED scanning
    /\ UNCHANGED <<devices, now, lastScan, requested, cached, prescan, polls, wake, ended>>

BuggyScanSeen == prescan <= cached     \* an earlier scan of the same time counts

ScanSeen == prescan < cached

\* The head of the loop: at its end get_nearby_stations reads the access
\* points, whether the scan has ended or not.
Poll ==
    /\ pc = "poll"
    /\ IF ScanSeen \/ polls = WIFI_SCAN_TIMEOUT_SECONDS
       THEN pc' = "collected" /\ UNCHANGED wake
       ELSE pc' = "sleep" /\ wake' = now + 1
    /\ UNCHANGED <<manager, requested, device, cached, prescan, polls, ended>>

\* timeout_future_seconds(1) is over.
Wake ==
    /\ pc = "sleep"
    /\ wake = now
    /\ pc' = "poll"
    /\ polls' = polls + 1
    /\ UNCHANGED <<manager, requested, device, cached, prescan, wake, ended>>

-----------------------------------------------------------------------------

Next ==
    \/ ScanStarts \/ ScanEnds \/ Learn \/ Tick
    \/ FindDevice \/ RequestScan \/ Requested \/ Poll \/ Wake

Spec == Init /\ [][Next]_vars

\* Time goes by, D-Bus calls are answered or time out, and the main loop runs
\* what is ready.  A scan may take for ever.
FairSpec ==
    /\ Spec
    /\ WF_vars(Tick)
    /\ WF_vars(FindDevice \/ RequestScan \/ Requested \/ Poll \/ Wake)

-----------------------------------------------------------------------------
(* The inductive invariant behind FreshOrPatient. *)

Waiting == pc \in {"request", "poll", "sleep"}

\* A turn of the loop lasts a second, which is all the time there is.
Elapsed ==
    /\ IF pc = "sleep"
       THEN /\ polls < WIFI_SCAN_TIMEOUT_SECONDS
            /\ now <= wake
            /\ prescan + polls + 1 <= wake /\ wake <= MaxDelay + polls + 1
       ELSE now <= MaxDelay + polls
    /\ Waiting => prescan + polls <= now
    /\ pc \in {"find", "scan", "request"} => polls = 0

\* Nothing libnm knows of is later than prescan unless a scan has ended since.
NothingNewer ==
    /\ lastScan <= now /\ cached <= now
    /\ Waiting => ended \/ (lastScan <= prescan /\ cached <= prescan)

-----------------------------------------------------------------------------
(* Properties. *)

\* The access points are read after a scan that ended since scan_wifi started,
\* or after all the seconds it may wait: the end of an earlier scan, however
\* late libnm hears of it, is not taken for the one awaited.
FreshOrPatient ==
    pc = "collected" =>
        ended \/ (polls = WIFI_SCAN_TIMEOUT_SECONDS
                    /\ now >= prescan + WIFI_SCAN_TIMEOUT_SECONDS)

IInv == TypeOK /\ Elapsed /\ NothingNewer /\ FreshOrPatient

\* A scan that does not end, or that libnm does not hear of, delays the
\* startup but does not stop it.
Concludes == <>(pc \in {"collected", "error"})
==============================================================================
