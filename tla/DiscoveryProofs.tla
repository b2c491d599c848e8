--------------------------- MODULE DiscoveryProofs ---------------------------
(* Proofs about Discovery, for every timeout and every set of interfaces. *)
EXTENDS Discovery, TLAPS

\* Each step keeps the bounds on the clock and on the polls, and what is known
\* about the times of the scans.
LEMMA Inductive == IInv /\ [Next]_vars => IInv'
<1> SUFFICES ASSUME IInv, [Next]_vars PROVE IInv'
  OBVIOUS
<1> USE DiscoveryAssumption
<1> USE DEF IInv, TypeOK, Elapsed, NothingNewer, FreshOrPatient, Waiting, Times, MaxTime,
            Wifi, manager
<1>1. CASE ScanStarts
  BY <1>1 DEF ScanStarts
<1>2. CASE ScanEnds
  <2>1. /\ lastScan' = now
        /\ UNCHANGED <<devices, now, requested, pc, device, cached, prescan, polls, wake>>
    BY <1>2 DEF ScanEnds
  <2>2. scanning' \in BOOLEAN /\ ended' \in BOOLEAN
    BY <1>2, Zenon DEF ScanEnds
  <2>3. ended' <=> (Waiting \/ ended)
    BY <1>2, Zenon DEF ScanEnds
  <2>4. TypeOK'
    BY <2>1, <2>2
  <2>5. Elapsed'
    BY <2>1
  <2>6. NothingNewer'
    BY <2>1, <2>3
  <2>7. FreshOrPatient'
    BY <2>1, <2>3
  <2> QED
    BY <2>4, <2>5, <2>6, <2>7
<1>3. CASE Learn
  BY <1>3 DEF Learn
<1>4. CASE Tick
  BY <1>4 DEF Tick
<1>5. CASE FindDevice
  BY <1>5 DEF FindDevice, Candidates, Fail
<1>6. CASE RequestScan
  BY <1>6 DEF RequestScan
<1>7. CASE Requested
  BY <1>7 DEF Requested, Fail
<1>8. CASE Poll
  BY <1>8 DEF Poll, ScanSeen
<1>9. CASE Wake
  BY <1>9 DEF Wake
<1>10. CASE UNCHANGED vars
  BY <1>10 DEF vars
<1> QED
  BY <1>1, <1>2, <1>3, <1>4, <1>5, <1>6, <1>7, <1>8, <1>9, <1>10 DEF Next

LEMMA Initially == Init => IInv
<1> SUFFICES ASSUME Init PROVE IInv
  OBVIOUS
<1> USE DiscoveryAssumption DEF Init
<1>1. lastScan \in Times /\ lastScan <= now /\ cached = lastScan
  BY DEF Times, MaxTime
<1>2. prescan \in Times /\ wake \in Times /\ now \in 0..MaxTime
        /\ polls \in 0..WIFI_SCAN_TIMEOUT_SECONDS
  BY DEF Times, MaxTime
<1>3. scanning \in BOOLEAN /\ ended \in BOOLEAN
  BY Zenon
<1>4. TypeOK
  BY <1>1, <1>2, <1>3 DEF TypeOK
<1> QED
  BY <1>1, <1>4 DEF IInv, Elapsed, MaxTime, NothingNewer, FreshOrPatient, Waiting

\* The bounds of the variables, the clock's among them, and that the device
\* found is one that can be downcast to DeviceWifi (network.rs).
THEOREM TypeCorrect == Spec => []TypeOK
<1>1. IInv => TypeOK
  BY DEF IInv
<1> QED
  BY <1>1, Initially, Inductive, PTL DEF Spec

\* scan_wifi does not take the end of an earlier scan for that of the scan it
\* asked for, nor does it give up before its time, for every number of polls.
THEOREM FreshOrPatientHolds == Spec => []FreshOrPatient
<1>1. IInv => FreshOrPatient
  BY DEF IInv
<1> QED
  BY <1>1, Initially, Inductive, PTL DEF Spec
==============================================================================
