---------------------------- MODULE MCWifiConnect ----------------------------
(* Instances of WifiConnect for TLC. *)
EXTENDS WifiConnect, TLC

\* Requests, profiles and SSIDs are only compared by equality.  Used for
\* safety only.
Symmetry == Permutations(Requests) \cup Permutations(Profiles)
==============================================================================
