------------------------------- MODULE MCPortal -------------------------------
(* Instances of Portal for TLC. *)
EXTENDS Portal, TLC

\* Profiles and stops are only compared by equality.  Used for safety only.
Symmetry == Permutations(Profiles) \cup Permutations(Stops)
==============================================================================
