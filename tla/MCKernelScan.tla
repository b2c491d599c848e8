----------------------------- MODULE MCKernelScan -----------------------------
(* Instances of KernelScan for TLC. *)
EXTENDS KernelScan, TLC

\* Handlers are only compared by equality.  Used for safety only.
Symmetry == Permutations(Handlers)
==============================================================================
