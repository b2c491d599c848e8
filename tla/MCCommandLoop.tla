---------------------------- MODULE MCCommandLoop ----------------------------
(***************************************************************************)
(* The instance of CommandLoop for TLC, without symmetry: its properties   *)
(* are liveness ones, too.                                                 *)
(***************************************************************************)
EXTENDS CommandLoop, TLC
==============================================================================
