----------------------------- MODULE MCInterfaces -----------------------------
(* An instance of Interfaces for TLC. *)
EXTENDS Interfaces

SomeNames == {"wlan0", "p2p0"}

\* A station, and a type that is not in the table.
SomeTypes == {2, 13}
==============================================================================
