-------------------------------- MODULE MCBss --------------------------------
(* An instance of Bss for TLC. *)
EXTENDS Bss

\* Payloads that are empty, look like the start of another element, contain
\* the id of an SSID element, or are no UTF-8.
SomePayloads == {<<>>, <<0>>, <<0, 1>>, <<9>>}
\* Both clamps, a tie of the rounding and its neighbours.
SomeSignals == {-12000, -9971, -9970, -9969, -4000, 0}
==============================================================================
