------------------------------ MODULE MCStations ------------------------------
(* An instance of Stations for TLC. *)
EXTENDS Stations

SomeNames == 0..2
===============================================================================
