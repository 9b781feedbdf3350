-------------------------- MODULE MC_SingleFlight --------------------------
(* SingleFlight for three callers of one key. *)
EXTENDS SingleFlight
=============================================================================
