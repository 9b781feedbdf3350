---------------------------- MODULE MC_Lifecycle ----------------------------
(* Lifecycle for a few clients. *)
EXTENDS Lifecycle
=============================================================================
