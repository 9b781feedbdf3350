----------------------------- MODULE MC_Daemon -----------------------------
(* Daemon with one client, whose process may stop at any step. *)
EXTENDS Daemon

CONSTANT c1
=============================================================================
