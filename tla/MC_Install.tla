----------------------------- MODULE MC_Install -----------------------------
(* Install with services and programs as model values. *)
EXTENDS Install

CONSTANTS s1, s2, p1, p2
=============================================================================
