--------------------------- MODULE MC_HeaderScan ---------------------------
(* HeaderScan over all short files of two bytes, for a key that overlaps   *)
(* with itself.                                                            *)
EXTENDS HeaderScan

MCKey == <<1, 2, 1>>
=============================================================================
