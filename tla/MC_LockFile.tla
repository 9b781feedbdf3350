---------------------------- MODULE MC_LockFile ----------------------------
(* LockFile for three processes. *)
EXTENDS LockFile
=============================================================================
