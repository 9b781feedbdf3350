------------------------------- MODULE Mutex -------------------------------
(***************************************************************************)
(* What the lock of one cache key promises its callers                     *)
(* (crates/unixd-cache/src/private.rs, `Held`): at most one process has    *)
(* the lock, only the process that has it is told so, and a process keeps  *)
(* it until it lets go or dies.  `LockFile` implements this module.        *)
(***************************************************************************)
CONSTANTS Procs, None

VARIABLES
  holder,   \* the process that has the lock, or None
  inside    \* the processes that were told they have it

vars == <<holder, inside>>

Init ==
  /\ holder = None
  /\ inside = {}

Acquire(p) ==
  /\ holder = None
  /\ holder' = p
  /\ UNCHANGED inside

(* The caller is handed its `Held`. *)
Enter(p) ==
  /\ holder = p
  /\ inside' = {p}
  /\ UNCHANGED holder

(* The holder drops its `Held`, fails before it got one, or dies. *)
Release(p) ==
  /\ holder = p
  /\ holder' = None
  /\ inside' = {}

Next == \E p \in Procs : Acquire(p) \/ Enter(p) \/ Release(p)

Spec == Init /\ [][Next]_vars
=============================================================================
