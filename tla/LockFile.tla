------------------------------ MODULE LockFile ------------------------------
(***************************************************************************)
(* The lock file of one cache key: `open_lock`, `lock_exclusive`,          *)
(* `try_lock_exclusive`, `names` and `Held::drop` of                       *)
(* crates/unixd-cache/src/private.rs, as `Cache::lock`, `prune` and        *)
(* `Cache::clear` of cache.rs call them.                                   *)
(*                                                                         *)
(* The file exists only while the key is held, so the holder deletes it    *)
(* before it unlocks and a waiter may find that it locked a file no longer *)
(* at the path.  The kernel is external: a flock(2) lock belongs to an     *)
(* open file and goes when that file is closed, by its process or by its   *)
(* process's death, and an inode number is free for reuse as soon as no    *)
(* path and no open file refers to it.                                     *)
(*                                                                         *)
(* "idle"      the process is outside the cache's locks                    *)
(* "entered"   `Cache::lock` has the maintenance lock and wants the key    *)
(* "pass"      `prune` has the maintenance lock, between two files         *)
(* "opened"    the lock file is open, and not yet locked                   *)
(* "locked"    flock(2) was granted, and `names` was not yet called        *)
(* "held"      the caller has a `Held`                                     *)
(* "unlinked"  `Held::drop` has deleted the path; the file is still open   *)
(* "closed"    the `KeyLock`'s key is gone, its maintenance lock is not    *)
(* "clearing", "cleared"   `Cache::clear`, before and after it deletes     *)
(***************************************************************************)
EXTENDS Naturals

CONSTANTS
  Procs,        \* processes and threads that share the cache root
  Inodes,       \* inode numbers of the file system
  None,         \* no inode, no process
  MaxCrashes    \* bound on process deaths and failed system calls

ASSUME NoneAssumption == None \notin Procs /\ None \notin Inodes
ASSUME CrashAssumption == MaxCrashes \in Nat

VARIABLES
  path,        \* the inode locks/<digest>.lock names, or None
  fd,          \* fd[p]: the inode process p has open, or None
  owner,       \* owner[i]: the process whose open file has inode i locked
  shared,      \* processes with maintenance.lock locked shared
  exclusive,   \* the process with maintenance.lock locked exclusively
  mode,        \* "block" in Cache::lock, "try" in prune
  pc,
  crashes

vars == <<path, fd, owner, shared, exclusive, mode, pc, crashes>>

PCs == {"idle", "entered", "pass", "opened", "locked", "held", "unlinked",
        "closed", "clearing", "cleared"}

TypeOK ==
  /\ path \in Inodes \cup {None}
  /\ fd \in [Procs -> Inodes \cup {None}]
  /\ owner \in [Inodes -> Procs \cup {None}]
  /\ shared \in SUBSET Procs
  /\ exclusive \in Procs \cup {None}
  /\ mode \in [Procs -> {"block", "try"}]
  /\ pc \in [Procs -> PCs]
  /\ crashes \in Nat

Init ==
  /\ path = None
  /\ fd = [p \in Procs |-> None]
  /\ owner = [i \in Inodes |-> None]
  /\ shared = {}
  /\ exclusive = None
  /\ mode = [p \in Procs |-> "block"]
  /\ pc = [p \in Procs |-> "idle"]
  /\ crashes = 0
-----------------------------------------------------------------------------
(* The maintenance lock: shared for key holders and prune, exclusive for   *)
(* clear.  maintenance.lock itself is never deleted.                       *)

SharedFree == exclusive = None

ExclusiveFreeOfWriters == exclusive = None      \* mutant of ExclusiveFree

ExclusiveFree == exclusive = None /\ shared = {}

TakeShared(p, m) ==
  /\ pc[p] = "idle"
  /\ SharedFree
  /\ shared' = shared \cup {p}
  /\ mode' = [mode EXCEPT ![p] = m]
  /\ pc' = [pc EXCEPT ![p] = IF m = "block" THEN "entered" ELSE "pass"]
  /\ UNCHANGED <<path, fd, owner, exclusive, crashes>>

DropShared(p) ==
  /\ pc[p] \in {"pass", "closed"}
  /\ shared' = shared \ {p}
  /\ pc' = [pc EXCEPT ![p] = "idle"]
  /\ UNCHANGED <<path, fd, owner, exclusive, mode, crashes>>
-----------------------------------------------------------------------------
(* Taking the key. *)

Free(i) == path # i /\ \A q \in Procs : fd[q] # i

(* open_lock: opens the file at the path, or creates one. *)
OpenLock(p) ==
  /\ pc[p] \in {"entered", "pass"}
  /\ IF path = None
     THEN \E i \in Inodes : Free(i) /\ path' = i /\ fd' = [fd EXCEPT ![p] = i]
     ELSE path' = path /\ fd' = [fd EXCEPT ![p] = path]
  /\ pc' = [pc EXCEPT ![p] = "opened"]
  /\ UNCHANGED <<owner, shared, exclusive, mode, crashes>>

(* File::lock, which waits, or File::try_lock, when nobody has it. *)
Flock(p) ==
  /\ pc[p] = "opened"
  /\ owner[fd[p]] = None
  /\ owner' = [owner EXCEPT ![fd[p]] = p]
  /\ pc' = [pc EXCEPT ![p] = "locked"]
  /\ UNCHANGED <<path, fd, shared, exclusive, mode, crashes>>

(* File::try_lock while another has it: WouldBlock, and prune goes on. *)
WouldBlock(p) ==
  /\ pc[p] = "opened" /\ mode[p] = "try"
  /\ owner[fd[p]] # None
  /\ fd' = [fd EXCEPT ![p] = None]
  /\ pc' = [pc EXCEPT ![p] = "pass"]
  /\ UNCHANGED <<path, owner, shared, exclusive, mode, crashes>>

NamesAnything(p) == TRUE      \* mutant of Names: no check after the lock

(* names: the path still names the file that was locked. *)
Names(p) == path = fd[p]

Hold(p) ==
  /\ pc[p] = "locked"
  /\ Names(p)
  /\ pc' = [pc EXCEPT ![p] = "held"]
  /\ UNCHANGED <<path, fd, owner, shared, exclusive, mode, crashes>>

(* Closing the file releases its flock lock. *)
CloseFile(p) ==
  /\ fd' = [fd EXCEPT ![p] = None]
  /\ owner' = [owner EXCEPT ![fd[p]] = None]

(* Mutant of Retry: waits again on the deleted file. *)
RetrySameFile(p) ==
  /\ pc[p] = "locked"
  /\ ~Names(p)
  /\ owner' = [owner EXCEPT ![fd[p]] = None]
  /\ pc' = [pc EXCEPT ![p] = "opened"]
  /\ UNCHANGED <<path, fd, shared, exclusive, mode, crashes>>

(* The file was deleted while this process waited: lock_exclusive loops,   *)
(* try_lock_exclusive answers None.                                        *)
Retry(p) ==
  /\ pc[p] = "locked"
  /\ ~Names(p)
  /\ CloseFile(p)
  /\ pc' = [pc EXCEPT ![p] = IF mode[p] = "block" THEN "entered" ELSE "pass"]
  /\ UNCHANGED <<path, shared, exclusive, mode, crashes>>
-----------------------------------------------------------------------------
(* Dropping the Held: the path goes first, then the lock. *)

UnlinkNothing == path      \* mutant of Unlink: the file is left behind

Unlink == None

DropPath(p) ==
  /\ pc[p] = "held"
  /\ path' = Unlink
  /\ pc' = [pc EXCEPT ![p] = "unlinked"]
  /\ UNCHANGED <<fd, owner, shared, exclusive, mode, crashes>>

DropFile(p) ==
  /\ pc[p] = "unlinked"
  /\ CloseFile(p)
  /\ pc' = [pc EXCEPT ![p] = IF mode[p] = "block" THEN "closed" ELSE "pass"]
  /\ UNCHANGED <<path, shared, exclusive, mode, crashes>>
-----------------------------------------------------------------------------
(* Cache::clear, as it touches this lock file. *)

ClearBegin(p) ==
  /\ pc[p] = "idle"
  /\ ExclusiveFree
  /\ exclusive' = p
  /\ pc' = [pc EXCEPT ![p] = "clearing"]
  /\ UNCHANGED <<path, fd, owner, shared, mode, crashes>>

ClearPath(p) ==
  /\ pc[p] = "clearing"
  /\ path' = None
  /\ pc' = [pc EXCEPT ![p] = "cleared"]
  /\ UNCHANGED <<fd, owner, shared, exclusive, mode, crashes>>

ClearEnd(p) ==
  /\ pc[p] = "cleared"
  /\ exclusive' = None
  /\ pc' = [pc EXCEPT ![p] = "idle"]
  /\ UNCHANGED <<path, fd, owner, shared, mode, crashes>>
-----------------------------------------------------------------------------
(* The process dies, or a system call of open_lock, lock or names fails    *)
(* and the error return drops the open files.  Either way no Held is       *)
(* dropped, so the path stays.                                             *)
Crash(p) ==
  /\ pc[p] # "idle"
  /\ crashes < MaxCrashes
  /\ crashes' = crashes + 1
  /\ fd' = [fd EXCEPT ![p] = None]
  /\ owner' = [i \in Inodes |-> IF owner[i] = p THEN None ELSE owner[i]]
  /\ shared' = shared \ {p}
  /\ exclusive' = IF exclusive = p THEN None ELSE exclusive
  /\ pc' = [pc EXCEPT ![p] = "idle"]
  /\ UNCHANGED <<path, mode>>

(* Steps a process that is inside the cache takes without waiting for its  *)
(* caller, and the caller's drop of the lock.                              *)
Step(p) ==
  \/ OpenLock(p) \/ Flock(p) \/ WouldBlock(p) \/ Hold(p) \/ Retry(p)
  \/ DropPath(p) \/ DropFile(p) \/ DropShared(p)
  \/ ClearPath(p) \/ ClearEnd(p)

Next ==
  \E p \in Procs :
    \/ \E m \in {"block", "try"} : TakeShared(p, m)
    \/ ClearBegin(p)
    \/ Step(p)
    \/ Crash(p)

Spec == Init /\ [][Next]_vars

Fairness == \A p \in Procs : WF_vars(Step(p))

FairSpec == Spec /\ Fairness
-----------------------------------------------------------------------------
(* Two callers never have the key at once, although every holder deletes   *)
(* the file the next ones wait on: `Held` is exclusive                     *)
(* (private.rs, lock_exclusive and try_lock_exclusive).                    *)
MutualExclusion ==
  \A p, q \in Procs : pc[p] = "held" /\ pc[q] = "held" => p = q

(* Held::drop deletes by path.  While a Held exists the path names its own *)
(* file, so the drop never deletes the lock file of a later holder.        *)
HeldIsNamed == \A p \in Procs : pc[p] = "held" => path = fd[p]

(* "A lock file exists only while it is held": unless a process died or a  *)
(* call failed, a file at the path is open in a process that will lock,    *)
(* hold and delete it.                                                     *)
NoStrayFile ==
  crashes = 0 /\ path # None =>
    \E p \in Procs : fd[p] = path /\ pc[p] \in {"opened", "locked", "held"}

(* Cache::clear deletes lock files without locking them.  It may, because  *)
(* the maintenance lock keeps every other user of the lock files out.      *)
ClearIsAlone ==
  \A p, q \in Procs :
    pc[p] \in {"clearing", "cleared"} /\ q # p => pc[q] = "idle"

(* The inductive invariant: what the program counters say about the files, *)
(* the flock locks and the maintenance lock.                               *)
OpenPCs == {"opened", "locked", "held", "unlinked"}

FlockPCs == {"locked", "held", "unlinked"}

SharedPCs == {"entered", "pass", "closed"} \cup OpenPCs

(* A process has a file open exactly between open_lock and its close. *)
FilesMatch == \A p \in Procs : pc[p] \in OpenPCs <=> fd[p] # None

(* flock(2): a lock is with the process whose open file took it. *)
FlocksMatch ==
  /\ \A p \in Procs : pc[p] \in FlockPCs => owner[fd[p]] = p
  /\ \A i \in Inodes : owner[i] # None =>
       fd[owner[i]] = i /\ pc[owner[i]] \in FlockPCs

(* A deleted file never comes back to the path while it is open. *)
PathsMatch ==
  /\ \A p \in Procs : pc[p] = "held" => path = fd[p]
  /\ \A p \in Procs : pc[p] = "unlinked" => path # fd[p]

MaintenanceMatches ==
  /\ \A p \in Procs : p \in shared <=> pc[p] \in SharedPCs
  /\ \A p \in Procs : exclusive = p <=> pc[p] \in {"clearing", "cleared"}
  /\ exclusive # None => shared = {}

IInv ==
  /\ TypeOK
  /\ FilesMatch
  /\ FlocksMatch
  /\ PathsMatch
  /\ MaintenanceMatches
-----------------------------------------------------------------------------
(* The detailed protocol implements the abstract mutex: the lock is with   *)
(* the process that has flock on the inode the path names.                 *)
Holder == IF path = None THEN None ELSE owner[path]

M == INSTANCE Mutex WITH
       holder <- Holder,
       inside <- {p \in Procs : pc[p] = "held"}

MutexSpec == M!Spec

(* Waiting on a deleted file never blocks the key: when a caller waits in  *)
(* lock_exclusive, some caller gets the key, or the waiter itself died.    *)
SomeoneGetsIt ==
  \A p \in Procs :
    pc[p] = "opened" /\ mode[p] = "block"
      ~> pc[p] = "idle" \/ \E q \in Procs : pc[q] = "held"
=============================================================================
