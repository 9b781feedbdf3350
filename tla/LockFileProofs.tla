--------------------------- MODULE LockFileProofs ---------------------------
(***************************************************************************)
(* The lock-file protocol is a mutex, for any number of processes and any  *)
(* inode numbers.                                                          *)
(***************************************************************************)
EXTENDS LockFile, TLAPS

(* The invariant holds before any process has touched the cache root. *)
LEMMA InitInv == Init => IInv
  BY NoneAssumption
  DEF Init, IInv, TypeOK, FilesMatch, FlocksMatch, PathsMatch,
      MaintenanceMatches, PCs, OpenPCs, FlockPCs, SharedPCs

(* Every step of every process, and every crash, preserves the invariant. *)
LEMMA NextInv == IInv /\ [Next]_vars => IInv'
<1> SUFFICES ASSUME IInv, [Next]_vars PROVE IInv'
  OBVIOUS
<1> USE NoneAssumption
        DEF IInv, TypeOK, FilesMatch, FlocksMatch, PathsMatch,
            MaintenanceMatches, PCs, OpenPCs, FlockPCs, SharedPCs
<1>1. ASSUME NEW p \in Procs, NEW m \in {"block", "try"}, TakeShared(p, m)
      PROVE  IInv'
  BY <1>1 DEF TakeShared, SharedFree
<1>2. ASSUME NEW p \in Procs, ClearBegin(p) PROVE IInv'
  BY <1>2 DEF ClearBegin, ExclusiveFree
<1>3. ASSUME NEW p \in Procs, OpenLock(p) PROVE IInv'
  BY <1>3 DEF OpenLock, Free
<1>4. ASSUME NEW p \in Procs, Flock(p) PROVE IInv'
  BY <1>4 DEF Flock
<1>5. ASSUME NEW p \in Procs, WouldBlock(p) PROVE IInv'
  BY <1>5 DEF WouldBlock
<1>6. ASSUME NEW p \in Procs, Hold(p) PROVE IInv'
  BY <1>6 DEF Hold, Names
<1>7. ASSUME NEW p \in Procs, Retry(p) PROVE IInv'
  BY <1>7 DEF Retry, Names, CloseFile
<1>8. ASSUME NEW p \in Procs, DropPath(p) PROVE IInv'
  BY <1>8 DEF DropPath, Unlink
<1>9. ASSUME NEW p \in Procs, DropFile(p) PROVE IInv'
  BY <1>9 DEF DropFile, CloseFile
<1>10. ASSUME NEW p \in Procs, DropShared(p) PROVE IInv'
  BY <1>10 DEF DropShared
<1>11. ASSUME NEW p \in Procs, ClearPath(p) PROVE IInv'
  BY <1>11 DEF ClearPath
<1>12. ASSUME NEW p \in Procs, ClearEnd(p) PROVE IInv'
  BY <1>12 DEF ClearEnd
<1>13. ASSUME NEW p \in Procs, Crash(p) PROVE IInv'
  BY <1>13 DEF Crash
<1>14. CASE UNCHANGED vars
  BY <1>14 DEF vars
<1>15. QED
  BY <1>1, <1>2, <1>3, <1>4, <1>5, <1>6, <1>7, <1>8, <1>9, <1>10, <1>11,
     <1>12, <1>13, <1>14 DEF Next, Step
-----------------------------------------------------------------------------
(* In every behaviour the files, the flock locks and the maintenance lock  *)
(* agree with where each process is in private.rs.                         *)
THEOREM Inductive == Spec => []IInv
<1>1. Init => IInv
  BY InitInv
<1>2. IInv /\ [Next]_vars => IInv'
  BY NextInv
<1>3. QED
  BY <1>1, <1>2, PTL DEF Spec

(* Two holders would both have flock on the one inode the path names. *)
LEMMA ExclusionFromInv == IInv => MutualExclusion
<1> SUFFICES ASSUME IInv,
                    NEW p \in Procs, NEW q \in Procs,
                    pc[p] = "held", pc[q] = "held"
             PROVE  p = q
  BY DEF MutualExclusion
<1>1. fd[p] = fd[q]
  BY DEF IInv, PathsMatch
<1>2. owner[fd[p]] = p /\ owner[fd[q]] = q
  BY DEF IInv, FlocksMatch, FlockPCs
<1>3. QED
  BY <1>1, <1>2

(* The lock of a key is exclusive although its file comes and goes: any    *)
(* number of callers of lock_exclusive and try_lock_exclusive, with        *)
(* crashes and inode reuse.                                                *)
THEOREM Exclusion == Spec => []MutualExclusion
  BY Inductive, ExclusionFromInv, PTL

(* Held::drop deletes the lock file of its own Held, never a successor's. *)
THEOREM DropIsOwn == Spec => []HeldIsNamed
<1>1. IInv => HeldIsNamed
  BY DEF IInv, PathsMatch, HeldIsNamed
<1>2. QED
  BY <1>1, Inductive, PTL

(* While Cache::clear deletes, no other process is inside the locks. *)
THEOREM ClearExcludes == Spec => []ClearIsAlone
<1>1. IInv => ClearIsAlone
  <2> SUFFICES ASSUME IInv, NEW p \in Procs, NEW q \in Procs,
                      pc[p] \in {"clearing", "cleared"}, q # p
               PROVE  pc[q] = "idle"
    BY DEF ClearIsAlone
  <2>1. exclusive = p /\ exclusive # None
    BY NoneAssumption DEF IInv, MaintenanceMatches
  <2>2. q \notin shared
    BY <2>1 DEF IInv, MaintenanceMatches
  <2>3. pc[q] \in PCs
    BY DEF IInv, TypeOK
  <2>4. QED
    BY <2>1, <2>2, <2>3
    DEF IInv, MaintenanceMatches, SharedPCs, OpenPCs, PCs
<1>2. QED
  BY <1>1, Inductive, PTL
(* A process that leaves a file at the path leaves it to the one that has  *)
(* it locked; only a crash leaves it to nobody.                            *)
LEMMA StrayKept == IInv /\ NoStrayFile /\ [Next]_vars => NoStrayFile'
<1> SUFFICES ASSUME IInv, NoStrayFile, [Next]_vars, crashes' = 0, path' # None
             PROVE  \E p \in Procs :
                      fd'[p] = path' /\ pc'[p] \in {"opened", "locked", "held"}
  BY DEF NoStrayFile
<1> DEFINE Keeper(q) == fd[q] = path /\ pc[q] \in {"opened", "locked", "held"}
           Kept == \E p \in Procs :
                     fd'[p] = path' /\ pc'[p] \in {"opened", "locked", "held"}
<1> USE NoneAssumption DEF IInv, TypeOK
<1>1. ASSUME NEW p \in Procs, OpenLock(p) PROVE Kept
  <2>1. fd'[p] = path' /\ pc'[p] = "opened"
    BY <1>1 DEF OpenLock
  <2>2. QED
    BY <2>1
<1>2. ASSUME crashes = 0, path # None PROVE \E q \in Procs : Keeper(q)
  BY <1>2 DEF NoStrayFile
<1>3. ASSUME NEW p \in Procs,
             \/ \E m \in {"block", "try"} : TakeShared(p, m)
             \/ ClearBegin(p) \/ DropShared(p) \/ ClearEnd(p)
      PROVE  Kept
  <2>1. /\ UNCHANGED <<path, fd, crashes>>
        /\ pc' = [pc EXCEPT ![p] = pc'[p]]
        /\ pc[p] \notin {"opened", "locked", "held"}
    BY <1>3 DEF TakeShared, ClearBegin, DropShared, ClearEnd
  <2>2. PICK q \in Procs : Keeper(q)
    BY <1>2, <2>1
  <2>3. QED
    BY <2>1, <2>2
<1>4. ASSUME NEW p \in Procs, Flock(p) \/ Hold(p) PROVE Kept
  <2>1. PICK q \in Procs : Keeper(q)
    BY <1>2, <1>4 DEF Flock, Hold
  <2>2. QED
    BY <1>4, <2>1 DEF Flock, Hold
<1>5. ASSUME NEW p \in Procs, WouldBlock(p) PROVE Kept
  <2>1. PICK q \in Procs : Keeper(q)
    BY <1>2, <1>5 DEF WouldBlock
  <2>2. CASE q # p
    BY <1>5, <2>1, <2>2 DEF WouldBlock
  <2>3. CASE q = p
    <3>1. PICK r \in Procs : owner[fd[p]] = r
      BY <1>5, <2>1, <2>3 DEF WouldBlock
    <3>2. fd[r] = path /\ pc[r] \in FlockPCs /\ r # p
      BY <1>5, <2>1, <2>3, <3>1 DEF WouldBlock, FlocksMatch, FlockPCs
    <3>3. pc[r] \in {"locked", "held"}
      BY <3>2 DEF PathsMatch, FlockPCs
    <3>4. QED
      BY <1>5, <3>2, <3>3 DEF WouldBlock
  <2>4. QED
    BY <2>2, <2>3
<1>6. ASSUME NEW p \in Procs, Retry(p) \/ DropFile(p) PROVE Kept
  <2>1. fd[p] # path
    BY <1>6 DEF Retry, Names, DropFile, PathsMatch
  <2>2. PICK q \in Procs : Keeper(q)
    BY <1>2, <1>6 DEF Retry, DropFile
  <2>3. QED
    BY <1>6, <2>1, <2>2 DEF Retry, DropFile, CloseFile
<1>7. ASSUME NEW p \in Procs, DropPath(p) \/ ClearPath(p) PROVE FALSE
  BY <1>7 DEF DropPath, Unlink, ClearPath
<1>8. ASSUME NEW p \in Procs, Crash(p) PROVE FALSE
  BY <1>8 DEF Crash
<1>9. CASE UNCHANGED vars
  BY <1>2, <1>9 DEF vars
<1>10. QED
  BY <1>1, <1>3, <1>4, <1>5, <1>6, <1>7, <1>8, <1>9 DEF Next, Step

(* "A lock file exists only while it is held": without a crash or a failed *)
(* call, a file at the path is always somebody's to hold and delete.       *)
THEOREM NoStray == Spec => []NoStrayFile
<1>1. Init => NoStrayFile
  BY DEF Init, NoStrayFile
<1>2. IInv /\ NoStrayFile /\ [Next]_vars => NoStrayFile'
  BY StrayKept
<1>3. QED
  BY <1>1, <1>2, Inductive, PTL DEF Spec
-----------------------------------------------------------------------------
(* Every step of the lock-file protocol is a step of the abstract mutex,   *)
(* or leaves it as it was.                                                 *)
LEMMA StepRefines == IInv /\ IInv' /\ [Next]_vars => [M!Next]_(M!vars)
<1> SUFFICES ASSUME IInv, IInv', [Next]_vars PROVE [M!Next]_(M!vars)
  OBVIOUS
<1>0. MutualExclusion /\ MutualExclusion'
  <2>1. MutualExclusion
    BY ExclusionFromInv
  <2>2. MutualExclusion'
    BY ExclusionFromInv, PTL
  <2>3. QED
    BY <2>1, <2>2
<1> USE NoneAssumption
        DEF IInv, TypeOK, FilesMatch, FlocksMatch, PathsMatch,
            MaintenanceMatches, OpenPCs, FlockPCs, SharedPCs,
            M!vars, M!Next, Holder
<1>1. ASSUME NEW p \in Procs, NEW m \in {"block", "try"}, TakeShared(p, m)
      PROVE  UNCHANGED M!vars
  BY <1>1 DEF TakeShared
<1>2. ASSUME NEW p \in Procs, ClearBegin(p) PROVE UNCHANGED M!vars
  BY <1>2 DEF ClearBegin
<1>3. ASSUME NEW p \in Procs, OpenLock(p) PROVE UNCHANGED M!vars
  BY <1>3 DEF OpenLock, Free
<1>4. ASSUME NEW p \in Procs, Flock(p)
      PROVE  M!Acquire(p) \/ UNCHANGED M!vars
  BY <1>4 DEF Flock, M!Acquire
<1>5. ASSUME NEW p \in Procs, WouldBlock(p) PROVE UNCHANGED M!vars
  BY <1>5 DEF WouldBlock
<1>6. ASSUME NEW p \in Procs, Hold(p) PROVE M!Enter(p)
  BY <1>0, <1>6 DEF Hold, Names, M!Enter, MutualExclusion
<1>7. ASSUME NEW p \in Procs, Retry(p) PROVE UNCHANGED M!vars
  BY <1>7 DEF Retry, Names, CloseFile
<1>8. ASSUME NEW p \in Procs, DropPath(p) PROVE M!Release(p)
  BY <1>0, <1>8 DEF DropPath, Unlink, M!Release, MutualExclusion
<1>9. ASSUME NEW p \in Procs, DropFile(p) PROVE UNCHANGED M!vars
  BY <1>9 DEF DropFile, CloseFile
<1>10. ASSUME NEW p \in Procs, DropShared(p) PROVE UNCHANGED M!vars
  BY <1>10 DEF DropShared
<1>11. ASSUME NEW p \in Procs, ClearPath(p) PROVE UNCHANGED M!vars
  BY <1>11 DEF ClearPath
<1>12. ASSUME NEW p \in Procs, ClearEnd(p) PROVE UNCHANGED M!vars
  BY <1>12 DEF ClearEnd
<1>13. ASSUME NEW p \in Procs, Crash(p)
       PROVE  M!Release(p) \/ UNCHANGED M!vars
  <2>1. CASE Holder = p
    BY <1>0, <1>13, <2>1 DEF Crash, M!Release, MutualExclusion
  <2>2. CASE Holder # p
    BY <1>0, <1>13, <2>2 DEF Crash, MutualExclusion
  <2>3. QED
    BY <2>1, <2>2
<1>14. CASE UNCHANGED vars
  BY <1>14 DEF vars
<1>15. QED
  BY <1>1, <1>2, <1>3, <1>4, <1>5, <1>6, <1>7, <1>8, <1>9, <1>10, <1>11,
     <1>12, <1>13, <1>14 DEF Next, Step

(* The lock-file protocol of private.rs implements the mutex its callers   *)
(* in cache.rs rely on.                                                    *)
THEOREM ImplementsMutex == Spec => MutexSpec
<1>1. Init => M!Init
  BY DEF Init, M!Init, Holder
<1>2. IInv /\ IInv' /\ [Next]_vars => [M!Next]_(M!vars)
  BY StepRefines
<1>3. QED
  BY <1>1, <1>2, Inductive, PTL DEF Spec, MutexSpec, M!Spec
=============================================================================
