---------------------------- MODULE CacheProofs ----------------------------
(***************************************************************************)
(* The cache's locks protect its files, for any number of processes, keys  *)
(* and entries, and any limits.                                            *)
(***************************************************************************)
EXTENDS Cache, FiniteSetTheorems, TLAPS

(* What the invariant says of two processes: a key has one KeyLock, prune  *)
(* removes no file whose key a KeyLock has, and clear is alone.            *)
LEMMA Exclusive ==
  ASSUME IInv
  PROVE  /\ \A p, q \in Procs : held[p] # None /\ held[p] = held[q] => p = q
         /\ \A p \in Procs : pc[p] = "rm" => pruner = p
         /\ pruner # None /\ pc[pruner] = "rm" =>
              victim.key \in Keys /\ \A q \in Procs : held[q] # victim.key
         /\ exclusive # None => \A p \in Procs :
              /\ held[p] = None
              /\ pc[p] \notin {"wantkey", "write", "stored", "wantprune",
                               "prune", "rm"}
<1>1. ASSUME NEW p \in Procs, NEW q \in Procs, held[p] # None, held[p] = held[q]
      PROVE  p = q
  <2>1. keyLock[held[p]] = p /\ keyLock[held[q]] = q
    BY <1>1 DEF IInv, LocksMatch
  <2>2. QED
    BY <1>1, <2>1
<1>2. \A p \in Procs : pc[p] = "rm" => pruner = p
  BY DEF IInv, LocksMatch
<1>3. ASSUME pruner # None, pc[pruner] = "rm"
      PROVE  victim.key \in Keys /\ \A q \in Procs : held[q] # victim.key
  <2>1. victim.key \in Keys
    BY <1>3 DEF IInv, TypeOK, FileTypes, VictimMatches, Victims
  <2>2. ASSUME NEW q \in Procs, held[q] = victim.key PROVE FALSE
    <3>1. keyLock[held[q]] = q
      BY <2>1, <2>2, NoneAssumption DEF IInv, LocksMatch
    <3>2. QED
      BY <1>3, <2>2, <3>1 DEF IInv, VictimMatches
  <2>3. QED
    BY <2>1, <2>2
<1>4. ASSUME exclusive # None, NEW p \in Procs
      PROVE  /\ held[p] = None
             /\ pc[p] \notin {"wantkey", "write", "stored", "wantprune",
                              "prune", "rm"}
  BY <1>4 DEF IInv, LocksMatch
<1>5. QED
  BY <1>1, <1>2, <1>3, <1>4

(* A KeyLock is dropped, by its holder or at the end of a store. *)
LEMMA DropInv ==
  ASSUME IInv, NEW p \in Procs,
         Unlock(p) \/ StoreUnlock(p) \/ StoreFails(p)
           \/ \E size \in Sizes : TooLarge(p, size)
  PROVE  IInv'
<1>1. /\ held[p] # None /\ held[p] \in Keys /\ DropKeyLock(p)
      /\ pc[p] \in {"idle", "write", "stored"}
      /\ UNCHANGED <<entry, victim>>
  BY DEF Unlock, StoreUnlock, StoreFails, TooLarge, IInv, TypeOK, LockTypes,
         LocksMatch, files, pass
<1>2. \A q \in Procs \ {p} : pc'[q] = pc[q]
  BY DEF Unlock, StoreUnlock, StoreFails, TooLarge, Goto, Return, IInv,
         TypeOK, LockTypes
<1>3. pc'[p] \in {"idle", "wrote"} /\ pc' \in [Procs -> PCs]
  BY <1>1 DEF Unlock, StoreUnlock, StoreFails, TooLarge, Goto, Return, IInv,
         TypeOK, LockTypes, PCs
<1>4. LockTypes' /\ FileTypes'
  <2>1. LockTypes'
    BY <1>1, <1>3
    DEF Unlock, StoreUnlock, StoreFails, TooLarge, Return, DropKeyLock, IInv,
        TypeOK, LockTypes, files, call
  <2>2. FileTypes'
    BY <1>1
    DEF Unlock, StoreUnlock, StoreFails, TooLarge, Return, IInv, TypeOK,
        FileTypes, files, call, pass
  <2>3. QED
    BY <2>1, <2>2
<1>5. LocksMatch'
  <2>1. \A q \in Procs \ {p} :
          /\ held'[q] = held[q] /\ arg'[q] = arg[q]
          /\ held[q] # None => keyLock'[held[q]] = keyLock[held[q]]
    BY <1>1, Exclusive
    DEF Unlock, StoreUnlock, StoreFails, TooLarge, Return, DropKeyLock, IInv,
        TypeOK, LockTypes, call
  <2>2. held'[p] = None
    BY <1>1 DEF DropKeyLock, IInv, TypeOK, LockTypes
  <2>3. /\ shared' = shared \ {<<p, "key">>}
        /\ exclusive' = exclusive /\ pruner' = pruner
    BY <1>1 DEF DropKeyLock
  <2>4. pruner # p /\ exclusive # p
    BY <1>1 DEF IInv, LocksMatch
  <2>5. QED
    BY <1>2, <1>3, <2>1, <2>2, <2>3, <2>4 DEF IInv, LocksMatch
<1>6. VictimMatches'
  <2>1. pruner' = pruner /\ pruner # p
    BY <1>1 DEF DropKeyLock, IInv, LocksMatch
  <2>2. SUFFICES ASSUME pruner # None, pc[pruner] = "rm"
        PROVE  /\ keyLock'[victim.key] = keyLock[victim.key]
               /\ held'[pruner] = held[pruner]
    BY <1>1, <1>2, <2>1 DEF IInv, TypeOK, LockTypes, VictimMatches
  <2>3. victim.key \in Keys /\ held[p] # victim.key
    BY <2>2, Exclusive
  <2>4. QED
    BY <1>1, <2>1, <2>2, <2>3 DEF DropKeyLock, IInv, TypeOK, LockTypes
<1>7. ReadMatches'
  BY <1>1, <1>2, <1>3
  DEF Unlock, StoreUnlock, StoreFails, TooLarge, Return, DropKeyLock, IInv,
      TypeOK, LockTypes, FileTypes, ReadMatches, call
<1>8. TmpMatches'
  BY <1>1, <1>2, <1>3
  DEF Unlock, StoreUnlock, StoreFails, TooLarge, Return, DropKeyLock, IInv,
      TypeOK, LockTypes, FileTypes, TmpMatches, call, files
<1>9. QED
  BY <1>4, <1>5, <1>6, <1>7, <1>8 DEF IInv, TypeOK

(* A lookup misses.  If it removes the file, it has the key's lock, so     *)
(* nobody else's judgement of a file is disturbed.                         *)
LEMMA MissInv ==
  ASSUME IInv, NEW p \in Procs, Miss(p)
  PROVE  IInv'
<1>1. /\ pc[p] = "read" /\ arg[p] \in Keys
      /\ entry' = entry \/ (held[p] = arg[p] /\ entry' = [entry EXCEPT ![arg[p]] = None])
  BY DEF Miss, Discard, IInv, TypeOK, LockTypes, ReadMatches
<1>2. /\ pc' = [pc EXCEPT ![p] = "idle"]
      /\ arg' = [arg EXCEPT ![p] = None]
      /\ how' = [how EXCEPT ![p] = "unlocked"]
      /\ snap' = [snap EXCEPT ![p] = None]
      /\ at' = [at EXCEPT ![p] = 0]
      /\ UNCHANGED <<clock, tmp, orphans, keyLock, held, shared, exclusive,
                     pruner, todo, kept, victim>>
  BY DEF Miss, Return, Goto, locks, pass
<1>3. LockTypes'
  BY <1>2 DEF IInv, TypeOK, LockTypes, PCs
<1>4. FileTypes'
  BY <1>1, <1>2 DEF IInv, TypeOK, FileTypes
<1>5. LocksMatch'
  BY <1>1, <1>2 DEF IInv, TypeOK, LockTypes, LocksMatch
<1>6. VictimMatches'
  <2>1. SUFFICES ASSUME pruner # None, pc[pruner] = "rm"
        PROVE  entry'[victim.key] = entry[victim.key]
    BY <1>1, <1>2 DEF IInv, TypeOK, LockTypes, VictimMatches
  <2>2. QED
    BY <1>1, <2>1, Exclusive DEF IInv, TypeOK, FileTypes
<1>7. ReadMatches'
  <2>1. ASSUME NEW q \in Procs \ {p}, pc[q] = "read", how[q] = "locked"
        PROVE  entry'[arg[q]] = entry[arg[q]]
    <3>1. held[q] = arg[q] /\ arg[q] # None /\ arg[q] \in Keys
      BY <2>1 DEF IInv, TypeOK, LockTypes, ReadMatches
    <3>2. held[p] # arg[q]
      BY <3>1, Exclusive
    <3>3. QED
      BY <1>1, <3>1, <3>2 DEF IInv, TypeOK, FileTypes
  <2>2. QED
    BY <1>2, <2>1 DEF IInv, TypeOK, LockTypes, FileTypes, ReadMatches
<1>8. TmpMatches'
  BY <1>1, <1>2 DEF IInv, TypeOK, LockTypes, FileTypes, TmpMatches
<1>9. QED
  BY <1>3, <1>4, <1>5, <1>6, <1>7, <1>8 DEF IInv, TypeOK

(* A store creates its temporary file under its key's lock. *)
LEMMA StoreInv ==
  ASSUME IInv, NEW p \in Procs, NEW size \in Sizes, Store(p, size)
  PROVE  IInv'
<1>1. PICK e \in Entries : snap' = [snap EXCEPT ![p] = e]
  <2>1. Fresh \in Nat /\ Stale \in Nat /\ size \in Nat
    BY LimitsAssumption
  <2>2. clock \in Nat /\ Schema[p] \in Nat
    BY StockAssumption DEF IInv, TypeOK, FileTypes
  <2>3. [kind |-> "ok", schema |-> Schema[p], stored |-> clock,
         fresh |-> clock + Fresh, stale |-> clock + Fresh + Stale,
         size |-> size, used |-> clock] \in Entries
    BY <2>1, <2>2 DEF Entries
  <2>4. QED
    BY <2>3 DEF Store
<1>2. /\ pc[p] = "idle" /\ held[p] # None
      /\ pc' = [pc EXCEPT ![p] = "write"]
      /\ tmp' = [tmp EXCEPT ![p] = held[p]]
      /\ UNCHANGED <<clock, entry, orphans, keyLock, held, shared, exclusive,
                     pruner, arg, how, at, todo, kept, victim>>
  BY DEF Store, Goto, locks, pass
<1>3. LockTypes'
  BY <1>2 DEF IInv, TypeOK, LockTypes, PCs
<1>4. FileTypes'
  BY <1>1, <1>2 DEF IInv, TypeOK, FileTypes
<1>5. LocksMatch'
  BY <1>2 DEF IInv, TypeOK, LockTypes, LocksMatch
<1>6. VictimMatches'
  BY <1>2 DEF IInv, TypeOK, LockTypes, VictimMatches
<1>7. ReadMatches'
  BY <1>1, <1>2 DEF IInv, TypeOK, LockTypes, FileTypes, ReadMatches
<1>8. TmpMatches'
  BY <1>1, <1>2, NoneAssumption
  DEF IInv, TypeOK, LockTypes, FileTypes, TmpMatches
<1>9. QED
  BY <1>3, <1>4, <1>5, <1>6, <1>7, <1>8 DEF IInv, TypeOK

(* The rename puts the new entry in place under its key's lock. *)
LEMMA PersistInv ==
  ASSUME IInv, NEW p \in Procs, Persist(p)
  PROVE  IInv'
<1>1. /\ pc[p] = "write" /\ held[p] \in Keys /\ snap[p] \in Entries
      /\ pc' = [pc EXCEPT ![p] = "stored"]
      /\ tmp' = [tmp EXCEPT ![p] = None]
      /\ UNCHANGED <<clock, orphans, keyLock, held, shared, exclusive, pruner,
                     arg, how, snap, at, todo, kept, victim>>
  BY DEF Persist, Goto, locks, pass, call, IInv, TypeOK, LockTypes, FileTypes,
         LocksMatch, TmpMatches
<1>2. PICK e \in Entries : entry' = [entry EXCEPT ![held[p]] = e]
  <2>1. PICK t \in snap[p].stored .. clock :
          entry' = [entry EXCEPT ![held[p]] = [snap[p] EXCEPT !.used = t]]
    BY DEF Persist
  <2>2. t \in Int
    BY <1>1, <2>1 DEF Entries, IInv, TypeOK, FileTypes
  <2>3. [snap[p] EXCEPT !.used = t] \in Entries
    BY <1>1, <2>2 DEF Entries
  <2>4. QED
    BY <2>1, <2>3
<1>3. LockTypes'
  BY <1>1 DEF IInv, TypeOK, LockTypes, PCs
<1>4. FileTypes'
  BY <1>1, <1>2 DEF IInv, TypeOK, FileTypes
<1>5. LocksMatch'
  BY <1>1 DEF IInv, TypeOK, LockTypes, LocksMatch
<1>6. VictimMatches'
  <2>1. SUFFICES ASSUME pruner # None, pc[pruner] = "rm"
        PROVE  entry'[victim.key] = entry[victim.key]
    BY <1>1 DEF IInv, TypeOK, LockTypes, VictimMatches
  <2>2. QED
    BY <1>1, <1>2, <2>1, Exclusive DEF IInv, TypeOK, FileTypes
<1>7. ReadMatches'
  <2>1. ASSUME NEW q \in Procs \ {p}, pc[q] = "read", how[q] = "locked"
        PROVE  entry'[arg[q]] = entry[arg[q]]
    <3>1. held[q] = arg[q] /\ arg[q] # None /\ arg[q] \in Keys
      BY <2>1 DEF IInv, TypeOK, LockTypes, ReadMatches
    <3>2. held[p] # arg[q]
      BY <3>1, Exclusive
    <3>3. QED
      BY <1>1, <1>2, <3>1, <3>2 DEF IInv, TypeOK, FileTypes
  <2>2. QED
    BY <1>1, <2>1 DEF IInv, TypeOK, LockTypes, FileTypes, ReadMatches
<1>8. TmpMatches'
  BY <1>1 DEF IInv, TypeOK, LockTypes, FileTypes, TmpMatches
<1>9. QED
  BY <1>3, <1>4, <1>5, <1>6, <1>7, <1>8 DEF IInv, TypeOK

(* Prune removes a temporary file only of a key it could lock, and a       *)
(* writer's key it could not.                                              *)
LEMMA ScanTmpInv ==
  ASSUME IInv, NEW p \in Procs, NEW n \in Names, ScanTmp(p, n)
  PROVE  IInv'
<1>1. tmp' = tmp
  <2>1. ASSUME NEW q \in Procs, tmp[q] = n[1] PROVE FALSE
    <3>1. n[1] # None /\ keyLock[n[1]] = None
      BY NoneAssumption DEF Names, ScanTmp, TryKey
    <3>2. held[q] = n[1]
      BY <2>1, <3>1 DEF IInv, TmpMatches
    <3>3. keyLock[held[q]] = q
      BY <3>1, <3>2 DEF IInv, LocksMatch
    <3>4. QED
      BY <3>1, <3>2, <3>3, NoneAssumption
  <2>2. QED
    BY <2>1 DEF ScanTmp, IInv, TypeOK, LockTypes
<1>2. UNCHANGED <<clock, entry, keyLock, held, shared, exclusive, pruner, pc,
                  arg, how, snap, at, kept, victim>>
  BY DEF ScanTmp, locks, call
<1>3. FileTypes'
  BY <1>2 DEF ScanTmp, IInv, TypeOK, FileTypes
<1>4. LockTypes' /\ LocksMatch' /\ VictimMatches' /\ ReadMatches' /\ TmpMatches'
  BY <1>1, <1>2
  DEF IInv, TypeOK, LockTypes, LocksMatch, VictimMatches, ReadMatches,
      TmpMatches
<1>5. QED
  BY <1>3, <1>4 DEF IInv, TypeOK

(* Prune takes the lock of the file it is going to remove. *)
LEMMA VictimInv ==
  ASSUME IInv, NEW p \in Procs,
         Evict(p) \/ \E n \in Names : ScanEntry(p, n)
  PROVE  IInv'
<1> DEFINE Taken(k) ==
      /\ keyLock[k] = None /\ entry[k] # None
      /\ keyLock' = [keyLock EXCEPT ![k] = p]
      /\ victim' \in Victims
      /\ victim'.key = k /\ victim'.was = entry[k]
<1>1. PICK k \in Keys : Taken(k)
  <2>1. CASE Evict(p)
    <3>1. PICK r \in kept :
            /\ TryKey(r.key) /\ SameUse(r)
            /\ keyLock' = [keyLock EXCEPT ![r.key] = p]
            /\ victim' = [key |-> r.key, size |-> r.size, was |-> entry[r.key]]
      BY <2>1 DEF Evict
    <3>2. r.key \in Keys /\ r.size \in Nat
      BY DEF IInv, TypeOK, FileTypes
    <3>3. entry[r.key] # None /\ entry[r.key] \in Entries
      BY <3>1, <3>2 DEF SameUse, IInv, TypeOK, FileTypes
    <3>4. QED
      BY <3>1, <3>2, <3>3 DEF TryKey, Victims
  <2>2. ASSUME NEW n \in Names, ScanEntry(p, n)
        PROVE  \E k \in Keys : Taken(k)
    <3>1. n[1] \in Keys /\ n \in Listed /\ n[2] = "entry"
      BY <2>2 DEF ScanEntry, Names
    <3>2. entry[n[1]] # None
      BY <3>1 DEF Listed
    <3>3. entry[n[1]] \in Entries /\ entry[n[1]].size \in Nat
      BY <3>1, <3>2 DEF IInv, TypeOK, FileTypes, Entries
    <3>4. victim' = [key |-> n[1], size |-> entry[n[1]].size,
                     was |-> entry[n[1]]]
      BY <2>2 DEF ScanEntry
    <3>5. Taken(n[1])
      BY <2>2, <3>2, <3>1, <3>3, <3>4 DEF ScanEntry, TryKey, Victims
    <3>6. QED
      BY <3>1, <3>5
  <2>3. QED
    BY <2>1, <2>2
<1>2. /\ pc[p] = "prune"
      /\ pc' = [pc EXCEPT ![p] = "rm"]
      /\ todo' \subseteq todo /\ kept' \subseteq kept
      /\ UNCHANGED <<clock, entry, tmp, orphans, held, shared, exclusive,
                     pruner, arg, how, snap, at>>
  BY DEF Evict, Evicting, ScanEntry, Goto, files, call
<1>3. LockTypes'
  BY <1>1, <1>2 DEF IInv, TypeOK, LockTypes, PCs
<1>4. FileTypes'
  BY <1>1, <1>2 DEF IInv, TypeOK, FileTypes
<1>5. \A q \in Procs : held[q] # k
  BY ZenonT(30), <1>1, NoneAssumption DEF IInv, LocksMatch
<1>6. LocksMatch'
  BY <1>1, <1>2, <1>5 DEF IInv, TypeOK, LockTypes, LocksMatch
<1>7. VictimMatches'
  <2>1. pruner = p
    BY <1>2 DEF IInv, LocksMatch
  <2>2. victim' # None /\ keyLock'[k] = p
    BY <1>1, <1>4, NoneAssumption DEF IInv, TypeOK, LockTypes
  <2>3. Same(victim'.was, entry[k])
    BY <1>1 DEF Same
  <2>4. QED
    BY <1>1, <1>2, <1>5, <2>1, <2>2, <2>3 DEF VictimMatches, Same
<1>8. ReadMatches' /\ TmpMatches'
  BY <1>2 DEF IInv, TypeOK, LockTypes, ReadMatches, TmpMatches, Same
<1>9. QED
  BY <1>3, <1>4, <1>6, <1>7, <1>8 DEF IInv, TypeOK

(* Prune removes the file whose key's lock it has. *)
LEMMA RemoveInv ==
  ASSUME IInv, NEW p \in Procs, Remove(p)
  PROVE  IInv'
<1>1. /\ pc[p] = "rm" /\ pruner = p /\ pruner # None
      /\ victim.key \in Keys
      /\ \A q \in Procs : held[q] # victim.key
  BY Exclusive, NoneAssumption DEF Remove
<1>2. /\ entry' = [entry EXCEPT ![victim.key] = None]
      /\ keyLock' = [keyLock EXCEPT ![victim.key] = None]
      /\ victim' = None
      /\ pc' = [pc EXCEPT ![p] = "prune"]
      /\ UNCHANGED <<clock, tmp, orphans, held, shared, exclusive, pruner,
                     arg, how, snap, at, todo, kept>>
  BY DEF Remove, Goto, call
<1>3. LockTypes'
  BY <1>1, <1>2 DEF IInv, TypeOK, LockTypes, PCs
<1>4. FileTypes'
  BY <1>1, <1>2 DEF IInv, TypeOK, FileTypes
<1>5. LocksMatch'
  BY <1>1, <1>2 DEF IInv, TypeOK, LockTypes, LocksMatch
<1>6. VictimMatches'
  BY <1>1, <1>2 DEF IInv, TypeOK, LockTypes, VictimMatches
<1>7. ReadMatches'
  <2>1. ASSUME NEW q \in Procs, pc[q] = "read", how[q] = "locked"
        PROVE  entry'[arg[q]] = entry[arg[q]]
    BY <1>1, <1>2, <2>1 DEF IInv, TypeOK, LockTypes, FileTypes, ReadMatches
  <2>2. QED
    BY <1>1, <1>2, <2>1 DEF IInv, TypeOK, LockTypes, ReadMatches
<1>8. TmpMatches'
  BY <1>1, <1>2 DEF IInv, TypeOK, LockTypes, TmpMatches
<1>9. QED
  BY <1>3, <1>4, <1>5, <1>6, <1>7, <1>8 DEF IInv, TypeOK

(* While clear removes files nobody has a key, a victim or a temporary     *)
(* file.                                                                   *)
LEMMA ClearInv ==
  ASSUME IInv, NEW p \in Procs, NEW n \in Names, ClearRemove(p, n)
  PROVE  IInv'
<1>1. exclusive = p /\ exclusive # None
  BY NoneAssumption DEF ClearRemove, IInv, LocksMatch
<1>2. \A q \in Procs :
        held[q] = None /\ pc[q] \notin {"write", "rm"} /\ tmp[q] = None
  BY <1>1, Exclusive DEF IInv, TypeOK, LockTypes, TmpMatches
<1>3. n[1] \in Keys
  BY DEF Names
<1>4. tmp' = tmp
  BY <1>2, <1>3, NoneAssumption DEF ClearRemove, IInv, TypeOK, LockTypes
<1>5. UNCHANGED <<clock, keyLock, held, shared, exclusive, pruner, pc, arg,
                  how, snap, at, kept, victim>>
  BY DEF ClearRemove, locks, call
<1>6. LockTypes' /\ LocksMatch' /\ TmpMatches'
  BY <1>4, <1>5 DEF IInv, TypeOK, LockTypes, LocksMatch, TmpMatches
<1>7. FileTypes'
  BY <1>3, <1>5 DEF ClearRemove, IInv, TypeOK, FileTypes
<1>8. VictimMatches' /\ ReadMatches'
  BY <1>2, <1>5 DEF IInv, TypeOK, LockTypes, VictimMatches, ReadMatches
<1>9. QED
  BY <1>6, <1>7, <1>8 DEF IInv, TypeOK

(* A prune or a clear ends, and its locks go. *)
LEMMA EndInv ==
  ASSUME IInv, NEW p \in Procs,
         PruneEnd(p) \/ PruneFails(p) \/ ClearEnd(p) \/ ClearFails(p)
  PROVE  IInv'
<1>1. /\ pc[p] \in {"prune", "rm", "clear"}
      /\ pc' = [pc EXCEPT ![p] = "idle"]
      /\ arg' = [arg EXCEPT ![p] = None]
      /\ how' = [how EXCEPT ![p] = "unlocked"]
      /\ snap' = [snap EXCEPT ![p] = None]
      /\ at' = [at EXCEPT ![p] = 0]
      /\ todo' = {} /\ kept' = {} /\ victim' = None
      /\ UNCHANGED <<clock, entry, tmp, orphans, held>>
  BY DEF PruneEnd, PruneFails, ClearEnd, ClearFails, Return, Goto, EndPass,
         files
<1>2. /\ pc[p] = "clear" => exclusive' = None /\ UNCHANGED <<shared, pruner>>
      /\ pc[p] # "clear" => pruner' = None /\ UNCHANGED exclusive
                             /\ shared' = shared \ {<<p, "prune">>}
      /\ keyLock' = keyLock \/ (pc[p] = "rm" /\
           keyLock' = [keyLock EXCEPT ![victim.key] = None])
  BY DEF PruneEnd, PruneFails, DroppedHeld, ClearEnd, ClearFails
<1>3. /\ pc[p] = "clear" => exclusive = p /\ pruner # p
      /\ pc[p] # "clear" => pruner = p /\ exclusive # p
      /\ pc[p] = "rm" => victim.key \in Keys
                          /\ \A q \in Procs : held[q] # victim.key
  BY <1>1, Exclusive, NoneAssumption DEF IInv, LocksMatch
<1>4. LockTypes'
  BY <1>1, <1>2 DEF IInv, TypeOK, LockTypes, PCs
<1>5. FileTypes'
  BY <1>1 DEF IInv, TypeOK, FileTypes
<1>6. LocksMatch'
  <2>1. \A q \in Procs : held[q] # None => keyLock'[held[q]] = keyLock[held[q]]
    BY <1>2, <1>3 DEF IInv, TypeOK, LockTypes
  <2>2. \A q \in Procs \ {p} : pc'[q] = pc[q] /\ arg'[q] = arg[q]
    BY <1>1 DEF IInv, TypeOK, LockTypes
  <2>3. pc'[p] = "idle" /\ held' = held
    BY <1>1 DEF IInv, TypeOK, LockTypes
  <2>4. CASE pc[p] = "clear"
    BY <1>2, <1>3, <2>1, <2>2, <2>3, <2>4, NoneAssumption DEF IInv, LocksMatch
  <2>5. CASE pc[p] # "clear"
    BY <1>1, <1>2, <1>3, <2>1, <2>2, <2>3, <2>5, NoneAssumption
    DEF IInv, LocksMatch
  <2>6. QED
    BY <2>4, <2>5
<1>7. VictimMatches'
  <2>1. CASE pc[p] = "clear"
    <3>1. pruner' = pruner
      BY <1>2, <2>1
    <3>2. pruner = None \/ pc[pruner] # "rm"
      BY <1>3, <2>1, Exclusive, NoneAssumption DEF IInv, TypeOK, LockTypes
    <3>3. QED
      BY <1>1, <1>3, <2>1, <3>1, <3>2
      DEF VictimMatches, IInv, TypeOK, LockTypes
  <2>2. CASE pc[p] # "clear"
    BY <1>2, <2>2 DEF VictimMatches
  <2>3. QED
    BY <2>1, <2>2
<1>8. ReadMatches'
  BY <1>1 DEF IInv, TypeOK, LockTypes, FileTypes, ReadMatches
<1>9. TmpMatches'
  BY <1>1 DEF IInv, TypeOK, LockTypes, FileTypes, TmpMatches
<1>10. QED
  BY <1>4, <1>5, <1>6, <1>7, <1>8, <1>9 DEF IInv, TypeOK

(* A process dies: its locks go, and its temporary file becomes an orphan. *)
LEMMA CrashInv ==
  ASSUME IInv, NEW p \in Procs, Crash(p)
  PROVE  IInv'
<1>1. /\ pc' = [pc EXCEPT ![p] = "idle"]
      /\ arg' = [arg EXCEPT ![p] = None]
      /\ how' = [how EXCEPT ![p] = "unlocked"]
      /\ snap' = [snap EXCEPT ![p] = None]
      /\ at' = [at EXCEPT ![p] = 0]
      /\ tmp' = [tmp EXCEPT ![p] = None]
      /\ held' = [held EXCEPT ![p] = None]
      /\ UNCHANGED <<clock, entry>>
  BY DEF Crash, Return, Goto
<1>2. /\ keyLock' = [k \in Keys |-> IF keyLock[k] = p THEN None ELSE keyLock[k]]
      /\ shared' = shared \ {<<p, "key">>, <<p, "prune">>}
      /\ exclusive' = IF exclusive = p THEN None ELSE exclusive
      /\ pruner' = IF pruner = p THEN None ELSE pruner
  BY DEF Crash
<1>3. LockTypes'
  BY <1>1, <1>2 DEF IInv, TypeOK, LockTypes, PCs
<1>4. FileTypes'
  <2>1. todo' \subseteq todo /\ kept' \subseteq kept /\ victim' \in {victim, None}
    BY DEF Crash, EndPass, pass
  <2>2. orphans' \subseteq Keys
    BY DEF Crash, IInv, TypeOK, LockTypes, FileTypes
  <2>3. QED
    BY <1>1, <2>1, <2>2 DEF IInv, TypeOK, FileTypes
<1>5. \A q \in Procs \ {p} :
        /\ pc'[q] = pc[q] /\ arg'[q] = arg[q] /\ held'[q] = held[q]
        /\ held[q] # None => keyLock'[held[q]] = keyLock[held[q]]
  <2>1. ASSUME NEW q \in Procs \ {p}
        PROVE  pc'[q] = pc[q] /\ arg'[q] = arg[q] /\ held'[q] = held[q]
    BY <1>1 DEF IInv, TypeOK, LockTypes
  <2>2. ASSUME NEW q \in Procs \ {p}, held[q] # None
        PROVE  keyLock'[held[q]] = keyLock[held[q]]
    <3>1. held[q] \in Keys
      BY <2>2 DEF IInv, TypeOK, LockTypes
    <3>2. keyLock[held[q]] = q
      BY <2>2 DEF IInv, LocksMatch
    <3>3. QED
      BY <1>2, <3>1, <3>2
  <2>3. QED
    BY <2>1, <2>2
<1>6. pc'[p] = "idle" /\ held'[p] = None
  BY <1>1 DEF IInv, TypeOK, LockTypes
<1>7. LocksMatch'
  BY <1>2, <1>5, <1>6, NoneAssumption DEF IInv, LocksMatch
<1>8. VictimMatches'
  <2>1. SUFFICES ASSUME pruner' # None, pc'[pruner'] = "rm"
        PROVE  VictimMatches'
    BY DEF VictimMatches
  <2>2. pruner' = pruner /\ pruner # p /\ pruner \in Procs
    BY <1>2, <2>1 DEF IInv, TypeOK, LockTypes
  <2>3. pc[pruner] = "rm"
    BY <1>5, <2>1, <2>2
  <2>4. exclusive = None
    BY <2>2, <2>3, Exclusive
  <2>5. victim' = victim
    BY <2>2, <2>4, NoneAssumption DEF Crash, pass
  <2>6. keyLock'[victim.key] = keyLock[victim.key]
    <3>1. victim.key \in Keys /\ keyLock[victim.key] = pruner
      BY <2>1, <2>2, <2>3, Exclusive, NoneAssumption DEF IInv, VictimMatches
    <3>2. QED
      BY <1>2, <2>2, <3>1
  <2>7. QED
    BY <1>1, <1>5, <2>2, <2>3, <2>5, <2>6, NoneAssumption
    DEF IInv, VictimMatches
<1>9. ReadMatches'
  BY <1>1 DEF IInv, TypeOK, LockTypes, FileTypes, ReadMatches
<1>10. TmpMatches'
  BY <1>1 DEF IInv, TypeOK, LockTypes, FileTypes, TmpMatches
<1>11. QED
  BY <1>3, <1>4, <1>7, <1>8, <1>9, <1>10 DEF IInv, TypeOK

(* The root as earlier processes left it, with nobody in it. *)
LEMMA InitInv == Init => IInv
<1> SUFFICES ASSUME Init PROVE IInv
  OBVIOUS
<1>1. LockTypes
  BY DEF Init, LockTypes, PCs
<1>2. FileTypes
  BY StockAssumption DEF Init, FileTypes
<1>3. LocksMatch
  BY NoneAssumption DEF Init, LocksMatch
<1>4. VictimMatches /\ ReadMatches /\ TmpMatches
  BY DEF Init, VictimMatches, ReadMatches, TmpMatches
<1>5. QED
  BY <1>1, <1>2, <1>3, <1>4 DEF IInv, TypeOK

(* Cache::lock takes a key nobody has. *)
LEMMA TakeInv ==
  ASSUME IInv, NEW p \in Procs, TakeKey(p)
  PROVE  IInv'
<1>1. /\ pc[p] = "wantkey" /\ keyLock[arg[p]] = None
      /\ keyLock' = [keyLock EXCEPT ![arg[p]] = p]
      /\ held' = [held EXCEPT ![p] = arg[p]]
      /\ pc' = [pc EXCEPT ![p] = "idle"]
      /\ arg' = [arg EXCEPT ![p] = None]
      /\ how' = [how EXCEPT ![p] = "unlocked"]
      /\ snap' = [snap EXCEPT ![p] = None]
      /\ at' = [at EXCEPT ![p] = 0]
      /\ UNCHANGED <<clock, entry, tmp, orphans, shared, exclusive, pruner,
                     todo, kept, victim>>
  BY DEF TakeKey, Return, Goto, files, pass
<1>2. LockTypes'
  BY <1>1 DEF IInv, TypeOK, LockTypes, PCs
<1>3. FileTypes'
  BY <1>1 DEF IInv, TypeOK, FileTypes
<1>4. arg[p] \in Keys /\ \A q \in Procs : held[q] # arg[p]
  <2>1. arg[p] # None /\ arg[p] \in Keys
    <3>1. arg[p] # None
      BY <1>1 DEF IInv, LocksMatch
    <3>2. arg[p] \in Keys \cup {None}
      BY DEF IInv, TypeOK, LockTypes
    <3>3. QED
      BY <3>1, <3>2
  <2>2. ASSUME NEW q \in Procs, held[q] = arg[p] PROVE FALSE
    <3>1. keyLock[held[q]] = q
      BY <2>1, <2>2 DEF IInv, LocksMatch
    <3>2. QED
      BY <1>1, <2>2, <3>1, NoneAssumption
  <2>3. QED
    BY <2>1, <2>2
<1>5. LocksMatch'
  BY <1>1, <1>4 DEF IInv, TypeOK, LockTypes, LocksMatch
<1>6. VictimMatches'
  <2>1. SUFFICES ASSUME pruner # None, pc[pruner] = "rm"
        PROVE  /\ keyLock'[victim.key] = keyLock[victim.key]
               /\ held'[pruner] = held[pruner]
    BY <1>1 DEF IInv, TypeOK, LockTypes, VictimMatches
  <2>2. pruner # p
    BY <1>1, <2>1
  <2>3. victim.key # arg[p]
    BY <1>1, <2>1 DEF IInv, VictimMatches
  <2>4. QED
    BY <1>1, <2>1, <2>2, <2>3, Exclusive DEF IInv, TypeOK, LockTypes
<1>7. ReadMatches'
  BY <1>1 DEF IInv, TypeOK, LockTypes, FileTypes, ReadMatches
<1>8. TmpMatches'
  BY <1>1 DEF IInv, TypeOK, LockTypes, FileTypes, TmpMatches
<1>9. QED
  BY <1>2, <1>3, <1>5, <1>6, <1>7, <1>8 DEF IInv, TypeOK

(* The steps that take a lock, or change nothing the invariant speaks of. *)
LEMMA QuietInv ==
  ASSUME IInv, NEW p \in Procs,
         \/ \E k \in Keys :
              Lock(p, k) \/ \E m \in {"locked", "unlocked"} : Lookup(p, k, m)
         \/ Hit(p) \/ Touch(p) \/ Maintain(p) \/ Prune(p)
         \/ PruneShared(p) \/ PruneDeferred(p) \/ PruneBegin(p)
         \/ \E n \in Names : ScanSkip(p, n) \/ ScanKeep(p, n)
         \/ EvictSkip(p) \/ Clear(p) \/ CallFails(p)
  PROVE  IInv'
<1> USE NoneAssumption
    DEF IInv, TypeOK, LockTypes, FileTypes, LocksMatch, VictimMatches,
        ReadMatches, TmpMatches, PCs, files, locks, call, pass, Goto
<1>1. ASSUME NEW k \in Keys, Lock(p, k) PROVE IInv'
  BY <1>1 DEF Lock, MaintenanceShared
<1>2. ASSUME NEW k \in Keys, NEW m \in {"locked", "unlocked"}, Lookup(p, k, m) PROVE IInv'
  BY <1>2 DEF Lookup, Same
<1>3. ASSUME Hit(p) PROVE IInv'
  BY <1>3 DEF Hit, Return
<1>4. ASSUME Touch(p) PROVE IInv'
  BY <1>4 DEF Touch, Return, Same, Entries
<1>5. ASSUME Maintain(p) PROVE IInv'
  BY <1>5 DEF Maintain, Return
<1>6. ASSUME Prune(p) PROVE IInv'
  BY <1>6 DEF Prune
<1>7. ASSUME PruneShared(p) PROVE IInv'
  BY <1>7 DEF PruneShared, MaintenanceShared
<1>8. ASSUME PruneDeferred(p) PROVE IInv'
  BY <1>8 DEF PruneDeferred, Return
<1>9. ASSUME PruneBegin(p) PROVE IInv'
  BY <1>9 DEF PruneBegin, ReadDir, Listed, Names
<1>10. ASSUME NEW n \in Names, ScanSkip(p, n) PROVE IInv'
  BY <1>10 DEF ScanSkip
<1>11. ASSUME NEW n \in Names, ScanKeep(p, n) PROVE IInv'
  BY <1>11 DEF ScanKeep, Names, Listed, Entries
<1>12. ASSUME EvictSkip(p) PROVE IInv'
  BY <1>12 DEF EvictSkip
<1>13. ASSUME Clear(p) PROVE IInv'
  BY <1>13 DEF Clear, Listed, Names
<1>14. ASSUME CallFails(p) PROVE IInv'
  BY <1>14 DEF CallFails, Return
<1> HIDE DEF IInv, TypeOK, LockTypes, FileTypes, LocksMatch, VictimMatches,
        ReadMatches, TmpMatches, PCs, files, locks, call, pass, Goto
<1>15. QED
  BY <1>1, <1>2, <1>3, <1>4, <1>5, <1>6, <1>7, <1>8, <1>9,
     <1>10, <1>11, <1>12, <1>13, <1>14

(* Every step keeps the invariant. *)
LEMMA NextInv == IInv /\ [Next]_vars => IInv'
<1>1. ASSUME IInv, UNCHANGED vars PROVE IInv'
  BY <1>1
  DEF vars, files, locks, call, pass, IInv, TypeOK, LockTypes, FileTypes,
      LocksMatch, VictimMatches, ReadMatches, TmpMatches
<1>2. ASSUME IInv, Tick PROVE IInv'
  BY <1>2
  DEF Tick, files, locks, call, pass, IInv, TypeOK, LockTypes, FileTypes,
      LocksMatch, VictimMatches, ReadMatches, TmpMatches
<1>3. ASSUME IInv, NEW p \in Procs, PruneStep(p) PROVE IInv'
  BY <1>3, QuietInv, ScanTmpInv, VictimInv, RemoveInv, EndInv DEF PruneStep
<1>4. ASSUME IInv, NEW p \in Procs, ClearStep(p) PROVE IInv'
  BY <1>4, ClearInv, EndInv DEF ClearStep
<1>5. QED
  BY <1>1, <1>2, <1>3, <1>4, QuietInv, DropInv, MissInv, StoreInv, PersistInv,
     EndInv, CrashInv, TakeInv
  DEF Next

(* IInv holds in every reachable state: every lock has one owner, and what *)
(* its owner looked at is still there.                                     *)
THEOREM Inductive == Spec => []IInv
  BY InitInv, NextInv, PTL DEF Spec

(* KeyLock::store finds its temporary file at the rename: no prune and no  *)
(* clear removed it.                                                       *)
THEOREM TmpKept == Spec => []WriterKeepsTmp
<1>1. IInv => WriterKeepsTmp
  BY DEF IInv, TmpMatches, WriterKeepsTmp
<1>2. QED
  BY <1>1, Inductive, PTL

(* What `lock`, `store`, `prune` and `clear` take goes with the call that  *)
(* took it or is a KeyLock's, on every way out: an error, a busy lock or   *)
(* the process's death included.                                           *)
LEMMA OwnedNext ==
  ASSUME IInv, LocksAreOwned, [Next]_vars, NEW q \in Procs
  PROVE  /\ \A k \in Keys : keyLock'[k] = q =>
              held'[q] = k \/ (pc'[q] = "rm" /\ victim'.key = k)
         /\ <<q, "key">> \in shared' => held'[q] # None \/ pc'[q] = "wantkey"
         /\ <<q, "prune">> \in shared' => pc'[q] \in {"wantprune", "prune", "rm"}
<1> DEFINE Owned ==
      /\ \A k \in Keys : keyLock'[k] = q =>
           held'[q] = k \/ (pc'[q] = "rm" /\ victim'.key = k)
      /\ <<q, "key">> \in shared' => held'[q] # None \/ pc'[q] = "wantkey"
      /\ <<q, "prune">> \in shared' => pc'[q] \in {"wantprune", "prune", "rm"}
<1>1. /\ keyLock \in [Keys -> Procs \cup {None}]
      /\ held \in [Procs -> Keys \cup {None}]
      /\ pc \in [Procs -> PCs]
      /\ None \notin Procs /\ None \notin Keys
  BY NoneAssumption DEF IInv, TypeOK, LockTypes
<1>2. /\ \A k \in Keys : keyLock[k] = q =>
           held[q] = k \/ (pc[q] = "rm" /\ victim.key = k)
      /\ <<q, "key">> \in shared => held[q] # None \/ pc[q] = "wantkey"
      /\ <<q, "prune">> \in shared => pc[q] \in {"wantprune", "prune", "rm"}
  BY DEF LocksAreOwned
<1>3. \A p \in Procs : pc[p] \in {"prune", "rm", "clear"} /\ p # q => pc[q] # "rm"
  <2>1. ASSUME NEW p \in Procs, pc[p] \in {"prune", "rm"}, pc[q] = "rm" PROVE p = q
    BY <2>1 DEF IInv, LocksMatch
  <2>2. ASSUME NEW p \in Procs, pc[p] = "clear" PROVE pc[q] # "rm"
    <3>1. exclusive # None
      BY <2>2, NoneAssumption DEF IInv, LocksMatch
    <3>2. QED
      BY <3>1, Exclusive
  <2>3. QED
    BY <2>1, <2>2
<1> USE DEF files, locks, call, pass, Goto
<1>4. ASSUME UNCHANGED vars \/ Tick PROVE Owned
  BY <1>2, <1>4 DEF vars, Tick
<1>5. ASSUME NEW p \in Procs, NEW k \in Keys,
             Lock(p, k) \/ \E m \in {"locked", "unlocked"} : Lookup(p, k, m)
      PROVE  Owned
  BY <1>1, <1>2, <1>5 DEF Lock, Lookup
<1>6. ASSUME NEW p \in Procs, TakeKey(p) PROVE Owned
  <2>1. arg[p] # None /\ held[p] = None
    BY <1>6 DEF TakeKey, IInv, LocksMatch
  <2>2. arg[p] \in Keys
    BY <2>1 DEF IInv, TypeOK, LockTypes
  <2>3. QED
    BY <1>1, <1>2, <1>6, <2>1, <2>2 DEF TakeKey, Return
<1>7. ASSUME NEW p \in Procs,
             \/ Unlock(p) \/ StoreUnlock(p) \/ StoreFails(p)
             \/ \E size \in Sizes : TooLarge(p, size)
      PROVE  Owned
  <2>1. held[p] \in Keys /\ DropKeyLock(p) /\ pc[p] \in {"idle", "write", "stored"}
    BY <1>7 DEF Unlock, StoreUnlock, StoreFails, TooLarge, IInv, TypeOK,
                LockTypes, LocksMatch
  <2>2. pc'[q] = pc[q] \/ (q = p /\ pc[q] \in {"idle", "write", "stored"})
    BY <1>1, <1>7, <2>1 DEF Unlock, StoreUnlock, StoreFails, TooLarge, Return
  <2>3. victim' = victim
    BY <1>7 DEF Unlock, StoreUnlock, StoreFails, TooLarge
  <2>4. QED
    BY <1>1, <1>2, <2>1, <2>2, <2>3 DEF DropKeyLock
<1>8. ASSUME NEW p \in Procs, Miss(p) \/ Hit(p) \/ Touch(p) \/ Maintain(p)
      PROVE  Owned
  BY <1>1, <1>2, <1>8 DEF Miss, Hit, Touch, Maintain, Return
<1>9. ASSUME NEW p \in Procs,
             Persist(p) \/ Prune(p) \/ \E size \in Sizes : Store(p, size)
      PROVE  Owned
  BY <1>1, <1>2, <1>9 DEF Persist, Prune, Store
<1>10. ASSUME NEW p \in Procs, PruneShared(p) \/ PruneBegin(p) PROVE Owned
  BY <1>1, <1>2, <1>10 DEF PruneShared, PruneBegin
<1>11. ASSUME NEW p \in Procs, PruneDeferred(p) \/ CallFails(p) PROVE Owned
  BY <1>1, <1>2, <1>11 DEF PruneDeferred, CallFails, Return
<1>12. ASSUME NEW p \in Procs, NEW n \in Names,
              \/ ScanSkip(p, n) \/ ScanTmp(p, n) \/ ScanKeep(p, n)
              \/ ClearRemove(p, n)
       PROVE  Owned
  BY <1>2, <1>12 DEF ScanSkip, ScanTmp, ScanKeep, ClearRemove
<1>13. ASSUME NEW p \in Procs, EvictSkip(p) \/ Clear(p) PROVE Owned
  BY <1>1, <1>2, <1>13 DEF EvictSkip, Clear
<1>14. ASSUME NEW p \in Procs, Evict(p) \/ \E n \in Names : ScanEntry(p, n)
       PROVE  Owned
  <2>1. pc[p] = "prune" /\ pc' = [pc EXCEPT ![p] = "rm"]
        /\ held' = held /\ shared' = shared
    BY <1>14 DEF Evict, Evicting, ScanEntry
  <2>2. PICK k : keyLock' = [keyLock EXCEPT ![k] = p] /\ victim'.key = k
    BY <1>14 DEF Evict, ScanEntry
  <2>3. QED
    BY <1>1, <1>2, <1>3, <2>1, <2>2
<1>15. ASSUME NEW p \in Procs, Remove(p) PROVE Owned
  BY <1>1, <1>2, <1>3, <1>15 DEF Remove
<1>16. ASSUME NEW p \in Procs,
              PruneEnd(p) \/ PruneFails(p) \/ ClearEnd(p) \/ ClearFails(p)
       PROVE  Owned
  <2>1. /\ pc[p] \in {"prune", "rm", "clear"} /\ held' = held
        /\ pc' = [pc EXCEPT ![p] = "idle"]
        /\ pc[p] = "rm" => keyLock' = [keyLock EXCEPT ![victim.key] = None]
        /\ pc[p] # "rm" => keyLock' = keyLock
        /\ pc[p] = "clear" => shared' = shared
        /\ pc[p] # "clear" => shared' = shared \ {<<p, "prune">>}
    BY <1>16
    DEF PruneEnd, PruneFails, DroppedHeld, ClearEnd, ClearFails, Return
  <2>2. QED
    BY <1>1, <1>2, <1>3, <2>1
<1>17. ASSUME NEW p \in Procs, Crash(p) PROVE Owned
  <2>1. /\ pc' = [pc EXCEPT ![p] = "idle"] /\ held' = [held EXCEPT ![p] = None]
        /\ shared' = shared \ {<<p, "key">>, <<p, "prune">>}
        /\ keyLock' = [k \in Keys |-> IF keyLock[k] = p THEN None ELSE keyLock[k]]
    BY <1>17 DEF Crash, Return
  <2>2. q # p /\ pc[q] = "rm" => victim' = victim
    <3>1. ASSUME q # p, pc[q] = "rm" PROVE p \notin {pruner, exclusive}
      BY <1>3, <3>1 DEF IInv, LocksMatch
    <3>2. QED
      BY <1>17, <3>1 DEF Crash
  <2>3. QED
    BY <1>1, <1>2, <2>1, <2>2
<1> HIDE DEF files, locks, call, pass, Goto, Owned
<1>18. Owned
  BY <1>4, <1>5, <1>6, <1>7, <1>8, <1>9, <1>10, <1>11, <1>12, <1>13, <1>14,
     <1>15, <1>16, <1>17
  DEF Next, PruneStep, ClearStep
<1>19. QED
  BY <1>18 DEF Owned

(* No lock of the cache outlives the call or the KeyLock that took it,     *)
(* although any call may fail at any point and any process may die.        *)
THEOREM LocksOwned == Spec => []LocksAreOwned
<1>1. Init => LocksAreOwned
  BY NoneAssumption DEF Init, LocksAreOwned
<1>2. IInv /\ IInv' /\ LocksAreOwned /\ [Next]_vars => LocksAreOwned'
  <2>1. SUFFICES ASSUME IInv, IInv', LocksAreOwned, [Next]_vars, NEW q \in Procs
        PROVE  /\ pruner' = q => pc'[q] \in {"prune", "rm"}
               /\ exclusive' = q => pc'[q] = "clear"
    BY OwnedNext DEF LocksAreOwned
  <2>2. QED
    BY <2>1 DEF IInv, LocksMatch
<1>3. QED
  BY <1>1, <1>2, Inductive, PTL DEF Spec

(* No entry is removed except the one its remover judged under the key's   *)
(* lock, outside clear: the file a writer just put there never goes for    *)
(* what was known of the one before it.                                    *)
THEOREM RemovesJudged == Spec => RemovesWhatItJudged
<1>1. IInv /\ [Next]_vars => [JudgedStep]_vars
  <2>1. SUFFICES ASSUME IInv, Next, NEW k \in Keys, entry[k] # None,
                        entry'[k] = None, exclusive = None
        PROVE  \/ victim # None /\ victim.key = k /\ Same(victim.was, entry[k])
               \/ \E p \in Procs : /\ pc[p] = "read" /\ arg[p] = k
                                    /\ held[p] = k /\ Same(snap[p], entry[k])
    BY DEF JudgedStep
  <2>2. entry' # entry
    BY <2>1
  <2>3. PICK p \in Procs :
          \/ Miss(p) \/ Touch(p) \/ Persist(p) \/ Remove(p)
          \/ \E n \in Names : ClearRemove(p, n)
    <3>1. ASSUME NEW p \in Procs, PruneStep(p)
          PROVE  entry' = entry \/ Remove(p)
      BY <3>1
      DEF PruneStep, files, PruneShared, PruneDeferred, PruneBegin, ScanSkip,
          ScanTmp, ScanEntry, ScanKeep, EvictSkip, Evict, PruneEnd
    <3>2. ASSUME NEW p \in Procs, ClearStep(p)
          PROVE  entry' = entry \/ \E n \in Names : ClearRemove(p, n)
      BY <3>2 DEF ClearStep, files, ClearEnd
    <3>3. ASSUME NEW p \in Procs,
                 \/ \E k_1 \in Keys : \/ Lock(p, k_1)
                                     \/ \E m \in {"locked", "unlocked"} :
                                          Lookup(p, k_1, m)
                 \/ \E size \in Sizes : TooLarge(p, size) \/ Store(p, size)
                 \/ TakeKey(p) \/ Unlock(p) \/ Hit(p)
                 \/ StoreFails(p) \/ StoreUnlock(p) \/ Maintain(p)
                 \/ Prune(p) \/ PruneFails(p) \/ Clear(p) \/ ClearFails(p)
                 \/ CallFails(p) \/ Crash(p)
          PROVE  entry' = entry
      BY <3>3
      DEF files, Lock, Lookup, TooLarge, Store, TakeKey, Unlock, Hit,
          StoreFails, StoreUnlock, Maintain, Prune, PruneFails, Clear,
          ClearFails, CallFails, Crash
    <3>4. Tick => entry' = entry
      BY DEF Tick, files
    <3>5. QED
      BY <2>1, <2>2, <3>1, <3>2, <3>3, <3>4 DEF Next
  <2>4. CASE Miss(p)
    <3>1. how[p] = "locked" /\ arg[p] = k
      BY <2>1, <2>4 DEF Miss, Discard, IInv, TypeOK, LockTypes, FileTypes
    <3>2. pc[p] = "read" /\ held[p] = k /\ Same(snap[p], entry[k])
      BY <2>1, <2>4, <3>1 DEF Miss, IInv, ReadMatches
    <3>3. QED
      BY <3>1, <3>2
  <2>5. CASE Touch(p)
    <3>1. entry'[k] \in {entry[k], [entry[k] EXCEPT !.used = at[p]]}
      BY <2>1, <2>5 DEF Touch, IInv, TypeOK, FileTypes
    <3>2. [entry[k] EXCEPT !.used = at[p]] \in Entries
      BY <2>1 DEF IInv, TypeOK, FileTypes, Entries
    <3>3. QED
      BY <2>1, <3>1, <3>2, NoneAssumption
  <2>6. CASE Persist(p)
    <3>1. snap[p] \in Entries
      BY <2>1, <2>6 DEF Persist, IInv, TypeOK, FileTypes, TmpMatches
    <3>2. PICK t \in snap[p].stored .. clock :
            entry' = [entry EXCEPT ![held[p]] = [snap[p] EXCEPT !.used = t]]
      BY <2>6 DEF Persist
    <3>3. t \in Int
      BY <2>1, <3>1, <3>2 DEF Entries, IInv, TypeOK, FileTypes
    <3>4. [snap[p] EXCEPT !.used = t] \in Entries
      BY <3>1, <3>3 DEF Entries
    <3>5. entry'[k] \in {entry[k], [snap[p] EXCEPT !.used = t]}
      BY <2>1, <3>2 DEF IInv, TypeOK, FileTypes
    <3>6. QED
      BY <2>1, <3>4, <3>5, NoneAssumption
  <2>7. CASE Remove(p)
    <3>1. victim.key = k
      BY <2>1, <2>7 DEF Remove, IInv, TypeOK, FileTypes
    <3>2. pruner = p /\ pruner # None /\ pc[pruner] = "rm"
      BY <2>1, <2>7, Exclusive, NoneAssumption DEF Remove
    <3>3. QED
      BY <2>1, <3>1, <3>2 DEF IInv, VictimMatches
  <2>8. CASE \E n \in Names : ClearRemove(p, n)
    BY <2>1, <2>8, NoneAssumption DEF ClearRemove, IInv, LocksMatch
  <2>9. QED
    BY <2>3, <2>4, <2>5, <2>6, <2>7, <2>8
<1>2. QED
  BY <1>1, Inductive, PTL DEF Spec, RemovesWhatItJudged
-----------------------------------------------------------------------------
(* A pass over the directory: what a clear and an undisturbed prune leave. *)

(* While nobody has a KeyLock, no call but a prune's, a clear's or a touch *)
(* changes a file or a key's lock.                                         *)
LEMMA NoKeyNoChange ==
  ASSUME IInv, \A q \in Procs : held[q] = None, NEW p \in Procs,
         \/ \E k \in Keys :
              Lock(p, k) \/ \E m \in {"locked", "unlocked"} : Lookup(p, k, m)
         \/ \E size \in Sizes : TooLarge(p, size) \/ Store(p, size)
         \/ Unlock(p) \/ Miss(p) \/ Hit(p) \/ Persist(p) \/ StoreFails(p)
         \/ StoreUnlock(p) \/ Maintain(p) \/ Prune(p) \/ PruneShared(p)
         \/ PruneDeferred(p) \/ CallFails(p)
  PROVE  /\ UNCHANGED <<entry, tmp, orphans, keyLock, held, exclusive, pruner,
                        pass, calm>>
         /\ pc[p] \notin {"prune", "rm"}
         /\ \A q \in Procs \ {p} : pc'[q] = pc[q]
<1>1. held[p] = None /\ pc[p] \notin {"write", "stored"}
  BY DEF IInv, LocksMatch
<1>2. CASE Miss(p)
  <2>1. pc[p] = "read" /\ how[p] # "locked"
    BY <1>1, <1>2 DEF Miss, IInv, ReadMatches
  <2>2. QED
    BY <1>2, <2>1
    DEF Miss, Discard, Return, Goto, locks, IInv, TypeOK, LockTypes
<1>3. ASSUME NEW k \in Keys,
             Lock(p, k) \/ \E m \in {"locked", "unlocked"} : Lookup(p, k, m)
      PROVE  /\ UNCHANGED <<entry, tmp, orphans, keyLock, held, exclusive,
                            pruner, pass, calm>>
             /\ pc[p] \notin {"prune", "rm"}
             /\ \A q \in Procs \ {p} : pc'[q] = pc[q]
  BY <1>3 DEF Lock, Lookup, Goto, files, locks, IInv, TypeOK, LockTypes
<1>4. CASE Hit(p) \/ Maintain(p) \/ Prune(p) \/ PruneShared(p)
             \/ PruneDeferred(p) \/ CallFails(p)
  BY <1>4
  DEF Hit, Maintain, Prune, PruneShared, PruneDeferred, CallFails, Return,
      Goto, files, locks, IInv, TypeOK, LockTypes
<1>5. ~(Unlock(p) \/ Persist(p) \/ StoreFails(p) \/ StoreUnlock(p)
          \/ \E size \in Sizes : TooLarge(p, size) \/ Store(p, size))
  BY <1>1 DEF Unlock, Persist, StoreFails, StoreUnlock, TooLarge, Store
<1>6. QED
  BY <1>2, <1>3, <1>4, <1>5

(* A use recorded, by a reader without any lock, changes no file but in    *)
(* its time.                                                               *)
LEMMA TouchKeeps ==
  ASSUME IInv, NEW p \in Procs, Touch(p), NEW k \in Keys
  PROVE  entry'[k] = None <=> entry[k] = None
<1>1. CASE entry[k] = None
  BY <1>1 DEF Touch, IInv, TypeOK, FileTypes
<1>2. CASE entry[k] # None
  <2>1. entry'[k] \in {entry[k], [entry[k] EXCEPT !.used = at[p]]}
    BY <1>2 DEF Touch, IInv, TypeOK, FileTypes
  <2>2. [entry[k] EXCEPT !.used = at[p]] \in Entries
    BY <1>2 DEF IInv, TypeOK, FileTypes, Entries
  <2>3. QED
    BY <1>2, <2>1, <2>2, NoneAssumption
<1>3. QED
  BY <1>1, <1>2

(* While a clear runs no file appears that it has not listed, because      *)
(* every writer and every prune waits for maintenance.lock.                *)
LEMMA ClearKept == IInv /\ ClearLists /\ [Next]_vars => ClearLists'
<1> DEFINE Covered ==
      /\ \A k \in Keys : entry[k] # None => <<k, "entry">> \in todo
      /\ \A k \in orphans : <<k, "tmp">> \in todo
      /\ \A q \in Procs : tmp[q] # None => <<tmp[q], "tmp">> \in todo
<1>1. ClearLists <=> (exclusive # None => Covered)
  BY DEF ClearLists, Listed
<1>2. ClearLists' <=> (exclusive' # None => Covered')
  BY DEF ClearLists, Listed
<1>3. SUFFICES ASSUME IInv, ClearLists, [Next]_vars, exclusive' # None
      PROVE  Covered'
  BY <1>2
<1> HIDE DEF Covered
<1>4. CASE UNCHANGED vars \/ Tick
  BY <1>1, <1>3, <1>4 DEF Covered, Tick, vars, files, locks, pass
<1>5. ASSUME NEW p \in Procs, Clear(p) PROVE Covered'
  BY <1>5 DEF Covered, Clear, Listed, files
<1>6. ASSUME NEW p \in Procs, ClearEnd(p) \/ ClearFails(p) PROVE FALSE
  BY <1>3, <1>6 DEF ClearEnd, ClearFails
<1>7. ASSUME NEW p \in Procs, Crash(p)
      PROVE  Covered'
  <2>1. exclusive # None /\ exclusive # p
    BY <1>3, <1>7 DEF Crash
  <2>2. pruner # p /\ tmp[p] = None
    BY <2>1, Exclusive, <1>3 DEF IInv, LocksMatch, TmpMatches
  <2>3. UNCHANGED <<entry, tmp, orphans, todo>>
    BY <1>3, <1>7, <2>1, <2>2
    DEF Crash, pass, IInv, TypeOK, LockTypes
  <2>4. QED
    BY <1>1, <1>3, <2>1, <2>3 DEF Covered
<1>8. ASSUME NEW p \in Procs,
             \/ \E k \in Keys :
                  Lock(p, k) \/ \E m \in {"locked", "unlocked"} : Lookup(p, k, m)
             \/ \E size \in Sizes : TooLarge(p, size) \/ Store(p, size)
             \/ TakeKey(p) \/ Unlock(p) \/ Miss(p) \/ Hit(p) \/ Touch(p)
             \/ Persist(p) \/ StoreFails(p) \/ StoreUnlock(p) \/ Maintain(p)
             \/ Prune(p) \/ PruneStep(p) \/ PruneFails(p)
             \/ (\E n \in Names : ClearRemove(p, n)) \/ CallFails(p)
      PROVE  Covered'
  <2> exclusive' = exclusive
    BY <1>8
    DEF Lock, Lookup, TooLarge, Store, TakeKey, Unlock, DropKeyLock, Miss, Hit,
        Touch, Persist, StoreFails, StoreUnlock, Maintain, Prune, PruneStep,
        PruneShared, PruneDeferred, PruneBegin, ScanSkip, ScanTmp, ScanEntry,
        ScanKeep, Remove, EvictSkip, Evict, PruneEnd, PruneFails, ClearRemove,
        CallFails, locks
  <2>1. /\ Covered
        /\ \A q \in Procs : /\ held[q] = None
                            /\ pc[q] \notin {"wantkey", "wantprune", "prune", "rm"}
    BY <1>1, <1>3, Exclusive
  <2>2. CASE Touch(p)
    BY <1>3, <2>1, <2>2, TouchKeeps DEF Touch, pass, Covered
  <2>3. ASSUME NEW n \in Names, ClearRemove(p, n) PROVE Covered'
    <3>1. n[1] \in Keys /\ n \in Names /\ n = <<n[1], n[2]>>
      BY DEF Names
    <3>2. CASE n[2] = "entry"
      BY <1>3, <2>1, <2>3, <3>1, <3>2
      DEF ClearRemove, Covered, IInv, TypeOK, FileTypes
    <3>3. CASE n[2] # "entry"
      <4>1. n[2] = "tmp"
        BY <3>1, <3>3 DEF Names
      <4>2. QED
        BY <1>3, <2>1, <2>3, <3>1, <3>3, <4>1
        DEF ClearRemove, Covered, IInv, TypeOK, LockTypes, FileTypes
    <3>4. QED
      BY <3>2, <3>3
  <2>4. ~TakeKey(p) /\ ~PruneFails(p)
    BY <2>1 DEF TakeKey, PruneFails
  <2>5. ASSUME PruneStep(p) PROVE PruneShared(p) \/ PruneDeferred(p)
    BY <2>1, <2>5
    DEF PruneStep, PruneBegin, ScanSkip, ScanTmp, ScanEntry, ScanKeep, Remove,
        EvictSkip, Evict, Evicting, PruneEnd
  <2>6. QED
    BY <1>3, <1>8, <2>1, <2>2, <2>3, <2>4, <2>5, NoKeyNoChange
    DEF Covered, pass
<1>9. QED
  BY <1>3, <1>4, <1>5, <1>6, <1>7, <1>8 DEF Next, ClearStep

(* Clear leaves nothing: its listing, made before it removes the first     *)
(* file, still covers what is there when it has removed the last.          *)
THEOREM Clears == Spec => ClearEmpties
<1>1. Init => ClearLists
  BY DEF Init, ClearLists
<1>2. ASSUME IInv, ClearLists, NEW p \in Procs, ClearEnd(p) PROVE Listed = {}
  BY <1>2, NoneAssumption DEF ClearEnd, ClearLists, IInv, LocksMatch
<1>3. IInv /\ ClearLists /\ [Next]_vars =>
        [\A p \in Procs : ClearEnd(p) => Listed = {}]_vars
  BY <1>2
<1>4. QED
  BY <1>1, <1>3, ClearKept, Inductive, PTL DEF Spec, ClearEmpties

(* While a prune is undisturbed nobody else writes, clears or has a lock   *)
(* that lets him remove.                                                   *)
LEMMA PrunerAlone ==
  ASSUME IInv, CalmLocks
  PROVE  /\ pruner \in Procs /\ pc[pruner] \in {"prune", "rm"}
         /\ exclusive = None
         /\ \A q \in Procs : tmp[q] = None /\ pc[q] # "clear"
         /\ \A q \in Procs : pc[q] \in {"prune", "rm"} => q = pruner
         /\ pc[pruner] = "prune" => \A k \in Keys : keyLock[k] = None
<1>1. pruner \in Procs
  BY DEF CalmLocks, IInv, TypeOK, LockTypes
<1>2. pc[pruner] \in {"prune", "rm"} /\ <<pruner, "prune">> \in shared
  BY <1>1 DEF IInv, LocksMatch
<1>3. exclusive = None
  BY <1>2 DEF IInv, LocksMatch
<1>4. \A q \in Procs : tmp[q] = None
  BY DEF CalmLocks, IInv, TmpMatches, LocksMatch
<1>5. \A q \in Procs : pc[q] # "clear" /\ (pc[q] \in {"prune", "rm"} => q = pruner)
  BY <1>3, NoneAssumption DEF IInv, LocksMatch
<1>6. QED
  BY <1>1, <1>2, <1>3, <1>4, <1>5 DEF CalmLocks

(* A step that changes none of this keeps it. *)
LEMMA CalmSame ==
  ASSUME CalmLocks, CalmFiles, CalmKept, CalmEvicted,
         UNCHANGED <<entry, orphans, keyLock, held, pruner, pass>>,
         pc'[pruner] = pc[pruner]
  PROVE  CalmLocks' /\ CalmFiles' /\ CalmKept' /\ CalmEvicted'
<1> USE DEF pass, Pending, Expired, Unused, Unreadable, Consistent, Since
<1>1. CalmLocks'
  BY DEF CalmLocks
<1>2. CalmFiles'
  BY DEF CalmFiles
<1>3. CalmKept'
  BY DEF CalmKept
<1>4. CalmEvicted'
  BY DEF CalmEvicted
<1>5. QED
  BY <1>1, <1>2, <1>3, <1>4

(* A prune that begins while every key is free has everything before it. *)
LEMMA CalmBegins ==
  ASSUME IInv, NEW p \in Procs, PruneBegin(p), calm'
  PROVE  CalmLocks' /\ CalmFiles' /\ CalmKept' /\ CalmEvicted'
<1>1. /\ pruner' = p /\ kept' = {} /\ evicted' = {}
      /\ \A k \in Keys : keyLock[k] = None
      /\ Listed \subseteq todo'
      /\ UNCHANGED <<entry, orphans, keyLock, held>>
  BY DEF PruneBegin, ReadDir, files
<1>2. ASSUME NEW q \in Procs, held[q] # None PROVE FALSE
  <2>1. held[q] \in Keys
    BY <1>2 DEF IInv, TypeOK, LockTypes
  <2>2. keyLock[held[q]] = q
    BY <1>2 DEF IInv, LocksMatch
  <2>3. QED
    BY <1>1, <2>1, <2>2, NoneAssumption
<1>3. /\ \A k \in Keys : entry[k] # None => <<k, "entry">> \in todo'
      /\ \A k \in orphans : <<k, "tmp">> \in todo'
  BY <1>1 DEF Listed
<1>4. CalmLocks'
  BY <1>1, <1>2, NoneAssumption DEF CalmLocks
<1>5. CalmFiles'
  BY <1>1, <1>3 DEF CalmFiles, Pending
<1>6. CalmKept' /\ CalmEvicted'
  BY <1>1 DEF CalmKept, CalmEvicted
<1>7. QED
  BY <1>4, <1>5, <1>6

(* The scan takes one name from the list: a file that stays becomes a      *)
(* candidate, one that goes the victim.                                    *)
LEMMA CalmScans ==
  ASSUME IInv, CalmLocks, CalmFiles, CalmKept, CalmEvicted,
         NEW p \in Procs, NEW n \in Names,
         ScanSkip(p, n) \/ ScanTmp(p, n) \/ ScanEntry(p, n) \/ ScanKeep(p, n)
  PROVE  CalmLocks' /\ CalmFiles' /\ CalmKept' /\ CalmEvicted'
<1>1. pc[p] = "prune" /\ n \in todo /\ todo' = todo \ {n} /\ evicted' = evicted
  BY DEF ScanSkip, ScanTmp, ScanEntry, ScanKeep
<1>2. /\ pruner = p /\ \A k \in Keys : keyLock[k] = None
      /\ \A q \in Procs : tmp[q] = None
  BY <1>1, PrunerAlone
<1>3. /\ UNCHANGED <<entry, held, pruner, pnow>>
      /\ n[1] \in Keys /\ n[2] \in {"entry", "tmp"} /\ n = <<n[1], n[2]>>
  BY DEF ScanSkip, ScanTmp, ScanEntry, ScanKeep, files, locks, Names
<1>4. evicted = {}
  BY <1>1 DEF CalmEvicted
<1>5. CalmEvicted'
  BY <1>1, <1>4 DEF CalmEvicted
<1>6. CASE ScanSkip(p, n)
  <2>1. n \notin Listed /\ UNCHANGED <<keyLock, orphans, kept, victim, pc>>
    BY <1>2, <1>3, <1>6 DEF ScanSkip, TryKeyFails, files, locks
  <2>2. /\ \A k \in Keys : entry[k] # None => <<k, "entry">> # n
        /\ \A k \in orphans : <<k, "tmp">> # n
    BY <2>1 DEF Listed
  <2>3. CalmLocks'
    BY <1>3, <2>1 DEF CalmLocks
  <2>4. CalmFiles'
    BY <1>1, <1>3, <2>1, <2>2 DEF CalmFiles, Pending
  <2>5. CalmKept'
    BY <1>1, <1>3, <2>1
    DEF CalmKept, Pending, Expired, Unused, Unreadable, Consistent, Since
  <2>6. QED
    BY <1>5, <2>3, <2>4, <2>5
<1>7. CASE ScanTmp(p, n)
  <2>1. /\ n[2] = "tmp" /\ orphans' = orphans \ {n[1]}
        /\ UNCHANGED <<keyLock, kept, victim, pc>>
    BY <1>7 DEF ScanTmp, locks
  <2>2. CalmLocks'
    BY <1>3, <2>1 DEF CalmLocks
  <2>3. CalmFiles'
    BY <1>1, <1>3, <2>1 DEF CalmFiles, Pending
  <2>4. CalmKept'
    BY <1>1, <1>3, <2>1
    DEF CalmKept, Pending, Expired, Unused, Unreadable, Consistent, Since
  <2>5. QED
    BY <1>5, <2>2, <2>3, <2>4
<1>8. CASE ScanEntry(p, n)
  <2>1. /\ n[2] = "entry" /\ victim'.key = n[1]
        /\ keyLock' = [keyLock EXCEPT ![n[1]] = p]
        /\ UNCHANGED <<orphans, kept>>
    BY <1>8 DEF ScanEntry, files
  <2>2. pc'[p] = "rm"
    BY <1>8 DEF ScanEntry, Goto, IInv, TypeOK, LockTypes
  <2>3. CalmLocks'
    BY <1>2, <1>3, <2>1, <2>2 DEF CalmLocks, IInv, TypeOK, LockTypes
  <2>4. CalmFiles'
    BY <1>1, <1>2, <1>3, <2>1, <2>2 DEF CalmFiles, Pending
  <2>5. CalmKept'
    <3>1. SUFFICES ASSUME NEW r \in kept PROVE <<r.key, "entry">> # n
      BY ZenonT(30), <1>1, <1>2, <1>3, <2>1, <2>2
      DEF CalmKept, Pending, Expired, Unused, Unreadable, Consistent, Since
    <3>2. QED
      BY <1>1 DEF CalmKept, Pending
  <2>6. QED
    BY <1>5, <2>3, <2>4, <2>5
<1>9. CASE ScanKeep(p, n)
  <2> DEFINE new == [used |-> entry[n[1]].used, key |-> n[1],
                     size |-> entry[n[1]].size]
  <2>1. /\ n[2] = "entry" /\ n \in Listed
        /\ ~Expired(entry[n[1]], pnow) /\ ~Unused(entry[n[1]], pnow)
        /\ kept' = kept \cup {new}
        /\ UNCHANGED <<keyLock, orphans, victim, pc>>
    BY <1>9 DEF ScanKeep, files, locks
  <2>2. entry[n[1]] # None
    BY <2>1 DEF Listed
  <2>3. CalmLocks'
    BY <1>3, <2>1 DEF CalmLocks
  <2>4. CalmFiles'
    <3>1. new \in kept' /\ new.key = n[1] /\ kept \subseteq kept'
      BY <2>1
    <3> HIDE DEF new
    <3>2. \A k \in orphans' : <<k, "tmp">> \in todo'
      <4>1. orphans' = orphans /\ \A k : <<k, "tmp">> # n
        BY <1>3, <2>1
      <4>2. QED
        BY <1>1, <4>1 DEF CalmFiles
    <3>3. ASSUME NEW k \in Keys, entry[k] # None, k # n[1]
          PROVE  Pending(k)' \/ \E r \in kept' : r.key = k
      BY <1>1, <1>3, <2>1, <3>1, <3>3 DEF CalmFiles, Pending
    <3>4. QED
      BY <1>3, <3>1, <3>2, <3>3 DEF CalmFiles
  <2>5. CalmKept'
    <3>1. SUFFICES ASSUME NEW r \in kept'
          PROVE  /\ ~Pending(r.key)' /\ entry[r.key] # None
                 /\ r.used = entry[r.key].used /\ r.size = entry[r.key].size
                 /\ ~Expired(entry[r.key], pnow) /\ ~Unused(entry[r.key], pnow)
      BY <1>3
      DEF CalmKept, Expired, Unused, Unreadable, Consistent, Since
    <3>2. CASE r \in kept
      BY <1>1, <1>3, <2>1, <3>2 DEF CalmKept, Pending
    <3>3. CASE r = new
      BY <1>1, <1>2, <1>3, <2>1, <2>2, <3>3 DEF Pending
    <3>4. QED
      BY <2>1, <3>1, <3>2, <3>3
  <2>6. QED
    BY <1>5, <2>3, <2>4, <2>5
<1>10. QED
  BY <1>6, <1>7, <1>8, <1>9

(* The removal of the victim leaves the others as they were. *)
LEMMA CalmRemoves ==
  ASSUME IInv, CalmLocks, CalmFiles, CalmKept, CalmEvicted,
         NEW p \in Procs, Remove(p)
  PROVE  CalmLocks' /\ CalmFiles' /\ CalmKept' /\ CalmEvicted'
<1>1. /\ pc[p] = "rm" /\ pruner = p /\ victim.key \in Keys
  BY Exclusive, NoneAssumption DEF Remove
<1>2. /\ entry' = [entry EXCEPT ![victim.key] = None]
      /\ keyLock' = [keyLock EXCEPT ![victim.key] = None]
      /\ UNCHANGED <<orphans, held, pruner, todo, kept, pnow, evicted>>
  BY DEF Remove
<1>3. pc'[p] = "prune"
  BY DEF Remove, Goto, IInv, TypeOK, LockTypes
<1>4. CalmLocks'
  BY <1>1, <1>2, <1>3 DEF CalmLocks, IInv, TypeOK, LockTypes
<1>5. CalmFiles'
  BY <1>1, <1>2, <1>3 DEF CalmFiles, Pending, IInv, TypeOK, FileTypes
<1>6. CalmKept'
  <2>1. ASSUME NEW r \in kept
        PROVE  r.key \in Keys /\ r.key # victim.key /\ entry'[r.key] = entry[r.key]
    BY <1>1, <1>2, <2>1 DEF CalmKept, Pending, IInv, TypeOK, FileTypes
  <2>2. QED
    BY <1>1, <1>2, <1>3, <2>1
    DEF CalmKept, Pending, Expired, Unused, Unreadable, Consistent, Since
<1>7. CalmEvicted'
  BY <1>2 DEF CalmEvicted
<1>8. QED
  BY <1>4, <1>5, <1>6, <1>7

(* No candidate is skipped, and the one that is evicted is the first in    *)
(* the order of use.                                                       *)
LEMMA CalmEvicts ==
  ASSUME IInv, CalmLocks, CalmFiles, CalmKept, CalmEvicted,
         NEW p \in Procs, EvictSkip(p) \/ Evict(p)
  PROVE  CalmLocks' /\ CalmFiles' /\ CalmKept' /\ CalmEvicted'
<1>1. pc[p] = "prune" /\ todo = {}
  BY DEF EvictSkip, Evict, Evicting
<1>2. pruner = p /\ \A k \in Keys : keyLock[k] = None
  BY <1>1, PrunerAlone
<1>3. \A r \in kept : r.key \in Keys /\ r.used \in Int
  BY DEF IInv, TypeOK, FileTypes
<1>4. ~EvictSkip(p)
  BY <1>2, <1>3 DEF EvictSkip, TryKeyFails, SameUse, CalmKept
<1>5. PICK r \in kept :
        /\ \A s \in kept : SortsBefore(r, s)
        /\ keyLock' = [keyLock EXCEPT ![r.key] = p]
        /\ victim' = [key |-> r.key, size |-> r.size, was |-> entry[r.key]]
        /\ kept' = kept \ {r}
        /\ evicted' = evicted \cup {r}
  BY <1>4 DEF Evict
<1>6. /\ victim'.key = r.key /\ r.key \in Keys
      /\ UNCHANGED <<entry, orphans, held, pruner, todo, pnow>>
  BY <1>3, <1>4, <1>5 DEF Evict, files
<1>7. pc'[p] = "rm"
  BY <1>4 DEF Evict, Goto, IInv, TypeOK, LockTypes
<1>8. ASSUME NEW s \in kept, s.key = r.key PROVE s = r
  <2>1. s.used = r.used /\ s.size = r.size
    BY <1>8 DEF CalmKept
  <2>2. /\ s \in [used : Int, key : Keys, size : Nat]
        /\ r \in [used : Int, key : Keys, size : Nat]
    BY DEF IInv, TypeOK, FileTypes
  <2>3. QED
    BY <1>8, <2>1, <2>2
<1>9. CalmLocks'
  BY <1>2, <1>5, <1>6, <1>7 DEF CalmLocks, IInv, TypeOK, LockTypes
<1>10. CalmFiles'
  BY <1>1, <1>2, <1>5, <1>6, <1>7 DEF CalmFiles, Pending
<1>11. CalmKept'
  BY <1>1, <1>2, <1>5, <1>6, <1>7, <1>8
  DEF CalmKept, Pending, Expired, Unused, Unreadable, Consistent, Since
<1>12. CalmEvicted'
  <2>1. \A s \in kept : r.used <= s.used
    BY <1>3, <1>5 DEF SortsBefore
  <2>2. QED
    BY <1>1, <1>5, <1>6, <2>1 DEF CalmEvicted
<1>13. QED
  BY <1>9, <1>10, <1>11, <1>12

(* What may happen while a prune is undisturbed: its own steps, and steps  *)
(* that change nothing it has seen.                                        *)
LEMMA CalmSteps ==
  ASSUME IInv, CalmPass, [Next]_vars, calm'
  PROVE  \/ \E p \in Procs : PruneBegin(p)
         \/ /\ calm
            /\ \/ /\ UNCHANGED <<entry, orphans, keyLock, held, pruner, pass>>
                  /\ pc'[pruner] = pc[pruner]
               \/ \E p \in Procs :
                    \/ \E n \in Names : \/ ScanSkip(p, n) \/ ScanTmp(p, n)
                                        \/ ScanEntry(p, n) \/ ScanKeep(p, n)
                    \/ Remove(p) \/ EvictSkip(p) \/ Evict(p)
<1> DEFINE Quiet == /\ UNCHANGED <<entry, orphans, keyLock, held, pruner, pass>>
                    /\ pc'[pruner] = pc[pruner]
<1>1. ASSUME NEW p \in Procs,
             \/ TakeKey(p) \/ Touch(p) \/ PruneEnd(p) \/ PruneFails(p)
             \/ ClearEnd(p) \/ ClearFails(p)
      PROVE  FALSE
  BY <1>1
  DEF TakeKey, Touch, PruneEnd, PruneFails, ClearEnd, ClearFails, EndPass
<1>2. ASSUME \A p \in Procs : ~PruneBegin(p) PROVE calm
  <2>1. ASSUME NEW p \in Procs, PruneStep(p) PROVE calm' = calm
    BY <1>1, <1>2, <2>1
    DEF PruneStep, PruneShared, PruneDeferred, ScanSkip, ScanTmp,
        ScanEntry, ScanKeep, Remove, EvictSkip, Evict
  <2>2. ASSUME NEW p \in Procs, ClearStep(p) PROVE calm' = calm
    BY <1>1, <2>2 DEF ClearStep, ClearRemove
  <2>3. ASSUME NEW p \in Procs, Crash(p) PROVE calm' = calm
    BY <2>3 DEF Crash, EndPass
  <2>4. calm' = calm
    BY ZenonT(30), <1>1, <2>1, <2>2, <2>3
    DEF vars, Next, Tick, Lock, Lookup, TooLarge, Store, Unlock, Miss, Hit,
        Persist, StoreFails, StoreUnlock, Maintain, Prune, Clear, CallFails
  <2>5. QED
    BY <2>4
<1>3. SUFFICES ASSUME calm, \A p \in Procs : ~PruneBegin(p)
      PROVE  \/ Quiet
             \/ \E p \in Procs :
                  \/ \E n \in Names : \/ ScanSkip(p, n) \/ ScanTmp(p, n)
                                      \/ ScanEntry(p, n) \/ ScanKeep(p, n)
                  \/ Remove(p) \/ EvictSkip(p) \/ Evict(p)
  BY <1>2
<1>4. CalmLocks
  BY <1>3 DEF CalmPass
<1>5. UNCHANGED vars \/ Tick => Quiet
  BY DEF vars, Tick, files, locks
<1>6. ASSUME NEW p \in Procs,
             \/ \E k \in Keys :
                  Lock(p, k) \/ \E m \in {"locked", "unlocked"} : Lookup(p, k, m)
             \/ \E size \in Sizes : TooLarge(p, size) \/ Store(p, size)
             \/ Unlock(p) \/ Miss(p) \/ Hit(p) \/ Persist(p) \/ StoreFails(p)
             \/ StoreUnlock(p) \/ Maintain(p) \/ Prune(p) \/ PruneShared(p)
             \/ PruneDeferred(p) \/ CallFails(p)
      PROVE  Quiet
  <2>1. /\ UNCHANGED <<entry, tmp, orphans, keyLock, held, exclusive, pruner,
                       pass, calm>>
        /\ pc[p] \notin {"prune", "rm"}
        /\ \A q \in Procs \ {p} : pc'[q] = pc[q]
    BY <1>4, <1>6, NoKeyNoChange DEF CalmLocks
  <2>2. pc'[pruner] = pc[pruner]
    BY <1>4, <2>1, PrunerAlone
  <2>3. QED
    BY <2>1, <2>2
<1>7. ASSUME NEW p \in Procs, Crash(p) PROVE Quiet
  <2>1. p # pruner /\ UNCHANGED pass
    BY <1>7 DEF Crash, EndPass
  <2>2. tmp[p] = None /\ \A k \in Keys : keyLock[k] # None => keyLock[k] # p
    <3>1. ASSUME NEW k \in Keys, keyLock[k] # None PROVE keyLock[k] = pruner
      BY <1>4, <3>1 DEF CalmLocks, IInv, VictimMatches
    <3>2. QED
      BY <1>4, <2>1, <3>1, PrunerAlone
  <2>3. UNCHANGED <<entry, orphans, keyLock, held, pruner>>
    BY <1>4, <1>7, <2>1, <2>2, NoneAssumption
    DEF Crash, CalmLocks, IInv, TypeOK, LockTypes
  <2>4. pc'[pruner] = pc[pruner]
    BY <1>4, <1>7, <2>1, PrunerAlone
    DEF Crash, Return, Goto, IInv, TypeOK, LockTypes
  <2>5. QED
    BY <2>1, <2>3, <2>4
<1>8. ASSUME NEW p \in Procs,
             Clear(p) \/ \E n \in Names : ClearRemove(p, n)
      PROVE  FALSE
  <2>1. <<pruner, "prune">> \in shared
    BY <1>4, PrunerAlone DEF IInv, LocksMatch
  <2>2. QED
    BY <1>4, <1>8, <2>1, PrunerAlone DEF Clear, ClearRemove
<1>9. QED
  BY <1>1, <1>3, <1>5, <1>6, <1>7, <1>8 DEF Next, PruneStep, ClearStep

(* What an undisturbed prune knows of the directory stays true until it    *)
(* ends or is disturbed.                                                   *)
LEMMA CalmNext == IInv /\ CalmPass /\ [Next]_vars => CalmPass'
<1> SUFFICES ASSUME IInv, CalmPass, [Next]_vars, calm'
             PROVE  CalmLocks' /\ CalmFiles' /\ CalmKept' /\ CalmEvicted'
  BY DEF CalmPass
<1>1. calm => CalmLocks /\ CalmFiles /\ CalmKept /\ CalmEvicted
  BY DEF CalmPass
<1>2. QED
  BY <1>1, CalmSteps, CalmSame, CalmBegins, CalmScans, CalmRemoves, CalmEvicts

(* What is true when an undisturbed prune ends: every entry that is left   *)
(* is a candidate it kept.                                                 *)
LEMMA CalmEnds ==
  ASSUME IInv, CalmPass, NEW p \in Procs, PruneEnd(p), calm
  PROVE  /\ orphans = {}
         /\ \A k \in Keys : entry[k] # None =>
              /\ ~Expired(entry[k], pnow) /\ ~Unused(entry[k], pnow)
              /\ \A r \in evicted : r.used <= entry[k].used
<1>1. CalmLocks /\ CalmFiles /\ CalmKept /\ CalmEvicted
  BY DEF CalmPass
<1>2. pc[p] = "prune" /\ todo = {} /\ pruner = p
  BY <1>1, PrunerAlone DEF PruneEnd
<1>3. orphans = {}
  BY <1>1, <1>2 DEF CalmFiles
<1>4. ASSUME NEW k \in Keys, entry[k] # None
      PROVE  /\ ~Expired(entry[k], pnow) /\ ~Unused(entry[k], pnow)
             /\ \A r \in evicted : r.used <= entry[k].used
  <2>1. PICK s \in kept : s.key = k
    BY <1>1, <1>2, <1>4 DEF CalmFiles, Pending
  <2>2. QED
    BY <1>1, <2>1 DEF CalmKept, CalmEvicted
<1>5. QED
  BY <1>3, <1>4

(* A prune nobody disturbed leaves no expired or unused entry and no       *)
(* temporary file of a dead writer, whatever order it met the files in.    *)
THEOREM Sweeps == Spec => SweepsAll
<1>1. Init => CalmPass
  BY DEF Init, CalmPass
<1>2. IInv /\ CalmPass /\ [Next]_vars =>
        [\A p \in Procs : PruneEnd(p) /\ calm =>
           /\ orphans = {}
           /\ \A k \in Keys : entry[k] # None =>
                ~Expired(entry[k], pnow) /\ ~Unused(entry[k], pnow)]_vars
  BY CalmEnds
<1>3. QED
  BY <1>1, <1>2, CalmNext, Inductive, PTL DEF Spec, SweepsAll

(* And whatever it evicted was used no later than anything it left.        *)
THEOREM Evicts == Spec => EvictsOldest
<1>1. Init => CalmPass
  BY DEF Init, CalmPass
<1>2. IInv /\ CalmPass /\ [Next]_vars =>
        [\A p \in Procs : PruneEnd(p) /\ calm =>
           \A r \in evicted, k \in Keys : entry[k] # None =>
             r.used <= entry[k].used]_vars
  BY CalmEnds
<1>3. QED
  BY <1>1, <1>2, CalmNext, Inductive, PTL DEF Spec, EvictsOldest
-----------------------------------------------------------------------------
(* The count prune keeps.  The bytes of some entries are as many as their  *)
(* cells, pairs of a key and a number up to its entry's size: what a fold  *)
(* computes is shown from a least set for which it would differ.           *)

Cells(e, s) == {c \in s \X Nat : c[2] \in 1 .. e[c[1]].size}

(* One entry has as many cells as bytes. *)
LEMMA RowCells ==
  ASSUME NEW k, NEW n \in Nat
  PROVE  /\ IsFiniteSet({k} \X (1 .. n))
         /\ Cardinality({k} \X (1 .. n)) = n
<1>1. IsFiniteSet({k}) /\ Cardinality({k}) = 1
  BY FS_Singleton
<1>2. IsFiniteSet(1 .. n) /\ Cardinality(1 .. n) = n
  BY FS_Interval
<1>3. IsFiniteSet({k} \X (1 .. n))
  BY <1>1, <1>2, FS_Product
<1>4. Cardinality({k} \X (1 .. n)) = Cardinality({k}) * Cardinality(1 .. n)
  BY <1>1, <1>2, FS_Product
<1>5. QED
  BY <1>1, <1>2, <1>3, <1>4

(* The entry of each key of a set has a size. *)
Sized(e, s) == \A k \in s : e[k].size \in Nat

(* Finitely many entries have finitely many cells. *)
LEMMA CellsFinite ==
  ASSUME NEW s, IsFiniteSet(s), NEW e, Sized(e, s)
  PROVE  IsFiniteSet(Cells(e, s))
<1> DEFINE rows == [k \in s |-> {k} \X (1 .. e[k].size)]
           R == {rows[k] : k \in s}
<1>1. rows \in Surjection(s, R)
  BY DEF Surjection
<1>2. IsFiniteSet(R)
  BY <1>1, FS_Surjection
<1>3. ASSUME NEW k \in s PROVE IsFiniteSet(rows[k])
  <2>1. rows[k] = {k} \X (1 .. e[k].size) /\ e[k].size \in Nat
    BY DEF Sized
  <2>2. QED
    BY <2>1, RowCells
<1>4. Cells(e, s) \subseteq UNION R
  <2>1. SUFFICES ASSUME NEW c \in Cells(e, s) PROVE c \in UNION R
    OBVIOUS
  <2>2. c[1] \in s /\ c[2] \in 1 .. e[c[1]].size /\ c = <<c[1], c[2]>>
    BY DEF Cells
  <2>3. c \in rows[c[1]]
    BY <2>2
  <2>4. QED
    BY <2>2, <2>3
<1>5. IsFiniteSet(UNION R)
  <2>1. \A T \in R : IsFiniteSet(T)
    <3> HIDE DEF rows
    <3> QED
      BY <1>3
  <2> HIDE DEF R
  <2>2. QED
    BY <1>2, <2>1, FS_UNION
<1>6. QED
  BY <1>4, <1>5, FS_Subset

(* One entry more is its size more. *)
LEMMA CellsStep ==
  ASSUME NEW s, IsFiniteSet(s), NEW e, Sized(e, s), NEW k \in s
  PROVE  /\ Cardinality(Cells(e, s \ {k})) \in Nat
         /\ Cardinality(Cells(e, s)) =
              e[k].size + Cardinality(Cells(e, s \ {k}))
<1> DEFINE row == {k} \X (1 .. e[k].size)
           rest == Cells(e, s \ {k})
<1>1. e[k].size \in Nat
  BY DEF Sized
<1>2. IsFiniteSet(row) /\ Cardinality(row) = e[k].size
  BY <1>1, RowCells
<1>3. IsFiniteSet(rest) /\ Cardinality(rest) \in Nat
  <2>1. IsFiniteSet(s \ {k}) /\ Sized(e, s \ {k})
    BY FS_RemoveElement DEF Sized
  <2>2. QED
    BY <2>1, CellsFinite, FS_CardinalityType
<1>4. Cells(e, s) = row \cup rest
  BY DEF Cells, Sized
<1>5. row \cap rest = {}
  BY DEF Cells
<1>6. Cardinality(row \cap rest) = 0
  BY <1>5, FS_EmptySet
<1>7. Cardinality(row \cup rest) =
        Cardinality(row) + Cardinality(rest) - Cardinality(row \cap rest)
  BY <1>2, <1>3, FS_Union
<1> HIDE DEF row
<1>8. QED
  BY <1>1, <1>2, <1>3, <1>4, <1>6, <1>7

(* A fold that adds up sizes counts cells, whatever it chooses first. *)
LEMMA FoldCountsCells ==
  ASSUME NEW K, IsFiniteSet(K), NEW e, Sized(e, K), NEW g,
         g = [s \in SUBSET K |->
                IF s = {} THEN 0
                ELSE e[CHOOSE x \in s : TRUE].size
                       + g[s \ {CHOOSE x \in s : TRUE}]]
  PROVE  g[K] = Cardinality(Cells(e, K))
<1> DEFINE Bad == {s \in SUBSET K : g[s] # Cardinality(Cells(e, s))}
<1>1. SUFFICES ASSUME Bad # {} PROVE FALSE
  OBVIOUS
<1>2. IsWellFoundedOn(StrictSubsetOrdering(K), SUBSET K)
  BY FS_StrictSubsetOrderingWellFounded, FS_FiniteSubsetsOfFinite
<1>3. PICK s \in Bad : \A u \in Bad : <<u, s>> \notin StrictSubsetOrdering(K)
  <2>1. Bad \subseteq SUBSET K
    OBVIOUS
  <2> HIDE DEF Bad
  <2>2. QED
    BY <1>1, <1>2, <2>1, WFMin
<1>4. s # {}
  <2>1. Cells(e, {}) = {}
    BY DEF Cells
  <2>2. g[{}] = 0
    OBVIOUS
  <2>3. QED
    BY <2>1, <2>2, FS_EmptySet
<1>5. PICK x \in s : x = CHOOSE y \in s : TRUE
  BY <1>4
<1>6. s \in SUBSET K /\ g[s] = e[x].size + g[s \ {x}]
  BY <1>4, <1>5
<1>7. s \ {x} \notin Bad
  BY ZenonT(30), <1>3, <1>5, <1>6 DEF StrictSubsetOrdering
<1>8. g[s \ {x}] = Cardinality(Cells(e, s \ {x}))
  BY <1>6, <1>7
<1>9. g[s] = Cardinality(Cells(e, s))
  <2>1. IsFiniteSet(s) /\ Sized(e, s)
    BY <1>6, FS_Subset DEF Sized
  <2>2. Cardinality(Cells(e, s)) = e[x].size + Cardinality(Cells(e, s \ {x}))
    BY <2>1, CellsStep
  <2>3. QED
    BY <1>6, <1>8, <2>2
<1>10. QED
  BY <1>9

(* `usage` adds up the sizes of the entries that are there. *)
LEMMA BytesAreCells ==
  ASSUME NEW e \in [Keys -> Entries \cup {None}]
  PROVE  /\ IsFiniteSet(Present(e)) /\ Sized(e, Present(e))
         /\ BytesOf(e) = Cardinality(Cells(e, Present(e)))
<1> DEFINE K == Present(e)
           h == [s \in SUBSET K |-> Cardinality(Cells(e, s))]
           Step(g) == [s \in SUBSET K |->
             IF s = {} THEN 0
             ELSE e[CHOOSE x \in s : TRUE].size
                    + g[s \ {CHOOSE x \in s : TRUE}]]
           iter == CHOOSE g : g = Step(g)
<1>1. IsFiniteSet(K) /\ Sized(e, K)
  <2>1. K \subseteq Keys /\ \A k \in K : e[k] \in Entries
    BY DEF Present
  <2>2. QED
    BY <2>1, FS_Subset, KeysAssumption DEF Sized, Entries
<1>2. BytesOf(e) = iter[K]
  BY DEF BytesOf, MapThenSumSet, MapThenFoldSet
<1> HIDE DEF K
<1>3. h = Step(h)
  <2>1. h[{}] = 0
    <3>1. Cells(e, {}) = {}
      BY DEF Cells
    <3>2. QED
      BY <3>1, FS_EmptySet
  <2>2. ASSUME NEW s \in SUBSET K, s # {}
        PROVE  h[s] = e[CHOOSE x \in s : TRUE].size
                        + h[s \ {CHOOSE x \in s : TRUE}]
    <3>1. PICK x \in s : x = CHOOSE y \in s : TRUE
      BY <2>2
    <3>2. IsFiniteSet(s) /\ Sized(e, s)
      BY <1>1, FS_Subset DEF Sized
    <3>3. Cardinality(Cells(e, s)) = e[x].size + Cardinality(Cells(e, s \ {x}))
      BY <3>2, CellsStep
    <3>4. /\ h[s] = Cardinality(Cells(e, s))
          /\ h[s \ {x}] = Cardinality(Cells(e, s \ {x}))
      OBVIOUS
    <3> HIDE DEF h
    <3>5. QED
      BY <3>1, <3>3, <3>4
  <2>3. QED
    BY <2>1, <2>2
<1>4. iter = Step(iter)
  BY <1>3
<1> HIDE DEF iter, h
<1>5. iter[K] = Cardinality(Cells(e, K))
  BY <1>1, <1>4, FoldCountsCells
<1>6. QED
  BY <1>1, <1>2, <1>5 DEF K

(* The usage after one entry has gone. *)
LEMMA UsageLess ==
  ASSUME NEW e \in [Keys -> Entries \cup {None}], NEW k \in Keys, e[k] # None,
         NEW d, d = [e EXCEPT ![k] = None]
  PROVE  /\ Cardinality(Present(d)) \in Nat /\ BytesOf(d) \in Nat
         /\ e[k].size \in Nat
         /\ Cardinality(Present(e)) = Cardinality(Present(d)) + 1
         /\ BytesOf(e) = BytesOf(d) + e[k].size
<1>1. d \in [Keys -> Entries \cup {None}]
  OBVIOUS
<1>2. Present(d) = Present(e) \ {k} /\ k \in Present(e)
  BY DEF Present
<1>3. /\ IsFiniteSet(Present(e)) /\ Sized(e, Present(e))
      /\ BytesOf(e) = Cardinality(Cells(e, Present(e)))
      /\ IsFiniteSet(Present(d))
      /\ BytesOf(d) = Cardinality(Cells(d, Present(d)))
  BY <1>1, BytesAreCells
<1>4. Cells(d, Present(d)) = Cells(e, Present(e) \ {k})
  <2>1. \A x \in Present(d) : d[x] = e[x]
    BY <1>2 DEF Present
  <2>2. QED
    BY <1>2, <2>1 DEF Cells
<1>5. /\ e[k].size \in Nat
      /\ Cardinality(Present(e)) \in Nat /\ Cardinality(Present(d)) \in Nat
  BY <1>2, <1>3, FS_CardinalityType DEF Sized
<1>6. Cardinality(Present(d)) = Cardinality(Present(e)) - 1
  BY <1>2, <1>3, FS_RemoveElement
<1>7. /\ Cardinality(Cells(e, Present(e) \ {k})) \in Nat
      /\ Cardinality(Cells(e, Present(e))) =
           e[k].size + Cardinality(Cells(e, Present(e) \ {k}))
  BY <1>2, <1>3, CellsStep
<1>8. QED
  BY <1>3, <1>4, <1>5, <1>6, <1>7

(* An undisturbed prune counts what is there. *)
LEMMA CountsKept ==
  IInv /\ CalmPass /\ CalmCounts /\ [Next]_vars => CalmCounts'
<1> SUFFICES ASSUME IInv, CalmPass, CalmCounts, [Next]_vars, calm'
             PROVE  /\ left' = Usage'
                    /\ pc'[pruner'] = "rm" =>
                         victim'.size = entry'[victim'.key].size
  BY DEF CalmCounts
<1> DEFINE Counts == /\ left' = Usage'
                     /\ pc'[pruner'] = "rm" =>
                          victim'.size = entry'[victim'.key].size
<1> HIDE DEF Counts
<1>1. ASSUME NEW p \in Procs, PruneBegin(p) PROVE Counts
  <2>1. left' = Usage /\ entry' = entry /\ pruner' = p
    BY <1>1 DEF PruneBegin, files
  <2>2. pc'[p] = "prune"
    BY <1>1 DEF PruneBegin, Goto, IInv, TypeOK, LockTypes
  <2>3. QED
    BY <2>1, <2>2 DEF Usage, Counts
<1>2. SUFFICES ASSUME calm, \A p \in Procs : ~PruneBegin(p) PROVE Counts
  BY <1>1, CalmSteps DEF Counts
<1>3. /\ left = Usage
      /\ pc[pruner] = "rm" => victim.size = entry[victim.key].size
      /\ CalmLocks /\ CalmKept
  BY <1>2 DEF CalmCounts, CalmPass
<1>4. ASSUME UNCHANGED <<entry, left, victim, pruner>>, pc'[pruner] = pc[pruner]
      PROVE  Counts
  BY <1>3, <1>4 DEF Usage, Counts
<1>5. ASSUME NEW p \in Procs, NEW n \in Names,
             ScanSkip(p, n) \/ ScanTmp(p, n) \/ ScanKeep(p, n)
      PROVE  Counts
  BY <1>4, <1>5 DEF ScanSkip, ScanTmp, ScanKeep, files, locks
<1>6. ASSUME NEW p \in Procs, EvictSkip(p) PROVE Counts
  BY <1>4, <1>6 DEF EvictSkip, files, locks
<1>7. ASSUME NEW p \in Procs, NEW n \in Names, ScanEntry(p, n) PROVE Counts
  <2>1. /\ victim' = [key |-> n[1], size |-> entry[n[1]].size,
                      was |-> entry[n[1]]]
        /\ UNCHANGED <<entry, left>>
    BY <1>7 DEF ScanEntry, files
  <2>2. QED
    BY <1>3, <2>1 DEF Usage, Counts
<1>8. ASSUME NEW p \in Procs, Evict(p) PROVE Counts
  <2>1. PICK r \in kept : /\ victim' = [key |-> r.key, size |-> r.size,
                                        was |-> entry[r.key]]
                          /\ UNCHANGED <<entry, left>>
    BY <1>8 DEF Evict, files
  <2>2. r.size = entry[r.key].size
    BY <1>3 DEF CalmKept
  <2>3. QED
    BY <1>3, <2>1, <2>2 DEF Usage, Counts
<1>9. ASSUME NEW p \in Procs, Remove(p) PROVE Counts
  <2>1. /\ pruner = p /\ pc[pruner] = "rm" /\ victim.key \in Keys
        /\ entry[victim.key] # None
    BY <1>9, Exclusive, NoneAssumption DEF Remove, IInv, VictimMatches, Same
  <2>2. entry \in [Keys -> Entries \cup {None}]
    BY DEF IInv, TypeOK, FileTypes
  <2>3. /\ entry' = [entry EXCEPT ![victim.key] = None]
        /\ left' = [entries |-> Since(left.entries, 1),
                    bytes |-> Since(left.bytes, victim.size)]
        /\ pruner' = pruner
    BY <1>9 DEF Remove
  <2>4. pc'[p] = "prune"
    BY <1>9 DEF Remove, Goto, IInv, TypeOK, LockTypes
  <2>5. /\ Cardinality(Present(entry')) \in Nat /\ BytesOf(entry') \in Nat
        /\ victim.size \in Nat
        /\ left.entries = Cardinality(Present(entry')) + 1
        /\ left.bytes = BytesOf(entry') + victim.size
    BY <1>3, <2>1, <2>2, <2>3, UsageLess DEF Usage
  <2>6. left' = Usage'
    <3>1. Since(left.entries, 1) = Cardinality(Present(entry'))
      BY <2>5 DEF Since
    <3>2. Since(left.bytes, victim.size) = BytesOf(entry')
      BY <2>5 DEF Since
    <3>3. QED
      BY <2>3, <3>1, <3>2 DEF Usage
  <2>7. QED
    BY <2>1, <2>3, <2>4, <2>6 DEF Counts
<1>10. QED
  BY <1>2, <1>4, <1>5, <1>6, <1>7, <1>8, <1>9, CalmSteps DEF pass

(* A prune nobody disturbed reports the usage it leaves, and if it began   *)
(* over a hard limit it leaves no more than both targets and both limits,  *)
(* whatever the sizes: it evicts until it is there or nothing is left.     *)
THEOREM Reaches == Spec => ReachesTarget
<1> DEFINE Small == /\ Usage.entries <= TargetEntries
                    /\ Usage.entries <= HardEntries
                    /\ Usage.bytes <= TargetBytes
                    /\ Usage.bytes <= HardBytes
<1>1. Init => CalmPass /\ CalmCounts
  BY DEF Init, CalmPass, CalmCounts
<1>2. ASSUME IInv, CalmPass, CalmCounts, NEW p \in Procs, PruneEnd(p), calm
      PROVE  left = Usage /\ (over => Small)
  <2>1. left = Usage /\ CalmLocks /\ CalmFiles
    BY <1>2 DEF CalmCounts, CalmPass
  <2>2. {TargetEntries, HardEntries, TargetBytes, HardBytes} \subseteq Nat
    BY LimitsAssumption
  <2>3. pc[p] = "prune" /\ todo = {} /\ ~Evicting(p) /\ pruner = p
    BY <1>2, <2>1, PrunerAlone DEF PruneEnd
  <2>4. entry \in [Keys -> Entries \cup {None}]
    BY <1>2 DEF IInv, TypeOK, FileTypes
  <2>5. Usage.entries \in Nat /\ Usage.bytes \in Nat
    <3>1. IsFiniteSet(Cells(entry, Present(entry)))
      BY <2>4, BytesAreCells, CellsFinite
    <3>2. QED
      BY <2>4, <3>1, BytesAreCells, FS_CardinalityType DEF Usage
  <2>6. CASE kept = {}
    <3>1. Present(entry) = {}
      BY <2>1, <2>3, <2>6 DEF CalmFiles, Pending, Present
    <3>2. Cells(entry, Present(entry)) = {}
      BY <3>1 DEF Cells
    <3>3. Usage.entries = 0 /\ Usage.bytes = 0
      BY <2>4, <3>1, <3>2, BytesAreCells, FS_EmptySet DEF Usage
    <3>4. QED
      BY <2>1, <2>2, <3>3
  <2>7. CASE kept # {} /\ over
    <3>1. AtTarget(Usage)
      BY <2>1, <2>3, <2>7 DEF Evicting
    <3>2. Small
      BY <2>2, <2>5, <3>1 DEF AtTarget, Lower
    <3>3. QED
      BY <2>1, <3>2
  <2>8. QED
    BY <2>1, <2>6, <2>7
<1>3. IInv /\ CalmPass /\ CalmCounts /\ [Next]_vars =>
        [\A p \in Procs : PruneEnd(p) /\ calm =>
           /\ left = Usage
           /\ over => /\ Usage.entries <= TargetEntries
                      /\ Usage.entries <= HardEntries
                      /\ Usage.bytes <= TargetBytes
                      /\ Usage.bytes <= HardBytes]_vars
  BY <1>2
<1>4. QED
  BY <1>1, <1>3, CalmNext, CountsKept, Inductive, PTL DEF Spec, ReachesTarget
=============================================================================
