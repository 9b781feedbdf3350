------------------------------- MODULE Cache -------------------------------
(***************************************************************************)
(* The disk cache of crates/unixd-cache/src/cache.rs: lookups with and     *)
(* without the key's lock, stores, the prune with its sweep and eviction,  *)
(* and clear, run by processes and threads that share one root.            *)
(*                                                                         *)
(* A key's lock is a mutex here; LockFile shows that its lock file         *)
(* implements one.  An entry file is replaced whole by rename(2), so it is *)
(* one value; what a read tells apart of it is its kind, its schema, its   *)
(* three times, its size and its modification time.  A digest is the key   *)
(* itself, a number, and sorts like one.                                   *)
(*                                                                         *)
(* "idle"       outside the cache, with or without a KeyLock               *)
(* "wantkey"    Cache::lock, with the maintenance lock                     *)
(* "read"       has read the entry file, and not yet judged it             *)
(* "touch"      found a hit whose use is to be recorded                    *)
(* "write"      KeyLock::store, with its temporary file                    *)
(* "stored"     has renamed it; "wrote" has also dropped the KeyLock       *)
(* "wantshared", "wantprune"   prune, before each of its two locks         *)
(* "prune"      prune, between two files                                   *)
(* "rm"         prune, has a key and is about to remove its entry          *)
(* "clear"      clear, between two files                                   *)
(***************************************************************************)
EXTENDS Integers, FiniteSets, FiniteSetsExt

CONSTANTS
  Procs, Keys,
  None,           \* no entry, no key, no process
  Ops,            \* Ops[p]: the operations process p calls
  Schema,         \* Schema[p]: the payload schema process p opened with
  Stock,          \* what each entry file may be at the start
  Sizes,          \* sizes of the entries that are stored
  Fresh, Stale,   \* Policy::fresh, Policy::stale_if_error
  MaxEntryBytes, HardEntries, HardBytes, TargetEntries, TargetBytes,
  UnusedAfter, SweepEvery, TouchAfter,
  MaxTime,        \* bound on the clock
  MaxFaults       \* bound on crashes and I/O errors

(* An entry file: its kind, the header's schema and times, and the file's  *)
(* size and modification time.                                             *)
Entries ==
  [kind : {"ok", "garbled", "badvalue"}, schema : Nat, stored : Int,
   fresh : Int, stale : Int, size : Nat, used : Int]

(* What prune is about to remove: the entry, as it was under the lock. *)
Victims == [key : Keys, size : Nat, was : Entries]

ASSUME NoneAssumption ==
  /\ None \notin Procs /\ None \notin Keys
  /\ None \notin Entries /\ None \notin Victims
ASSUME StockAssumption ==
  Stock \subseteq Entries \cup {None} /\ Schema \in [Procs -> Nat]
ASSUME KeysAssumption == IsFiniteSet(Keys) /\ Keys \subseteq Nat
ASSUME LimitsAssumption ==
  /\ {Fresh, Stale, MaxEntryBytes, HardEntries, HardBytes, TargetEntries,
      TargetBytes, UnusedAfter, SweepEvery, TouchAfter, MaxTime, MaxFaults}
       \subseteq Nat
  /\ Sizes \subseteq Nat

VARIABLES
  clock,
  entry,       \* the entry file of each key, or None
  tmp,         \* the key whose temporary file process p is writing, or None
  orphans,     \* keys with a temporary file of a dead writer
  keyLock,     \* who has each key's lock
  held,        \* the key of process p's KeyLock, or None
  shared,      \* shared holders of maintenance.lock, per KeyLock and prune
  exclusive, pruner,    \* who has maintenance.lock exclusively, prune.lock
  lastPrune,   \* the modification time of prune.lock
  pc, arg, how, snap, at,    \* each process's call and its locals
  todo, kept, left, over, pnow, victim,   \* the locals of prune and clear
  calm, evicted,   \* history: nobody disturbed this prune; what it evicted
  faults

files == <<entry, tmp, orphans>>
locks == <<keyLock, held, shared, exclusive, pruner>>
call == <<arg, how, snap, at>>
pass == <<todo, kept, left, over, pnow, victim, evicted>>
vars == <<clock, files, locks, lastPrune, pc, call, pass, calm, faults>>

Names == Keys \X {"entry", "tmp"}

PCs == {"idle", "wantkey", "read", "touch", "write", "stored", "wrote",
        "wantshared", "wantprune", "prune", "rm", "clear"}

LockTypes ==
  /\ tmp \in [Procs -> Keys \cup {None}]
  /\ keyLock \in [Keys -> Procs \cup {None}]
  /\ held \in [Procs -> Keys \cup {None}]
  /\ shared \in SUBSET (Procs \X {"key", "prune"})
  /\ exclusive \in Procs \cup {None}
  /\ pruner \in Procs \cup {None}
  /\ pc \in [Procs -> PCs]
  /\ arg \in [Procs -> Keys \cup {None}]
  /\ how \in [Procs -> {"locked", "unlocked", "block", "skip"}]

FileTypes ==
  /\ clock \in Nat
  /\ entry \in [Keys -> Entries \cup {None}]
  /\ orphans \in SUBSET Keys
  /\ snap \in [Procs -> Entries \cup {None}]
  /\ at \in [Procs -> Nat]
  /\ todo \in SUBSET Names
  /\ kept \in SUBSET [used : Int, key : Keys, size : Nat]
  /\ victim \in Victims \cup {None}

TypeOK == LockTypes /\ FileTypes

(* Cache::open: the root as earlier processes left it, prune.lock stamped. *)
Init ==
  /\ clock = 0
  /\ entry \in [Keys -> Stock]
  /\ tmp = [p \in Procs |-> None]
  /\ orphans = {}
  /\ keyLock = [k \in Keys |-> None]
  /\ held = [p \in Procs |-> None]
  /\ shared = {}
  /\ exclusive = None
  /\ pruner = None
  /\ lastPrune = 0
  /\ pc = [p \in Procs |-> "idle"]
  /\ arg = [p \in Procs |-> None]
  /\ how = [p \in Procs |-> "unlocked"]
  /\ snap = [p \in Procs |-> None]
  /\ at = [p \in Procs |-> 0]
  /\ todo = {}
  /\ kept = {}
  /\ left = [entries |-> 0, bytes |-> 0]
  /\ over = FALSE
  /\ pnow = 0
  /\ victim = None
  /\ calm = FALSE
  /\ evicted = {}
  /\ faults = 0

Tick ==
  /\ clock < MaxTime
  /\ clock' = clock + 1
  /\ UNCHANGED <<files, locks, lastPrune, pc, call, pass, calm, faults>>

Goto(p, s) == pc' = [pc EXCEPT ![p] = s]

(* The call returns, and its locals are gone. *)
Return(p) ==
  /\ Goto(p, "idle")
  /\ arg' = [arg EXCEPT ![p] = None]
  /\ how' = [how EXCEPT ![p] = "unlocked"]
  /\ snap' = [snap EXCEPT ![p] = None]
  /\ at' = [at EXCEPT ![p] = 0]

(* So are those of prune and clear. *)
EndPass ==
  /\ todo' = {} /\ kept' = {} /\ evicted' = {} /\ victim' = None
  /\ left' = [entries |-> 0, bytes |-> 0]
  /\ over' = FALSE /\ pnow' = 0 /\ calm' = FALSE

(* u64::saturating_sub *)
Since(now, then) == IF now > then THEN now - then ELSE 0
-----------------------------------------------------------------------------
(* Cache::lock, and the drop of a KeyLock. *)

MaintenanceEver(p) == TRUE      \* mutant of MaintenanceShared: not waited for

(* lock_shared on maintenance.lock would be granted. *)
MaintenanceShared(p) == exclusive = None

Lock(p, k) ==
  /\ pc[p] = "idle" /\ held[p] = None /\ "lock" \in Ops[p]
  /\ MaintenanceShared(p)
  /\ shared' = shared \cup {<<p, "key">>}
  /\ arg' = [arg EXCEPT ![p] = k]
  /\ Goto(p, "wantkey")
  /\ UNCHANGED <<clock, files, keyLock, held, exclusive, pruner, lastPrune,
                 how, snap, at, pass, calm, faults>>

TakeKey(p) ==
  /\ pc[p] = "wantkey"
  /\ keyLock[arg[p]] = None
  /\ keyLock' = [keyLock EXCEPT ![arg[p]] = p]
  /\ held' = [held EXCEPT ![p] = arg[p]]
  /\ calm' = FALSE
  /\ Return(p)
  /\ UNCHANGED <<clock, files, shared, exclusive, pruner, lastPrune, pass, faults>>

(* The fields of a KeyLock go: the key's lock, then the maintenance lock. *)
DropKeyLock(p) ==
  /\ keyLock' = [keyLock EXCEPT ![held[p]] = None]
  /\ held' = [held EXCEPT ![p] = None]
  /\ shared' = shared \ {<<p, "key">>}
  /\ UNCHANGED <<exclusive, pruner>>

Unlock(p) ==
  /\ pc[p] = "idle" /\ held[p] # None
  /\ DropKeyLock(p)
  /\ UNCHANGED <<clock, files, lastPrune, pc, call, pass, calm, faults>>
-----------------------------------------------------------------------------
(* Cache::lookup and KeyLock::lookup: `read` with locked FALSE or TRUE. *)

(* private::read: the bytes and the metadata of one open file. *)
Lookup(p, k, m) ==
  /\ pc[p] = "idle"
  /\ \/ m = "locked" /\ held[p] = k
     \/ m = "unlocked" /\ "read" \in Ops[p]
  /\ snap' = [snap EXCEPT ![p] = entry[k]]
  /\ arg' = [arg EXCEPT ![p] = k]
  /\ how' = [how EXCEPT ![p] = m]
  /\ Goto(p, "read")
  /\ UNCHANGED <<clock, files, locks, lastPrune, at, pass, calm, faults>>

(* Header::consistent, and the header's digest is the key's. *)
Consistent(e) == e.stored <= e.fresh /\ e.fresh <= e.stale

Unreadable(e) == e = None \/ e.size > MaxEntryBytes \/ e.kind = "garbled"

Newer(p, e) == ~Unreadable(e) /\ e.schema > Schema[p]

Usable(p, e, now) ==
  /\ ~Unreadable(e) /\ e.schema <= Schema[p]
  /\ Consistent(e) /\ now <= e.stale /\ e.kind = "ok"

DiscardUnlocked(m, k) == [entry EXCEPT ![k] = None]      \* mutant of Discard

(* discard: by path, and only under the key's lock. *)
Discard(m, k) == IF m = "locked" THEN [entry EXCEPT ![k] = None] ELSE entry

Miss(p) ==
  /\ pc[p] = "read"
  /\ ~Usable(p, snap[p], clock)
  /\ entry' = IF Newer(p, snap[p]) THEN entry ELSE Discard(how[p], arg[p])
  /\ Return(p)
  /\ UNCHANGED <<clock, tmp, orphans, locks, lastPrune, pass, calm, faults>>

(* Lookup::Fresh or Lookup::Stale; the use is recorded when it is due. *)
Hit(p) ==
  /\ pc[p] = "read"
  /\ Usable(p, snap[p], clock)
  /\ IF Since(clock, snap[p].used) > TouchAfter
     THEN /\ Goto(p, "touch")
          /\ at' = [at EXCEPT ![p] = clock]
          /\ snap' = [snap EXCEPT ![p] = None]
          /\ UNCHANGED <<arg, how>>
     ELSE Return(p)
  /\ UNCHANGED <<clock, files, locks, lastPrune, pass, calm, faults>>

(* private::touch: by path, so it may reach a file other than the one that *)
(* was read, and with the time at which the entry was judged.              *)
Touch(p) ==
  /\ pc[p] = "touch"
  /\ entry' = IF entry[arg[p]] = None THEN entry
              ELSE [entry EXCEPT ![arg[p]].used = at[p]]
  /\ calm' = FALSE
  /\ Return(p)
  /\ UNCHANGED <<clock, tmp, orphans, locks, lastPrune, pass, faults>>
-----------------------------------------------------------------------------
(* KeyLock::store, which consumes the KeyLock. *)

TooLarge(p, size) ==
  /\ pc[p] = "idle" /\ held[p] # None /\ "store" \in Ops[p]
  /\ size > MaxEntryBytes
  /\ DropKeyLock(p)
  /\ UNCHANGED <<clock, files, lastPrune, pc, call, pass, calm, faults>>

Store(p, size) ==
  /\ pc[p] = "idle" /\ held[p] # None /\ "store" \in Ops[p]
  /\ size <= MaxEntryBytes
  /\ snap' = [snap EXCEPT ![p] =
       [kind |-> "ok", schema |-> Schema[p], stored |-> clock,
        fresh |-> clock + Fresh, stale |-> clock + Fresh + Stale,
        size |-> size, used |-> clock]]
  /\ tmp' = [tmp EXCEPT ![p] = held[p]]
  /\ Goto(p, "write")
  /\ UNCHANGED <<clock, entry, orphans, locks, lastPrune, arg, how, at, pass,
                 calm, faults>>

(* set_modified, at some time since the store began, and the rename. *)
Persist(p) ==
  /\ pc[p] = "write"
  /\ tmp[p] # None
  /\ \E t \in snap[p].stored .. clock :
       entry' = [entry EXCEPT ![held[p]] = [snap[p] EXCEPT !.used = t]]
  /\ tmp' = [tmp EXCEPT ![p] = None]
  /\ Goto(p, "stored")
  /\ UNCHANGED <<clock, orphans, locks, lastPrune, call, pass, calm, faults>>

(* The write, the rename or the directory's sync after it fails: the       *)
(* temporary file and the KeyLock go, and no maintenance follows.          *)
StoreFails(p) ==
  /\ pc[p] \in {"write", "stored"}
  /\ faults < MaxFaults
  /\ faults' = faults + 1
  /\ tmp' = [tmp EXCEPT ![p] = None]
  /\ DropKeyLock(p)
  /\ Return(p)
  /\ UNCHANGED <<clock, entry, orphans, lastPrune, pass, calm>>

StoreUnlock(p) ==
  /\ pc[p] = "stored"
  /\ DropKeyLock(p)
  /\ Goto(p, "wrote")
  /\ UNCHANGED <<clock, files, lastPrune, call, pass, calm, faults>>

(* usage: entry files and their bytes, temporary files not counted. *)
Present(e) == {k \in Keys : e[k] # None}

BytesOf(e) == MapThenSumSet(LAMBDA k : e[k].size, Present(e))

Usage == [entries |-> Cardinality(Present(entry)), bytes |-> BytesOf(entry)]

OverHard(u) == u.entries > HardEntries \/ u.bytes > HardBytes

SweepDue == Since(clock, lastPrune) > SweepEvery

Maintain(p) ==
  /\ pc[p] = "wrote"
  /\ IF OverHard(Usage) \/ SweepDue
     THEN /\ Goto(p, "wantshared")
          /\ how' = [how EXCEPT ![p] = "skip"]
          /\ UNCHANGED <<arg, snap, at>>
     ELSE Return(p)
  /\ UNCHANGED <<clock, files, locks, lastPrune, pass, calm, faults>>
-----------------------------------------------------------------------------
(* prune, from Cache::prune (Wait::Block) or a store (Wait::Skip).  Its    *)
(* remove_unheld_locks is LockFile's.                                      *)

Prune(p) ==
  /\ pc[p] = "idle" /\ "prune" \in Ops[p]
  /\ how' = [how EXCEPT ![p] = "block"]
  /\ Goto(p, "wantshared")
  /\ UNCHANGED <<clock, files, locks, lastPrune, arg, snap, at, pass, calm,
                 faults>>

PruneShared(p) ==
  /\ pc[p] = "wantshared"
  /\ MaintenanceShared(p)
  /\ shared' = shared \cup {<<p, "prune">>}
  /\ Goto(p, "wantprune")
  /\ UNCHANGED <<clock, files, keyLock, held, exclusive, pruner, lastPrune,
                 call, pass, calm, faults>>

(* A lock is taken: Maintenance::Deferred(Error::Lock). *)
PruneDeferred(p) ==
  /\ how[p] = "skip"
  /\ \/ pc[p] = "wantshared" /\ ~MaintenanceShared(p)
     \/ pc[p] = "wantprune" /\ pruner # None
  /\ shared' = shared \ {<<p, "prune">>}
  /\ Return(p)
  /\ UNCHANGED <<clock, files, keyLock, held, exclusive, pruner, lastPrune,
                 pass, calm, faults>>

(* The file names in the entries directory. *)
Listed ==
  {<<k, "entry">> : k \in {k \in Keys : entry[k] # None}}
    \cup {<<k, "tmp">> : k \in orphans}
    \cup {<<tmp[q], "tmp">> : q \in {q \in Procs : tmp[q] # None}}

ReadEntries == {n \in Listed : n[2] = "entry"}      \* mutant of ReadDir

ReadDir == Listed

(* The usage before, the time, and read_dir: a file that appears during    *)
(* the listing is in it or not.                                            *)
PruneBegin(p) ==
  /\ pc[p] = "wantprune"
  /\ pruner = None
  /\ pruner' = p
  /\ left' = Usage
  /\ over' = OverHard(Usage)
  /\ pnow' = clock
  /\ \E late \in SUBSET (Names \ Listed) : todo' = ReadDir \cup late
  /\ kept' = {}
  /\ evicted' = {}
  /\ calm' = \A k \in Keys : keyLock[k] = None
  /\ Goto(p, "prune")
  /\ UNCHANGED <<clock, files, keyLock, held, shared, exclusive, lastPrune,
                 call, victim, faults>>

TryKeyWaits(k) == FALSE      \* mutant of TryKeyFails: prune waits for a key
TryKeyNever(k) == TRUE       \* mutant of TryKey: no lock is asked for

(* try_key, under the lock's mutex: the key is free, or someone has it. *)
TryKey(k) == keyLock[k] = None
TryKeyFails(k) == keyLock[k] # None

(* A held key is skipped, and so is a name with no file any more. *)
ScanSkip(p, n) ==
  /\ pc[p] = "prune" /\ n \in todo
  /\ \/ TryKeyFails(n[1])
     \/ TryKey(n[1]) /\ n \notin Listed
  /\ todo' = todo \ {n}
  /\ UNCHANGED <<clock, files, locks, lastPrune, pc, call, kept, left, over,
                 pnow, victim, evicted, calm, faults>>

(* A temporary file of a key nobody holds. *)
ScanTmp(p, n) ==
  /\ pc[p] = "prune" /\ n \in todo /\ n[2] = "tmp" /\ n \in Listed
  /\ TryKey(n[1])
  /\ orphans' = orphans \ {n[1]}
  /\ tmp' = [q \in Procs |-> IF tmp[q] = n[1] THEN None ELSE tmp[q]]
  /\ todo' = todo \ {n}
  /\ UNCHANGED <<clock, entry, locks, lastPrune, pc, call, kept, left, over,
                 pnow, victim, evicted, calm, faults>>

(* `live` and the size limit. *)
Expired(e, now) == Unreadable(e) \/ ~Consistent(e) \/ now > e.stale

Unused(e, now) == Since(now, e.used) > UnusedAfter

(* The entry is to go, or its header cannot be read, which `live` takes    *)
(* for no header: prune keeps its key's lock until it has gone.            *)
ScanEntry(p, n) ==
  /\ pc[p] = "prune" /\ n \in todo /\ n[2] = "entry" /\ n \in Listed
  /\ TryKey(n[1])
  /\ \/ /\ Expired(entry[n[1]], pnow) \/ Unused(entry[n[1]], pnow)
        /\ UNCHANGED faults
     \/ faults < MaxFaults /\ faults' = faults + 1
  /\ keyLock' = [keyLock EXCEPT ![n[1]] = p]
  /\ victim' = [key |-> n[1], size |-> entry[n[1]].size,
                was |-> entry[n[1]]]
  /\ todo' = todo \ {n}
  /\ Goto(p, "rm")
  /\ UNCHANGED <<clock, files, held, shared, exclusive, pruner, lastPrune,
                 call, kept, left, over, pnow, evicted, calm>>

(* The entry stays, as a candidate for eviction. *)
ScanKeep(p, n) ==
  /\ pc[p] = "prune" /\ n \in todo /\ n[2] = "entry" /\ n \in Listed
  /\ TryKey(n[1])
  /\ ~Expired(entry[n[1]], pnow) /\ ~Unused(entry[n[1]], pnow)
  /\ kept' = kept \cup {[used |-> entry[n[1]].used, key |-> n[1],
                         size |-> entry[n[1]].size]}
  /\ todo' = todo \ {n}
  /\ UNCHANGED <<clock, files, locks, lastPrune, pc, call, left, over, pnow,
                 victim, evicted, calm, faults>>

(* private::remove by path, and the Held goes. *)
Remove(p) ==
  /\ pc[p] = "rm"
  /\ entry' = [entry EXCEPT ![victim.key] = None]
  /\ keyLock' = [keyLock EXCEPT ![victim.key] = None]
  /\ left' = [entries |-> Since(left.entries, 1),
              bytes |-> Since(left.bytes, victim.size)]
  /\ victim' = None
  /\ Goto(p, "prune")
  /\ UNCHANGED <<clock, tmp, orphans, held, shared, exclusive, pruner,
                 lastPrune, call, todo, kept, over, pnow, evicted, calm,
                 faults>>

Lower(a, b) == IF a < b THEN a ELSE b

(* Mutant of AtTarget: the entries alone are counted. *)
AtEntryTarget(u) == u.entries <= Lower(TargetEntries, HardEntries)

AtTarget(u) ==
  /\ u.entries <= Lower(TargetEntries, HardEntries)
  /\ u.bytes <= Lower(TargetBytes, HardBytes)

YoungestFirst(r, s) == r.used >= s.used      \* mutant of SortsBefore

(* The order of `kept`: by use, then by digest. *)
SortsBefore(r, s) ==
  r.used < s.used \/ (r.used = s.used /\ r.key <= s.key)

Evicting(p) ==
  pc[p] = "prune" /\ todo = {} /\ over /\ kept # {} /\ ~AtTarget(left)

(* Still the entry that was sorted, by its modification time. *)
SameUse(r) == entry[r.key] # None /\ entry[r.key].used = r.used

(* The least recently used candidate is held, gone or used since: skipped. *)
EvictSkip(p) ==
  /\ Evicting(p)
  /\ \E r \in kept :
       /\ \A s \in kept : SortsBefore(r, s)
       /\ TryKeyFails(r.key) \/ (TryKey(r.key) /\ ~SameUse(r))
       /\ kept' = kept \ {r}
  /\ UNCHANGED <<clock, files, locks, lastPrune, pc, call, todo, left, over,
                 pnow, victim, evicted, calm, faults>>

Evict(p) ==
  /\ Evicting(p)
  /\ \E r \in kept :
       /\ \A s \in kept : SortsBefore(r, s)
       /\ TryKey(r.key) /\ SameUse(r)
       /\ keyLock' = [keyLock EXCEPT ![r.key] = p]
       /\ victim' = [key |-> r.key, size |-> r.size, was |-> entry[r.key]]
       /\ kept' = kept \ {r}
       /\ evicted' = evicted \cup {r}
  /\ Goto(p, "rm")
  /\ UNCHANGED <<clock, files, held, shared, exclusive, pruner, lastPrune,
                 call, todo, left, over, pnow, calm, faults>>

(* prune.lock is stamped with the time the prune began. *)
PruneEnd(p) ==
  /\ pc[p] = "prune" /\ todo = {} /\ ~Evicting(p)
  /\ lastPrune' = pnow
  /\ pruner' = None
  /\ shared' = shared \ {<<p, "prune">>}
  /\ Return(p) /\ EndPass
  /\ UNCHANGED <<clock, files, keyLock, held, exclusive, faults>>

KeptHeld(p) == keyLock      \* mutant of DroppedHeld: an early return keeps it

(* The `_held` of the file in hand goes with the call. *)
DroppedHeld(p) ==
  IF pc[p] = "rm" THEN [keyLock EXCEPT ![victim.key] = None] ELSE keyLock

(* A file cannot be removed or looked at: prune.lock is not stamped. *)
PruneFails(p) ==
  /\ pc[p] \in {"prune", "rm"}
  /\ faults < MaxFaults
  /\ faults' = faults + 1
  /\ keyLock' = DroppedHeld(p)
  /\ pruner' = None
  /\ shared' = shared \ {<<p, "prune">>}
  /\ Return(p) /\ EndPass
  /\ UNCHANGED <<clock, files, held, exclusive, lastPrune>>
-----------------------------------------------------------------------------
(* Cache::clear, which waits for every KeyLock and every prune. *)

Clear(p) ==
  /\ pc[p] = "idle" /\ held[p] = None /\ "clear" \in Ops[p]
  /\ exclusive = None /\ shared = {}
  /\ exclusive' = p
  /\ todo' = Listed
  /\ Goto(p, "clear")
  /\ UNCHANGED <<clock, files, keyLock, held, shared, pruner, lastPrune, call,
                 kept, left, over, pnow, victim, evicted, calm, faults>>

ClearRemove(p, n) ==
  /\ pc[p] = "clear" /\ n \in todo
  /\ IF n[2] = "entry"
     THEN entry' = [entry EXCEPT ![n[1]] = None] /\ UNCHANGED <<tmp, orphans>>
     ELSE /\ orphans' = orphans \ {n[1]}
          /\ tmp' = [q \in Procs |-> IF tmp[q] = n[1] THEN None ELSE tmp[q]]
          /\ UNCHANGED entry
  /\ todo' = todo \ {n}
  /\ UNCHANGED <<clock, locks, lastPrune, pc, call, kept, left, over, pnow,
                 victim, evicted, calm, faults>>

ClearEnd(p) ==
  /\ pc[p] = "clear" /\ todo = {}
  /\ exclusive' = None
  /\ Return(p) /\ EndPass
  /\ UNCHANGED <<clock, files, keyLock, held, shared, pruner, lastPrune,
                 faults>>

ClearFails(p) ==
  /\ pc[p] = "clear" /\ faults < MaxFaults
  /\ faults' = faults + 1
  /\ exclusive' = None
  /\ Return(p) /\ EndPass
  /\ UNCHANGED <<clock, files, keyLock, held, shared, pruner, lastPrune>>
-----------------------------------------------------------------------------
(* A call of the file system or a lock fails where nothing is half done:   *)
(* the error returns, and the locks the call had taken itself go.          *)
CallFails(p) ==
  /\ pc[p] \in {"wantkey", "read", "wrote", "wantshared", "wantprune"}
  /\ faults < MaxFaults
  /\ faults' = faults + 1
  /\ shared' = shared \ {<<p, IF pc[p] = "wantkey" THEN "key" ELSE "prune">>}
  /\ Return(p)
  /\ UNCHANGED <<clock, files, keyLock, held, exclusive, pruner, lastPrune,
                 pass, calm>>

(* The process dies: the kernel drops its locks, its files stay. *)
Crash(p) ==
  /\ faults < MaxFaults
  /\ pc[p] # "idle" \/ held[p] # None
  /\ faults' = faults + 1
  /\ tmp' = [tmp EXCEPT ![p] = None]
  /\ orphans' = orphans \cup ({tmp[p]} \ {None})
  /\ keyLock' = [k \in Keys |-> IF keyLock[k] = p THEN None ELSE keyLock[k]]
  /\ held' = [held EXCEPT ![p] = None]
  /\ shared' = shared \ {<<p, "key">>, <<p, "prune">>}
  /\ exclusive' = IF exclusive = p THEN None ELSE exclusive
  /\ pruner' = IF pruner = p THEN None ELSE pruner
  /\ IF p \in {pruner, exclusive} THEN EndPass ELSE UNCHANGED <<pass, calm>>
  /\ Return(p)
  /\ UNCHANGED <<clock, entry, lastPrune>>

PruneStep(p) ==
  \/ PruneShared(p) \/ PruneDeferred(p) \/ PruneBegin(p)
  \/ \E n \in Names :
       ScanSkip(p, n) \/ ScanTmp(p, n) \/ ScanEntry(p, n) \/ ScanKeep(p, n)
  \/ Remove(p) \/ EvictSkip(p) \/ Evict(p) \/ PruneEnd(p)

ClearStep(p) == (\E n \in Names : ClearRemove(p, n)) \/ ClearEnd(p)

Next ==
  \/ Tick
  \/ \E p \in Procs :
       \/ \E k \in Keys :
            Lock(p, k) \/ \E m \in {"locked", "unlocked"} : Lookup(p, k, m)
       \/ \E size \in Sizes : TooLarge(p, size) \/ Store(p, size)
       \/ TakeKey(p) \/ Unlock(p) \/ Miss(p) \/ Hit(p) \/ Touch(p)
       \/ Persist(p) \/ StoreFails(p) \/ StoreUnlock(p) \/ Maintain(p)
       \/ Prune(p) \/ PruneStep(p) \/ PruneFails(p)
       \/ Clear(p) \/ ClearStep(p) \/ ClearFails(p)
       \/ CallFails(p) \/ Crash(p)

Spec == Init /\ [][Next]_vars

(* A process in prune or clear keeps running.  A process with a KeyLock    *)
(* need not: it may fetch for ever.                                        *)
Fairness == \A p \in Procs : WF_vars(PruneStep(p)) /\ WF_vars(ClearStep(p))

FairSpec == Spec /\ Fairness
-----------------------------------------------------------------------------
(* The same file, whatever a reader's touch did to its times. *)
Same(e, f) ==
  /\ e # None /\ f # None
  /\ e.kind = f.kind /\ e.schema = f.schema /\ e.size = f.size
  /\ e.stored = f.stored /\ e.fresh = f.fresh /\ e.stale = f.stale

(* "An unlocked read never deletes", and no removal loses a store: outside *)
(* clear, the file that goes is the one its remover looked at under the    *)
(* key's lock, never one a writer put there in between (`read`, `discard`, *)
(* `prune`).                                                               *)
JudgedStep ==
  \A k \in Keys : entry[k] # None /\ entry'[k] = None /\ exclusive = None =>
    \/ victim # None /\ victim.key = k /\ Same(victim.was, entry[k])
    \/ \E p \in Procs :
         pc[p] = "read" /\ arg[p] = k /\ held[p] = k /\ Same(snap[p], entry[k])

RemovesWhatItJudged == [][JudgedStep]_vars

(* "A writer holds its key's lock while its temporary file exists": no     *)
(* prune takes the temporary file of a live store from under its rename.   *)
WriterKeepsTmp == \A p \in Procs : pc[p] = "write" => tmp[p] = held[p]

(* The inductive invariant: who has which lock, and what follows for the   *)
(* files while it is had.                                                  *)
LocksMatch ==
  /\ \A p \in Procs : held[p] # None =>
       keyLock[held[p]] = p /\ <<p, "key">> \in shared
  /\ \A p \in Procs : pc[p] = "wantkey" =>
       held[p] = None /\ arg[p] # None /\ <<p, "key">> \in shared
  /\ \A p \in Procs : pc[p] \in {"write", "stored"} => held[p] # None
  /\ \A p \in Procs : pc[p] \in {"wantprune", "prune", "rm"} =>
       <<p, "prune">> \in shared
  /\ \A p \in Procs : pruner = p <=> pc[p] \in {"prune", "rm"}
  /\ \A p \in Procs : exclusive = p <=> pc[p] = "clear"
  /\ exclusive # None => shared = {}

(* No lock outlives the call or the KeyLock that took it, whichever way    *)
(* the call ends: a key's lock is a KeyLock's or that of the file a prune  *)
(* removes, and nobody who is outside the cache keeps a prune or a clear   *)
(* of another process waiting (`lock`, `store`, `prune`, `clear`).         *)
LocksAreOwned ==
  \A p \in Procs :
    /\ \A k \in Keys : keyLock[k] = p =>
         held[p] = k \/ (pc[p] = "rm" /\ victim.key = k)
    /\ <<p, "key">> \in shared => held[p] # None \/ pc[p] = "wantkey"
    /\ <<p, "prune">> \in shared => pc[p] \in {"wantprune", "prune", "rm"}
    /\ pruner = p => pc[p] \in {"prune", "rm"}
    /\ exclusive = p => pc[p] = "clear"

(* Prune has the lock of the file it is about to remove, and that file is  *)
(* the one it looked at.                                                   *)
VictimMatches ==
  pruner # None /\ pc[pruner] = "rm" =>
    /\ victim # None
    /\ keyLock[victim.key] = pruner /\ held[pruner] # victim.key
    /\ Same(victim.was, entry[victim.key])

(* Under the key's lock, what was read is what is there. *)
ReadMatches ==
  \A p \in Procs :
    /\ pc[p] \in {"read", "touch"} => arg[p] # None
    /\ pc[p] = "read" /\ how[p] = "locked" =>
         /\ held[p] = arg[p]
         /\ snap[p] = None => entry[arg[p]] = None
         /\ snap[p] # None => Same(snap[p], entry[arg[p]])

TmpMatches ==
  \A p \in Procs :
    /\ pc[p] = "write" => tmp[p] = held[p] /\ snap[p] # None
    /\ tmp[p] # None => pc[p] = "write"

IInv ==
  /\ TypeOK
  /\ LocksMatch
  /\ VictimMatches
  /\ ReadMatches
  /\ TmpMatches

(* A clear has yet to remove every file there is. *)
ClearLists == exclusive # None => Listed \subseteq todo

(* Prune has yet to look at this entry, or is about to remove it. *)
Pending(k) ==
  <<k, "entry">> \in todo \/ (pc[pruner] = "rm" /\ victim.key = k)

(* While nobody disturbs a prune: it alone has a key's lock, every file is *)
(* yet to be looked at, about to go or a candidate, and a candidate is     *)
(* still what was sorted and no older than what was evicted.               *)
CalmLocks ==
  /\ pruner # None
  /\ \A p \in Procs : held[p] = None
  /\ \A k \in Keys : keyLock[k] # None => pc[pruner] = "rm" /\ victim.key = k

CalmFiles ==
  /\ \A k \in orphans : <<k, "tmp">> \in todo
  /\ \A k \in Keys : entry[k] # None => Pending(k) \/ \E r \in kept : r.key = k

CalmKept ==
  \A r \in kept :
    /\ ~Pending(r.key)
    /\ entry[r.key] # None
    /\ r.used = entry[r.key].used /\ r.size = entry[r.key].size
    /\ ~Expired(entry[r.key], pnow) /\ ~Unused(entry[r.key], pnow)

CalmEvicted ==
  /\ evicted # {} => todo = {}
  /\ \A r \in evicted, s \in kept : r.used <= s.used

CalmPass == calm => CalmLocks /\ CalmFiles /\ CalmKept /\ CalmEvicted

(* Its count is the usage, and it knows what the victim takes from it. *)
CalmCounts ==
  calm => /\ left = Usage
          /\ pc[pruner] = "rm" => victim.size = entry[victim.key].size

(* "Removes every entry": at the end of a clear nothing is left, although  *)
(* it lists the directory before it removes.                               *)
ClearEmpties == [][\A p \in Procs : ClearEnd(p) => Listed = {}]_vars

(* "until entries and bytes are at or below their targets": a prune that   *)
(* nobody disturbed ends at both targets, and its report of what is left   *)
(* is the truth.                                                           *)
ReachesTarget ==
  [][\A p \in Procs : PruneEnd(p) /\ calm =>
       /\ left = Usage
       /\ over => /\ Usage.entries <= TargetEntries
                  /\ Usage.entries <= HardEntries
                  /\ Usage.bytes <= TargetBytes
                  /\ Usage.bytes <= HardBytes]_vars

(* "every removed entry was expired or used less recently than every kept  *)
(* one", for an undisturbed prune.                                         *)
EvictsOldest ==
  [][\A p \in Procs : PruneEnd(p) /\ calm =>
       \A r \in evicted, k \in Keys : entry[k] # None =>
         r.used <= entry[k].used]_vars

(* An undisturbed prune leaves no expired or unused entry, and no          *)
(* temporary file of a process that died.                                  *)
SweepsAll ==
  [][\A p \in Procs : PruneEnd(p) /\ calm =>
       /\ orphans = {}
       /\ \A k \in Keys : entry[k] # None =>
            ~Expired(entry[k], pnow) /\ ~Unused(entry[k], pnow)]_vars

(* "Prune never waits for a key lock": a prune that has prune.lock ends,   *)
(* and so does one a store runs, which waits for no lock at all, although  *)
(* a KeyLock, its own thread's included, may be held for ever.             *)
PruneReturns ==
  \A p \in Procs :
    (\/ pc[p] \in {"prune", "rm"}
     \/ pc[p] \in {"wantshared", "wantprune"} /\ how[p] = "skip")
      ~> pc[p] = "idle"
=============================================================================
