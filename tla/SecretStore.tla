---------------------------- MODULE SecretStore ----------------------------
(***************************************************************************)
(* `SecretStore` of crates/unixd/src/secrets.rs: secrets in memory, with   *)
(* an idle and a maximum lifetime, shared by the threads of a daemon and   *)
(* swept by a tokio task that has only a Weak reference to the store.      *)
(*                                                                         *)
(* Every operation reads the clock before it locks the map.  A secret is   *)
(* zeroed when its last Arc goes: the map's, or that of a reader inside    *)
(* `get`'s closure, which may itself call the store.                       *)
(*                                                                         *)
(* Caller:  "idle"      outside the store                                  *)
(*          "put", "get", "remove", "clear"   called, before the lock      *)
(*          "reading"   in the closure of `get`, with a secret             *)
(* Sweeper: "none"      sweep_every is zero                                *)
(*          "waiting"   in `ticks.tick`                                    *)
(*          "sweeping"  has an Arc of the store and the time, not the lock *)
(*          "ended"     found the store dropped                            *)
(***************************************************************************)
EXTENDS Integers

CONSTANTS
  Callers, Keys,
  None,          \* no secret, no caller
  Lifetimes,     \* the pairs of idle and max_age that put_with is given
  SweepEvery,
  MaxTime        \* bound on the clock

(* What the map has under a key.  `born` and `used` are history: when the  *)
(* secret was put, and the latest time a put or a get of it read.          *)
Held ==
  [stored : Nat, read : Nat, idle : Nat, maxAge : Nat, born : Nat, used : Nat]

ASSUME NoneAssumption == None \notin Callers /\ None \notin Held
ASSUME TimesAssumption ==
  /\ SweepEvery \in Nat /\ MaxTime \in Nat
  /\ Lifetimes \subseteq [idle : Nat, maxAge : Nat]

VARIABLES
  clock,
  secrets,    \* the map: what is held under each key, or None
  guard,      \* the caller that has kept the map's mutex, or None
  pc, arg,
  now,        \* the time each caller read before it asked for the lock
  inside,     \* callers in a closure of get, with an Arc of a secret
  sweeper, due, snow,   \* the task, its next tick, the time it read
  owned       \* somebody besides the task has an Arc of the store

vars == <<clock, secrets, guard, pc, arg, now, inside, sweeper, due, snow,
          owned>>

callers == <<pc, arg, now, inside>>
task == <<sweeper, due, snow>>

Nothing == [k \in Keys |-> None]

Ops == {"put", "get", "remove", "clear"}

TypeOK ==
  /\ clock \in Nat
  /\ secrets \in [Keys -> Held \cup {None}]
  /\ guard \in Callers \cup {None}
  /\ pc \in [Callers -> Ops \cup {"idle", "reading"}]
  /\ arg \in [Callers -> Keys]
  /\ now \in [Callers -> Nat]
  /\ inside \in SUBSET Callers
  /\ sweeper \in {"none", "waiting", "sweeping", "ended"}
  /\ due \in Nat /\ snow \in Nat
  /\ owned \in BOOLEAN

(* SecretStore::new *)
Init ==
  /\ clock = 0
  /\ secrets = Nothing
  /\ guard = None
  /\ pc = [c \in Callers |-> "idle"]
  /\ arg \in [Callers -> Keys]
  /\ now = [c \in Callers |-> 0]
  /\ inside = {}
  /\ sweeper = IF SweepEvery = 0 THEN "none" ELSE "waiting"
  /\ due = SweepEvery
  /\ snow = 0
  /\ owned = TRUE

Tick ==
  /\ clock < MaxTime
  /\ clock' = clock + 1
  /\ UNCHANGED <<secrets, guard, callers, task, owned>>
-----------------------------------------------------------------------------
(* Held::expired.  A bound of zero is off, and Instant's difference stops  *)
(* at zero, so a time before `since` is past nothing.                      *)
Past(time, since, bound) == bound # 0 /\ time - since >= bound

(* Mutant of Expired: the maximum age is forgotten. *)
ExpiredIdle(h, time) == Past(time, h.read, h.idle)

Expired(h, time) == Past(time, h.read, h.idle) \/ Past(time, h.stored, h.maxAge)

Later(a, b) == IF a > b THEN a ELSE b

(* A caller, perhaps in a closure of its own, calls an operation, which    *)
(* reads the clock if it is a put or a get.                                *)
Call(c, op, k) ==
  /\ owned
  /\ pc[c] = "idle" \/ (pc[c] = "reading" /\ op # "get")
  /\ pc' = [pc EXCEPT ![c] = op]
  /\ arg' = [arg EXCEPT ![c] = k]
  /\ now' = [now EXCEPT ![c] = clock]
  /\ UNCHANGED <<clock, secrets, guard, inside, task, owned>>

(* The call returns, to the closure it was made in if there is one. *)
Back(c) ==
  /\ pc' = [pc EXCEPT ![c] = IF c \in inside THEN "reading" ELSE "idle"]
  /\ now' = [now EXCEPT ![c] = 0]

PutWith(c) ==
  /\ pc[c] = "put" /\ guard = None
  /\ \E l \in Lifetimes :
       secrets' = [secrets EXCEPT ![arg[c]] =
         [stored |-> now[c], read |-> now[c], idle |-> l.idle,
          maxAge |-> l.maxAge, born |-> now[c], used |-> now[c]]]
  /\ Back(c)
  /\ UNCHANGED <<clock, guard, arg, inside, task, owned>>

GetNone(c) ==
  /\ pc[c] = "get" /\ guard = None
  /\ secrets[arg[c]] = None
  /\ Back(c)
  /\ UNCHANGED <<clock, secrets, guard, arg, inside, task, owned>>

GetExpired(c) ==
  /\ pc[c] = "get" /\ guard = None
  /\ secrets[arg[c]] # None /\ Expired(secrets[arg[c]], now[c])
  /\ secrets' = [secrets EXCEPT ![arg[c]] = None]
  /\ Back(c)
  /\ UNCHANGED <<clock, guard, arg, inside, task, owned>>

Unguarded(c) == c      \* mutant of Unguard: no drop(secrets) before the closure

Unguard(c) == None

(* Mutant of Restart: a read restarts both lifetimes. *)
RestartBoth(h, time) == [h EXCEPT !.read = time, !.stored = time]

(* A read restarts the idle lifetime, from the time it read the clock. *)
Restart(h, time) == [h EXCEPT !.read = time]

Reread(h, time) == [Restart(h, time) EXCEPT !.used = Later(h.used, time)]

Get(c) ==
  /\ pc[c] = "get" /\ guard = None
  /\ secrets[arg[c]] # None /\ ~Expired(secrets[arg[c]], now[c])
  /\ secrets' = [secrets EXCEPT ![arg[c]] = Reread(secrets[arg[c]], now[c])]
  /\ inside' = inside \cup {c}
  /\ now' = [now EXCEPT ![c] = 0]
  /\ guard' = Unguard(c)
  /\ pc' = [pc EXCEPT ![c] = "reading"]
  /\ UNCHANGED <<clock, arg, task, owned>>

(* The closure returns or panics, and the reader's Arc goes. *)
ReadEnds(c) ==
  /\ pc[c] = "reading"
  /\ inside' = inside \ {c}
  /\ guard' = IF guard = c THEN None ELSE guard
  /\ pc' = [pc EXCEPT ![c] = "idle"]
  /\ UNCHANGED <<clock, secrets, arg, now, task, owned>>

Remove(c) ==
  /\ pc[c] = "remove" /\ guard = None
  /\ secrets' = [secrets EXCEPT ![arg[c]] = None]
  /\ Back(c)
  /\ UNCHANGED <<clock, guard, arg, inside, task, owned>>

Clear(c) ==
  /\ pc[c] = "clear" /\ guard = None
  /\ secrets' = Nothing
  /\ Back(c)
  /\ UNCHANGED <<clock, guard, arg, inside, task, owned>>
-----------------------------------------------------------------------------
(* The sweep task, and the drop of the store. *)

(* Mutant of Strong: the task keeps an Arc of the store. *)
StrongEver == sweeper \in {"waiting", "sweeping"}

(* The task has an Arc of the store. *)
Strong == sweeper = "sweeping"

(* A tick, and Weak::upgrade. *)
SweepTick ==
  /\ sweeper = "waiting" /\ clock >= due
  /\ due' = due + SweepEvery
  /\ IF owned \/ Strong
     THEN sweeper' = "sweeping" /\ snow' = clock
     ELSE sweeper' = "ended" /\ snow' = 0
  /\ UNCHANGED <<clock, secrets, guard, callers, owned>>

(* SecretStore::sweep, and the task's Arc goes, perhaps the last one. *)
Sweep ==
  /\ sweeper = "sweeping" /\ guard = None
  /\ sweeper' = "waiting" /\ snow' = 0
  /\ secrets' = [k \in Keys |->
       IF secrets[k] # None /\ Expired(secrets[k], snow) THEN None
       ELSE IF owned \/ Strong' THEN secrets[k] ELSE None]
  /\ UNCHANGED <<clock, guard, callers, due, owned>>

(* The last Arc outside the task goes, with nobody in a call. *)
DropStore ==
  /\ owned /\ \A c \in Callers : pc[c] = "idle"
  /\ owned' = FALSE
  /\ secrets' = IF Strong THEN secrets ELSE Nothing
  /\ UNCHANGED <<clock, guard, callers, task>>
-----------------------------------------------------------------------------
CallStep(c) ==
  \/ PutWith(c) \/ GetNone(c) \/ GetExpired(c) \/ Get(c)
  \/ Remove(c) \/ Clear(c)

Next ==
  \/ Tick \/ SweepTick \/ Sweep \/ DropStore
  \/ \E c \in Callers :
       \/ \E k \in Keys, op \in Ops : Call(c, op, k)
       \/ CallStep(c) \/ ReadEnds(c)

Spec == Init /\ [][Next]_vars

(* Time passes, tokio runs the task, and a thread in a call keeps running. *)
(* A closure need not return.                                              *)
Fairness ==
  /\ WF_vars(Tick) /\ WF_vars(SweepTick) /\ WF_vars(Sweep)
  /\ \A c \in Callers : WF_vars(CallStep(c))

FairSpec == Spec /\ Fairness
-----------------------------------------------------------------------------
(* "Drop a secret this long after it was stored, however often it is       *)
(* read": no get hands out a secret that was past its maximum age when the *)
(* get was called, counted from its put.                                   *)
ServedInAge ==
  [][\A c \in Callers : Get(c) =>
       LET h == secrets[arg[c]] IN ~Past(now[c], h.born, h.maxAge)]_vars

(* The inductive invariant: the time a Held calls `stored` is that of its  *)
(* put whatever reads came since, and no caller keeps the lock.            *)
IInv ==
  /\ TypeOK
  /\ guard = None
  /\ \A k \in Keys : secrets[k] # None =>
       secrets[k].stored = secrets[k].born /\ secrets[k].born <= secrets[k].used

(* "The store is unlocked while `read` runs, so it may use the store":     *)
(* every call gets the lock and returns, a call in a closure included,     *)
(* although closures may run for ever.                                     *)
CallsReturn ==
  \A c \in Callers :
    pc[c] \in Ops ~> pc[c] \in {"idle", "reading"}

(* A secret past its maximum age leaves the map although nobody asks for   *)
(* it, and gets that were called before it was past race the sweep.        *)
AgedIsSwept ==
  \A k \in Keys :
    LET Aged == /\ secrets[k] # None
                /\ Past(clock, secrets[k].born, secrets[k].maxAge)
    IN  Aged /\ clock + SweepEvery <= MaxTime ~> ~Aged

(* "until it is dropped": when the store's last owner goes, in the middle  *)
(* of a sweep too, the map and every secret in it go.                      *)
DroppedIsZeroed == ~owned ~> secrets = Nothing

(* "A read restarts the idle lifetime", "Drop a secret nobody read for     *)
(* this long": a secret that goes as expired was neither put nor read      *)
(* within its idle lifetime, or is past its maximum age.                   *)
Due(h, time) == Past(time, h.used, h.idle) \/ Past(time, h.born, h.maxAge)

IdleKept ==
  [][/\ \A c \in Callers : GetExpired(c) => Due(secrets[arg[c]], now[c])
     /\ Sweep /\ owned => \A k \in Keys :
          secrets[k] # None /\ secrets'[k] = None => Due(secrets[k], snow)]_vars
=============================================================================
