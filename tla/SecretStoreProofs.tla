------------------------- MODULE SecretStoreProofs -------------------------
(***************************************************************************)
(* No secret is served past its maximum age, for any number of threads and *)
(* keys, any lifetimes and any length of a run.                            *)
(***************************************************************************)
EXTENDS SecretStore, TLAPS

LEMMA InitInv == Init => IInv
  BY TimesAssumption DEF Init, IInv, TypeOK, Nothing

(* A get changes no more of a Held than when it was read. *)
LEMMA RestartKeeps ==
  ASSUME NEW h \in Held, NEW t \in Nat
  PROVE  /\ Reread(h, t) \in Held
         /\ Reread(h, t).stored = h.stored /\ Reread(h, t).born = h.born
         /\ Reread(h, t).used >= h.used
<1>1. Restart(h, t) \in Held
  BY DEF Held, Restart
<1>2. Restart(h, t).stored = h.stored /\ Restart(h, t).born = h.born
  BY DEF Held, Restart
<1>3. Later(h.used, t) \in Nat /\ Later(h.used, t) >= h.used
  BY DEF Held, Later
<1> HIDE DEF Restart
<1>4. QED
  BY <1>1, <1>2, <1>3 DEF Held, Reread

(* Every step keeps the invariant. *)
LEMMA NextInv == IInv /\ [Next]_vars => IInv'
<1> SUFFICES ASSUME IInv, [Next]_vars PROVE IInv'
  OBVIOUS
<1> USE DEF IInv, TypeOK, callers, task
<1>1. CASE UNCHANGED vars
  BY <1>1 DEF vars
<1>2. CASE Tick
  BY <1>2 DEF Tick
<1>3. CASE SweepTick
  BY <1>3, TimesAssumption DEF SweepTick
<1>4. CASE Sweep
  BY <1>4 DEF Sweep
<1>5. CASE DropStore
  BY <1>5 DEF DropStore, Nothing
<1>6. ASSUME NEW c \in Callers, NEW k \in Keys, NEW op \in Ops, Call(c, op, k)
      PROVE  IInv'
  BY <1>6 DEF Call
<1>7. ASSUME NEW c \in Callers, PutWith(c) PROVE IInv'
  <2>1. PICK l \in Lifetimes :
          secrets' = [secrets EXCEPT ![arg[c]] =
            [stored |-> now[c], read |-> now[c], idle |-> l.idle,
             maxAge |-> l.maxAge, born |-> now[c], used |-> now[c]]]
    BY <1>7 DEF PutWith
  <2>2. l.idle \in Nat /\ l.maxAge \in Nat
    BY TimesAssumption
  <2>3. [stored |-> now[c], read |-> now[c], idle |-> l.idle,
         maxAge |-> l.maxAge, born |-> now[c], used |-> now[c]] \in Held
    BY <2>2 DEF Held
  <2>4. /\ pc' \in [Callers -> Ops \cup {"idle", "reading"}]
        /\ now' \in [Callers -> Nat]
        /\ UNCHANGED <<clock, guard, arg, inside, sweeper, due, snow, owned>>
    BY <1>7 DEF PutWith, Back
  <2>5. \A k \in Keys : secrets'[k] # None =>
          secrets'[k].stored = secrets'[k].born
            /\ secrets'[k].born <= secrets'[k].used
    BY <2>1
  <2>6. QED
    BY <2>1, <2>3, <2>4, <2>5
<1>8. ASSUME NEW c \in Callers, GetNone(c) PROVE IInv'
  BY <1>8 DEF GetNone, Back
<1>9. ASSUME NEW c \in Callers, GetExpired(c) PROVE IInv'
  BY <1>9 DEF GetExpired, Back
<1>10. ASSUME NEW c \in Callers, Get(c) PROVE IInv'
  <2> DEFINE h == secrets[arg[c]]
             g == Reread(h, now[c])
  <2>1. h \in Held /\ secrets' = [secrets EXCEPT ![arg[c]] = g]
    <3>1. h # None /\ arg[c] \in Keys
      BY <1>10 DEF Get
    <3>2. QED
      BY <1>10, <3>1 DEF Get
  <2>2. g \in Held /\ g.stored = h.stored /\ g.born = h.born /\ g.used >= h.used
    BY <2>1, RestartKeeps
  <2> HIDE DEF g
  <2>3. /\ pc' \in [Callers -> Ops \cup {"idle", "reading"}]
        /\ now' \in [Callers -> Nat] /\ inside' \subseteq Callers
        /\ guard' = None
        /\ UNCHANGED <<clock, arg, sweeper, due, snow, owned>>
    BY <1>10 DEF Get, Unguard
  <2>4. secrets' \in [Keys -> Held \cup {None}]
    BY <2>1, <2>2
  <2>5. \A k \in Keys : secrets'[k] # None =>
          secrets'[k].stored = secrets'[k].born
            /\ secrets'[k].born <= secrets'[k].used
    <3>1. h # None
      BY <2>1, NoneAssumption
    <3>2. h.stored = h.born /\ h.born <= h.used
      BY <3>1
    <3>3. g.stored = g.born /\ g.born <= g.used
      BY <2>1, <2>2, <3>2 DEF Held
    <3>4. QED
      BY <2>1, <3>3
  <2>6. QED
    BY <2>3, <2>4, <2>5
<1>11. ASSUME NEW c \in Callers, Remove(c) PROVE IInv'
  BY <1>11 DEF Remove, Back
<1>12. ASSUME NEW c \in Callers, Clear(c) PROVE IInv'
  BY <1>12 DEF Clear, Back, Nothing
<1>13. ASSUME NEW c \in Callers, ReadEnds(c) PROVE IInv'
  BY <1>13 DEF ReadEnds
<1> HIDE DEF IInv, TypeOK, callers, task
<1>14. QED
  BY <1>1, <1>2, <1>3, <1>4, <1>5, <1>6, <1>7, <1>8, <1>9, <1>10, <1>11,
     <1>12, <1>13
  DEF Next, CallStep

(* IInv holds in every reachable state. *)
THEOREM Inductive == Spec => []IInv
  BY InitInv, NextInv, PTL DEF Spec

(* SecretStore::get serves no secret whose maximum age was over when it    *)
(* was called: no interleaving of reads renews the age.                    *)
THEOREM InAge == Spec => ServedInAge
<1> DEFINE Served == \A c \in Callers : Get(c) =>
             LET h == secrets[arg[c]] IN ~Past(now[c], h.born, h.maxAge)
<1>1. IInv => Served
  BY DEF IInv, TypeOK, Get, Expired
<1>2. QED
  BY <1>1, Inductive, PTL DEF ServedInAge
=============================================================================
