---------------------------- MODULE SingleFlight ----------------------------
(***************************************************************************)
(* `SingleFlight` of crates/unixd/src/single_flight.rs: concurrent calls   *)
(* of `run` with one key share one run of the work.                        *)
(*                                                                         *)
(* A caller is one call of `run` after the other, on a thread of its own.  *)
(* Between two polls its future may be dropped.  The work of a flight runs *)
(* on a tokio task (external) that ends by returning, panicking, or being  *)
(* cancelled with the runtime.                                             *)
(*                                                                         *)
(* Caller:  "idle"       not in `run`                                      *)
(*          "looking"    has the map's mutex, before `flights.get`         *)
(*          "unlocking"  has its clone of the flight, and still the mutex  *)
(*          "polling"    in `flight.await`, never polled                   *)
(*          "landing"    in `tokio::spawn` of a dead runtime, which drops  *)
(*                       the task, and `Landed` with it, on this thread    *)
(*          "waiting"    was polled, and not ready                         *)
(*          "got"        has the flight's result                           *)
(* Flight:  "free"       no such flight                                    *)
(*          "built"      in the map, its task not spawned                  *)
(*          "running"    the task runs the work                            *)
(*          "ended"      the work is over, `Landed` not yet dropped        *)
(*          "landed"     `Landed` is dropped, the task's result not there  *)
(*          "done"       the JoinHandle is ready                           *)
(***************************************************************************)
CONSTANTS
  Callers,    \* threads that call run
  Keys,
  Flights,    \* identities of flights, reused once nobody refers to one
  None        \* no flight, no caller

ASSUME NoneAssumption == None \notin Flights /\ None \notin Callers

VARIABLES
  flights,   \* the map: the flight of each key, or None
  guard,     \* the caller that has the map's mutex, or None
  fstate, fkey,
  out,       \* how the work of each flight ended
  pc,
  want,      \* the key each caller asked for
  joined,    \* the flight each caller has a clone of, or None
  up         \* the tokio runtime is not shutting down

vars == <<flights, guard, fstate, fkey, out, pc, want, joined, up>>

(* The key's entry in the map, for a flight nobody may start twice. *)
Live == {"built", "running", "ended"}

FlightStates == Live \cup {"free", "landed", "done"}

PCs == {"idle", "looking", "unlocking", "polling", "landing", "waiting", "got"}

Outcomes == {"ok", "failed", "panicked"}

TypeOK ==
  /\ flights \in [Keys -> Flights \cup {None}]
  /\ guard \in Callers \cup {None}
  /\ fstate \in [Flights -> FlightStates]
  /\ fkey \in [Flights -> Keys]
  /\ out \in [Flights -> Outcomes]
  /\ pc \in [Callers -> PCs]
  /\ want \in [Callers -> Keys]
  /\ joined \in [Callers -> Flights \cup {None}]
  /\ up \in BOOLEAN

Init ==
  /\ flights = [k \in Keys |-> None]
  /\ guard = None
  /\ fstate = [f \in Flights |-> "free"]
  /\ fkey \in [Flights -> Keys]
  /\ out = [f \in Flights |-> "ok"]
  /\ pc = [c \in Callers |-> "idle"]
  /\ want \in [Callers -> Keys]
  /\ joined = [c \in Callers |-> None]
  /\ up = TRUE
-----------------------------------------------------------------------------
(* SingleFlight::run, up to the flight's first poll. *)

RunLock(c, k) ==
  /\ pc[c] = "idle"
  /\ guard = None
  /\ guard' = c
  /\ want' = [want EXCEPT ![c] = k]
  /\ pc' = [pc EXCEPT ![c] = "looking"]
  /\ UNCHANGED <<flights, fstate, fkey, out, joined, up>>

(* flights.get found a flight: clone it. *)
Join(c) ==
  /\ pc[c] = "looking"
  /\ flights[want[c]] # None
  /\ joined' = [joined EXCEPT ![c] = flights[want[c]]]
  /\ pc' = [pc EXCEPT ![c] = "unlocking"]
  /\ UNCHANGED <<flights, guard, fstate, fkey, out, want, up>>

AbsentEver(c) == TRUE      \* mutant of Absent: starts without looking

Absent(c) == flights[want[c]] = None

(* None found: build one and insert it.  Its task is not spawned yet. *)
Start(c) ==
  /\ pc[c] = "looking"
  /\ Absent(c)
  /\ \E f \in Flights :
       /\ fstate[f] = "free"
       /\ fstate' = [fstate EXCEPT ![f] = "built"]
       /\ fkey' = [fkey EXCEPT ![f] = want[c]]
       /\ flights' = [flights EXCEPT ![want[c]] = f]
       /\ joined' = [joined EXCEPT ![c] = f]
  /\ pc' = [pc EXCEPT ![c] = "unlocking"]
  /\ UNCHANGED <<guard, out, want, up>>

(* `work()` panics with the map locked, before anything was inserted.  The *)
(* mutex is poisoned, which every later lock of it ignores.                *)
BuildPanics(c) ==
  /\ pc[c] = "looking"
  /\ flights[want[c]] = None
  /\ guard' = None
  /\ pc' = [pc EXCEPT ![c] = "idle"]
  /\ UNCHANGED <<flights, fstate, fkey, out, want, joined, up>>

Unguarded == guard      \* mutant of Unguard: the guard lives on in the await

Unguard == None

Unlock(c) ==
  /\ pc[c] = "unlocking"
  /\ guard' = Unguard
  /\ pc' = [pc EXCEPT ![c] = "polling"]
  /\ UNCHANGED <<flights, fstate, fkey, out, want, joined, up>>
-----------------------------------------------------------------------------
(* flight.await.  Shared (external) lets one caller at a time poll the     *)
(* flight's future, and wakes every caller when the future is woken.       *)

(* The first poll of all spawns the task. *)
Spawn(c) ==
  /\ pc[c] = "polling"
  /\ fstate[joined[c]] = "built"
  /\ IF up
     THEN /\ fstate' = [fstate EXCEPT ![joined[c]] = "running"]
          /\ pc' = [pc EXCEPT ![c] = "waiting"]
          /\ UNCHANGED out
     ELSE /\ fstate' = [fstate EXCEPT ![joined[c]] = "ended"]
          /\ pc' = [pc EXCEPT ![c] = "landing"]
          /\ out' = [out EXCEPT ![joined[c]] = "panicked"]
  /\ UNCHANGED <<flights, guard, fkey, want, joined, up>>

Wait(c) ==
  /\ pc[c] = "polling"
  /\ fstate[joined[c]] \in {"running", "ended", "landed"}
  /\ pc' = [pc EXCEPT ![c] = "waiting"]
  /\ UNCHANGED <<flights, guard, fstate, fkey, out, want, joined, up>>

Get(c) ==
  /\ pc[c] \in {"polling", "waiting"}
  /\ fstate[joined[c]] = "done"
  /\ pc' = [pc EXCEPT ![c] = "got"]
  /\ UNCHANGED <<flights, guard, fstate, fkey, out, want, joined, up>>

(* The caller's clone goes, and a finished flight with its last clone. *)
LetGo(c) ==
  /\ joined' = [joined EXCEPT ![c] = None]
  /\ fstate' = [f \in Flights |->
                  IF /\ f = joined[c] /\ fstate[f] = "done"
                     /\ \A d \in Callers \ {c} : joined[d] # f
                  THEN "free" ELSE fstate[f]]
  /\ pc' = [pc EXCEPT ![c] = "idle"]

Return(c) ==
  /\ pc[c] = "got"
  /\ LetGo(c)
  /\ UNCHANGED <<flights, guard, fkey, out, want, up>>

DroppableEarly == {"polling", "waiting"}     \* mutant of Droppable

(* Where the future of `run` yields: only in flight.await, once polled. *)
Droppable == {"waiting"}

Drop(c) ==
  /\ pc[c] \in Droppable
  /\ LetGo(c)
  /\ UNCHANGED <<flights, guard, fkey, out, want, up>>
-----------------------------------------------------------------------------
(* The flight's task. *)

(* Mutant of Scheduled: no task, the work is polled by its callers. *)
ScheduledByCallers(f) ==
  fstate[f] = "running" /\ \E c \in Callers : joined[c] = f

Scheduled(f) == fstate[f] = "running"

(* The work returns or panics. *)
WorkEnds(f, o) ==
  /\ Scheduled(f)
  /\ fstate' = [fstate EXCEPT ![f] = "ended"]
  /\ out' = [out EXCEPT ![f] = o]
  /\ UNCHANGED <<flights, guard, fkey, pc, want, joined, up>>

(* The runtime shuts down and drops the task at a yield. *)
Cancel(f) ==
  /\ ~up
  /\ fstate[f] = "running"
  /\ fstate' = [fstate EXCEPT ![f] = "ended"]
  /\ out' = [out EXCEPT ![f] = "panicked"]
  /\ UNCHANGED <<flights, guard, fkey, pc, want, joined, up>>

(* Mutant of Forget: only the return of the work is followed by a removal. *)
ForgetReturned(f) ==
  IF out[f] = "panicked" THEN flights
  ELSE [flights EXCEPT ![fkey[f]] = None]

Forget(f) == [flights EXCEPT ![fkey[f]] = None]

(* Landed::drop, on the task's thread or on the spawning one's. *)
Land(f) ==
  /\ fstate[f] = "ended"
  /\ guard = None
  /\ flights' = Forget(f)
  /\ fstate' = [fstate EXCEPT ![f] = "landed"]
  /\ pc' = [c \in Callers |-> IF pc[c] = "landing" /\ joined[c] = f
                              THEN "waiting" ELSE pc[c]]
  /\ UNCHANGED <<guard, fkey, out, want, joined, up>>

(* Mutant of Ready: a task that panicked is never answered. *)
ReadyReturned(f) == fstate[f] = "landed" /\ out[f] # "panicked"

Ready(f) == fstate[f] = "landed"

(* The task is over: its JoinHandle becomes ready and the callers wake. *)
Publish(f) ==
  /\ Ready(f)
  /\ fstate' = [fstate EXCEPT ![f] =
                  IF \E c \in Callers : joined[c] = f THEN "done" ELSE "free"]
  /\ UNCHANGED <<flights, guard, fkey, out, pc, want, joined, up>>

ShutDown ==
  /\ up
  /\ up' = FALSE
  /\ UNCHANGED <<flights, guard, fstate, fkey, out, pc, want, joined>>
-----------------------------------------------------------------------------
CallerStep(c) ==
  \/ Join(c) \/ Start(c) \/ Unlock(c)
  \/ Spawn(c) \/ Wait(c) \/ Get(c) \/ Return(c)

Next ==
  \/ \E c \in Callers :
       \/ \E k \in Keys : RunLock(c, k)
       \/ BuildPanics(c)
       \/ CallerStep(c)
       \/ Drop(c)
  \/ \E f \in Flights :
       \/ \E o \in Outcomes : WorkEnds(f, o)
       \/ Cancel(f)
       \/ Land(f)
       \/ Publish(f)
  \/ ShutDown

Spec == Init /\ [][Next]_vars

(* A caller's thread and a flight's task keep running, the work ends some  *)
(* time, and a thread that keeps asking for the map's mutex gets it.       *)
Fairness ==
  /\ \A c \in Callers : WF_vars(CallerStep(c))
  /\ \A f \in Flights :
       /\ WF_vars(\E o \in Outcomes : WorkEnds(f, o))
       /\ SF_vars(Land(f))
       /\ WF_vars(Publish(f))

FairSpec == Spec /\ Fairness
-----------------------------------------------------------------------------
(* "Runs work once for concurrent calls with the same key": two flights of *)
(* one key are never both before their Landed.                             *)
OneFlightPerKey ==
  \A f, g \in Flights :
    fstate[f] \in Live /\ fstate[g] \in Live /\ fkey[f] = fkey[g] => f = g

(* "so no later call joins a dead flight": what the map holds can still    *)
(* run to its end, whether the work before it returned, panicked or was    *)
(* cancelled.                                                              *)
MapIsLive ==
  \A k \in Keys : flights[k] # None =>
    fstate[flights[k]] \in Live /\ fkey[flights[k]] = k

(* "A finished flight is forgotten at once": by the time a caller has a    *)
(* result, a new call with its key no longer joins that flight.            *)
ResultIsForgotten ==
  \A c \in Callers : pc[c] = "got" => flights[want[c]] # joined[c]

(* A flight whose task is not spawned has a caller about to poll it, so a  *)
(* flight in the map is never one that nobody will start.                  *)
BuiltIsPolled ==
  \A f \in Flights : fstate[f] = "built" =>
    \E c \in Callers : joined[c] = f /\ pc[c] \in {"unlocking", "polling"}

(* "no drop of Landed can find the map locked by its own thread": the      *)
(* thread that drops the task of a dead runtime has let the mutex go.      *)
NoSelfLock == \A c \in Callers : pc[c] = "landing" => guard # c

(* The map loses a flight only in the step that lands it: a Landed never   *)
(* removes a younger flight of its key, nor a `run` replace one.           *)
LandStep ==
  \A k \in Keys : flights[k] # None /\ flights'[k] # flights[k] =>
    fstate[flights[k]] = "ended" /\ fstate'[flights[k]] = "landed"

LandsOnlyItself == [][LandStep]_vars

(* The inductive invariant. *)
JoinedPCs == {"unlocking", "polling", "landing", "waiting", "got"}

GuardMatches ==
  \A c \in Callers : guard = c <=> pc[c] \in {"looking", "unlocking"}

(* The map and the flights between build and Landed are the same set. *)
LiveIsMapped == \A f \in Flights : fstate[f] \in Live => flights[fkey[f]] = f

JoinsMatch ==
  \A c \in Callers :
    /\ pc[c] \in JoinedPCs <=> joined[c] # None
    /\ joined[c] # None =>
         fstate[joined[c]] # "free" /\ fkey[joined[c]] = want[c]
    /\ pc[c] = "landing" => fstate[joined[c]] = "ended"
    /\ pc[c] = "waiting" => fstate[joined[c]] # "built"
    /\ pc[c] = "got" => fstate[joined[c]] = "done"

IInv ==
  /\ TypeOK
  /\ GuardMatches
  /\ MapIsLive
  /\ LiveIsMapped
  /\ JoinsMatch
  /\ BuiltIsPolled
-----------------------------------------------------------------------------
(* A call of run that polled its flight ends with the result, unless it is *)
(* dropped: no lost wake-up, and a panicked or cancelled work included.    *)
Answered == \A c \in Callers : pc[c] = "polling" ~> pc[c] \in {"got", "idle"}

(* "a caller that goes away does not cancel it for the others": a flight   *)
(* in the map is started, ends, and is forgotten, although every caller    *)
(* may have dropped it.                                                    *)
AbandonedLands ==
  \A f \in Flights :
    fstate[f] \in {"built", "running"} ~> fstate[f] \in {"landed", "free"}
=============================================================================
