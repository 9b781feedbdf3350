------------------------- MODULE SingleFlightProofs -------------------------
(***************************************************************************)
(* SingleFlight runs one flight per key, for any number of callers, keys   *)
(* and flights.                                                            *)
(***************************************************************************)
EXTENDS SingleFlight, TLAPS

(* An empty map and no caller satisfy the invariant. *)
LEMMA InitInv == Init => IInv
  BY NoneAssumption
  DEF Init, IInv, TypeOK, GuardMatches, MapIsLive, LiveIsMapped, JoinsMatch,
      BuiltIsPolled, FlightStates, PCs, Outcomes, Live, JoinedPCs

(* Every step of a caller, of a flight's task and of the runtime preserves *)
(* the invariant.                                                          *)
LEMMA NextInv == IInv /\ [Next]_vars => IInv'
<1> SUFFICES ASSUME IInv, [Next]_vars PROVE IInv'
  OBVIOUS
<1> USE NoneAssumption
        DEF IInv, TypeOK, GuardMatches, MapIsLive, LiveIsMapped, JoinsMatch,
            BuiltIsPolled, FlightStates, PCs, Outcomes, Live, JoinedPCs
<1>1. ASSUME NEW c \in Callers, NEW k \in Keys, RunLock(c, k) PROVE IInv'
  BY <1>1 DEF RunLock
<1>2. ASSUME NEW c \in Callers, Join(c) PROVE IInv'
  BY <1>2 DEF Join
<1>3. ASSUME NEW c \in Callers, Start(c) PROVE IInv'
  BY <1>3 DEF Start, Absent
<1>4. ASSUME NEW c \in Callers, BuildPanics(c) PROVE IInv'
  BY <1>4 DEF BuildPanics
<1>5. ASSUME NEW c \in Callers, Unlock(c) PROVE IInv'
  BY <1>5 DEF Unlock, Unguard
<1>6. ASSUME NEW c \in Callers, Spawn(c) PROVE IInv'
  BY <1>6 DEF Spawn
<1>7. ASSUME NEW c \in Callers, Wait(c) PROVE IInv'
  BY <1>7 DEF Wait
<1>8. ASSUME NEW c \in Callers, Get(c) PROVE IInv'
  BY <1>8 DEF Get
<1>9. ASSUME NEW c \in Callers, Return(c) PROVE IInv'
  BY <1>9 DEF Return, LetGo
<1>10. ASSUME NEW c \in Callers, Drop(c) PROVE IInv'
  BY <1>10 DEF Drop, Droppable, LetGo
<1>11. ASSUME NEW f \in Flights, NEW o \in Outcomes, WorkEnds(f, o)
       PROVE  IInv'
  BY <1>11 DEF WorkEnds, Scheduled
<1>12. ASSUME NEW f \in Flights, Cancel(f) PROVE IInv'
  BY <1>12 DEF Cancel
<1>13. ASSUME NEW f \in Flights, Land(f) PROVE IInv'
  BY <1>13 DEF Land, Forget
<1>14. ASSUME NEW f \in Flights, Publish(f) PROVE IInv'
  BY <1>14 DEF Publish, Ready
<1>15. CASE ShutDown
  BY <1>15 DEF ShutDown
<1>16. CASE UNCHANGED vars
  BY <1>16 DEF vars
<1>17. QED
  BY <1>1, <1>2, <1>3, <1>4, <1>5, <1>6, <1>7, <1>8, <1>9, <1>10, <1>11,
     <1>12, <1>13, <1>14, <1>15, <1>16 DEF Next, CallerStep
-----------------------------------------------------------------------------
(* In every behaviour the map holds exactly the flights between their      *)
(* build and their Landed.                                                 *)
THEOREM Inductive == Spec => []IInv
<1>1. Init => IInv
  BY InitInv
<1>2. IInv /\ [Next]_vars => IInv'
  BY NextInv
<1>3. QED
  BY <1>1, <1>2, PTL DEF Spec

(* SingleFlight::run starts no second flight while one of its key runs. *)
THEOREM OneFlight == Spec => []OneFlightPerKey
<1>1. IInv => OneFlightPerKey
  BY DEF IInv, LiveIsMapped, OneFlightPerKey
<1>2. QED
  BY <1>1, Inductive, PTL

(* A caller that has its result cannot be handed the same flight again:    *)
(* Landed forgets the flight before the JoinHandle is ready.               *)
THEOREM Forgotten == Spec => []ResultIsForgotten
<1>1. IInv => ResultIsForgotten
  <2> SUFFICES ASSUME IInv, NEW c \in Callers, pc[c] = "got",
                      flights[want[c]] = joined[c]
               PROVE  FALSE
    BY DEF ResultIsForgotten
  <2>1. joined[c] # None /\ fstate[joined[c]] = "done"
    BY DEF IInv, JoinsMatch, JoinedPCs
  <2>2. fstate[joined[c]] \in Live
    BY <2>1 DEF IInv, TypeOK, MapIsLive
  <2>3. QED
    BY <2>1, <2>2 DEF Live
<1>2. QED
  BY <1>1, Inductive, PTL

(* The comment of `start`: the drop of Landed never finds the map locked   *)
(* by its own thread.                                                      *)
THEOREM LandsUnlocked == Spec => []NoSelfLock
<1>1. IInv => NoSelfLock
  BY DEF IInv, GuardMatches, NoSelfLock
<1>2. QED
  BY <1>1, Inductive, PTL
-----------------------------------------------------------------------------
(* A step takes a flight out of the map only by that flight's own Landed,  *)
(* never a younger flight of the same key.                                 *)
THEOREM LandsItself == Spec => LandsOnlyItself
<1>1. IInv /\ [Next]_vars => [LandStep]_vars
  <2> SUFFICES ASSUME IInv, Next, NEW k \in Keys,
                      flights[k] # None, flights'[k] # flights[k]
               PROVE  /\ fstate[flights[k]] = "ended"
                      /\ fstate'[flights[k]] = "landed"
    BY DEF LandStep
  <2>1. ASSUME NEW c \in Callers, Start(c) PROVE FALSE
    BY <2>1 DEF Start, Absent, IInv, TypeOK
  <2>2. ASSUME NEW f \in Flights, Land(f)
        PROVE  flights[k] = f
    BY <2>2 DEF Land, Forget, IInv, TypeOK, LiveIsMapped, Live
  <2>3. \E f \in Flights : Land(f)
    BY <2>1 DEF Next, CallerStep, RunLock, Join, BuildPanics, Unlock, Spawn,
       Wait, Get, Return, Drop, WorkEnds, Cancel, Publish, ShutDown
  <2>4. QED
    BY <2>2, <2>3 DEF Land, IInv, TypeOK
<1>2. QED
  BY <1>1, Inductive, PTL DEF Spec, LandsOnlyItself
=============================================================================
