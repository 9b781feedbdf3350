-------------------------- MODULE LifecycleProofs --------------------------
(***************************************************************************)
(* The accept loop's counter and its idle timer, for any finite number of  *)
(* clients and any number of signals, accept errors and panics.            *)
(***************************************************************************)
EXTENDS Lifecycle, FiniteSetTheorems, TLAPS

(* The sets of connections are finite, and their sizes are numbers. *)
LEMMA UnservedFinite ==
  /\ IsFiniteSet(Unserved)
  /\ Cardinality(Unserved) \in Nat
  /\ Cardinality(Unserved) = 0 <=> Unserved = {}
<1>1. IsFiniteSet(Unserved)
  BY ConnsAssumption, FS_Subset DEF Unserved
<1>2. QED
  BY <1>1, FS_CardinalityType, FS_EmptySet

(* A set of unserved connections that gains or loses one. *)
LEMMA UnservedSteps ==
  ASSUME NEW c \in Conns, conn' = [conn EXCEPT ![c] = conn'[c]],
         conn \in [Conns -> ConnStates]
  PROVE  /\ c \notin Unserved /\ c \in Unserved' =>
              Cardinality(Unserved') = Cardinality(Unserved) + 1
         /\ c \in Unserved /\ c \notin Unserved' =>
              Cardinality(Unserved') = Cardinality(Unserved) - 1
         /\ (c \in Unserved <=> c \in Unserved') => Unserved' = Unserved
<1>1. c \notin Unserved /\ c \in Unserved' => Unserved' = Unserved \cup {c}
  BY DEF Unserved
<1>2. c \in Unserved /\ c \notin Unserved' => Unserved' = Unserved \ {c}
  BY DEF Unserved
<1>3. (c \in Unserved <=> c \in Unserved') => Unserved' = Unserved
  BY DEF Unserved
<1>4. QED
  BY <1>1, <1>2, <1>3, UnservedFinite, FS_AddElement, FS_RemoveElement

(* The invariant holds before the first daemon starts. *)
LEMMA InitInv == Init => IInv
<1> SUFFICES ASSUME Init PROVE IInv
  OBVIOUS
<1>1. TypeOK
  BY DEF Init, TypeOK, Phases, ConnStates
<1>2. OpenCounts /\ IdleIsQuiet
  BY DEF Init, OpenCounts, IdleIsQuiet, Running
<1>3. ReturnsClean
  BY DEF Init, ReturnsClean, Tracked
<1>4. QED
  BY <1>1, <1>2, <1>3 DEF IInv

(* Every branch of select!, every step of a connection's task and of the   *)
(* drain preserves the invariant.                                          *)
LEMMA NextInv == IInv /\ [Next]_vars => IInv'
<1> SUFFICES ASSUME IInv, [Next]_vars PROVE IInv'
  OBVIOUS
<1> USE BoundsAssumption, IdleAssumption, UnservedFinite
        DEF IInv, TypeOK, OpenCounts, IdleIsQuiet, ReturnsClean, Running,
            Phases, ConnStates, loop, bounds
<1>0. ASSUME UNCHANGED conn
      PROVE  Unserved' = Unserved /\ Tracked' = Tracked
  BY <1>0 DEF Unserved, Tracked
<1>1. CASE Activate
  <2>1. Unserved = {} /\ Unserved' = Unserved
    BY <1>0, <1>1 DEF Activate, Unserved, Tracked
  <2>2. TypeOK'
    BY <1>1 DEF Activate
  <2>3. OpenCounts'
    BY <1>1, <2>1 DEF Activate
  <2>4. IdleIsQuiet' /\ ReturnsClean'
    BY <1>1 DEF Activate
  <2>5. QED
    BY <2>2, <2>3, <2>4
<1>2. CASE Signal
  BY <1>0, <1>2 DEF Signal
<1>3. CASE AcceptFails
  BY <1>0, <1>3 DEF AcceptFails
<1>4. CASE Arm
  <2>1. armed' \in BOOLEAN
    BY <1>4, Zenon DEF Arm, Armed
  <2>2. armed' => open = 0
    BY <1>4, Zenon DEF Arm, Armed
  <2>3. TypeOK'
    BY <1>4, <2>1 DEF Arm
  <2>4. OpenCounts' /\ ReturnsClean'
    BY <1>0, <1>4 DEF Arm
  <2>5. IdleIsQuiet'
    BY <1>0, <1>4, <2>2 DEF Arm
  <2>6. QED
    BY <2>3, <2>4, <2>5
<1>5. CASE Notified
  BY <1>0, <1>5 DEF Notified
<1>6. CASE IdleFires
  BY <1>0, <1>6 DEF IdleFires
<1>7. CASE ShutdownSeen
  BY <1>0, <1>7 DEF ShutdownSeen
<1>8. CASE SignalSeen
  BY <1>0, <1>8 DEF SignalSeen
<1>9. CASE DrainTimeout
  BY <1>0, <1>9 DEF DrainTimeout
<1>10. CASE Return
  BY <1>0, <1>10 DEF Return, Waited
<1>11. ASSUME NEW c \in Conns, Connect(c) \/ AcceptAborted(c) PROVE IInv'
  <2>1. Unserved' = Unserved /\ Tracked' = Tracked
    BY <1>11 DEF Connect, AcceptAborted, Unserved, Tracked
  <2>2. QED
    BY <1>11, <2>1 DEF Connect, AcceptAborted
<1>12. ASSUME NEW c \in Conns, Accept(c) PROVE IInv'
  <2>1. c \notin Unserved /\ c \in Unserved'
    BY <1>12 DEF Accept, Unserved
  <2>2. TypeOK' /\ IdleIsQuiet' /\ ReturnsClean'
    BY <1>12 DEF Accept
  <2>3. Cardinality(Unserved') = Cardinality(Unserved) + 1
    BY <1>12, <2>1, UnservedSteps DEF Accept
  <2>4. OpenCounts'
    BY <1>12, <2>3 DEF Accept
  <2>5. QED
    BY <2>2, <2>4
<1>13. ASSUME NEW c \in Conns, Serve(c) \/ Cut(c) PROVE IInv'
  <2>1. Unserved' = Unserved /\ Tracked' = Tracked
    BY <1>13 DEF Serve, Cut, Unserved, Tracked
  <2>2. QED
    BY <1>13, <2>1 DEF Serve, Cut
<1>14. ASSUME NEW c \in Conns, Request(c) PROVE IInv'
  BY <1>0, <1>14 DEF Request
<1>15. ASSUME NEW c \in Conns, FetchSub(c) PROVE IInv'
  <2>1. c \in Unserved /\ c \notin Unserved' /\ c \in Tracked
    BY <1>15 DEF FetchSub, Unserved, Tracked
  <2>2. Unserved' \subseteq Unserved
    BY <1>15 DEF FetchSub, Unserved
  <2>3. TypeOK' /\ ReturnsClean'
    BY <1>15, <2>1 DEF FetchSub
  <2>4. Cardinality(Unserved') = Cardinality(Unserved) - 1
    BY <1>15, <2>1, UnservedSteps DEF FetchSub
  <2>5. OpenCounts'
    BY <1>15, <2>4 DEF FetchSub
  <2>6. IdleIsQuiet'
    BY <1>15, <2>1, <2>2 DEF FetchSub
  <2>7. QED
    BY <2>3, <2>5, <2>6
<1>16. ASSUME NEW c \in Conns, Notify(c) PROVE IInv'
  <2>1. Unserved' = Unserved /\ Tracked' \subseteq Tracked
    BY <1>16 DEF Notify, Unserved, Tracked
  <2>2. QED
    BY <1>16, <2>1 DEF Notify, NotifyOne
<1>17. ASSUME NEW c \in Conns, Panic(c) PROVE IInv'
  <2>1. c \in Unserved /\ c \notin Unserved' /\ c \in Tracked
    BY <1>17 DEF Panic, Unserved, Tracked
  <2>2. Unserved' \subseteq Unserved
    BY <1>17 DEF Panic, Unserved
  <2>3. TypeOK' /\ ReturnsClean'
    BY <1>17, <2>1 DEF Panic
  <2>4. Cardinality(Unserved') = Cardinality(Unserved) - 1
    BY <1>17, <2>1, UnservedSteps DEF Panic
  <2>5. OpenCounts'
    BY <1>17, <2>4 DEF Panic
  <2>6. IdleIsQuiet'
    BY <1>17, <2>1, <2>2 DEF Panic
  <2>7. QED
    BY <2>3, <2>5, <2>6
<1>18. CASE UNCHANGED vars
  BY <1>0, <1>18 DEF vars
<1>19. QED
  BY <1>1, <1>2, <1>3, <1>4, <1>5, <1>6, <1>7, <1>8, <1>9, <1>10, <1>11,
     <1>12, <1>13, <1>14, <1>15, <1>16, <1>17, <1>18
  DEF Next, LoopStep, TaskStep
-----------------------------------------------------------------------------
(* `open` never drops below the number of connections in their tasks, for  *)
(* any interleaving of the loop and the tasks.                             *)
THEOREM Inductive == Spec => []IInv
<1>1. Init => IInv
  BY InitInv
<1>2. IInv /\ [Next]_vars => IInv'
  BY NextInv
<1>3. QED
  BY <1>1, <1>2, PTL DEF Spec

(* The idle timer never runs while a connection is open. *)
THEOREM Quiet == Spec => []IdleIsQuiet
<1>1. IInv => IdleIsQuiet
  BY DEF IInv
<1>2. QED
  BY <1>1, Inductive, PTL

(* serve_listener returns with no connection task left, for any number of  *)
(* connections at the cut.                                                 *)
THEOREM Clean == Spec => []ReturnsClean
<1>1. IInv => ReturnsClean
  BY DEF IInv
<1>2. QED
  BY <1>1, Inductive, PTL
=============================================================================
