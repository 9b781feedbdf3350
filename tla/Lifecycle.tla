----------------------------- MODULE Lifecycle -----------------------------
(***************************************************************************)
(* The daemon's life: `serve_listener` of crates/unixd/src/serve.rs, its   *)
(* accept loop, its connection tasks, the idle exit and the one drain      *)
(* path, under a service manager that owns the listening socket.           *)
(*                                                                         *)
(* External: clients connect to the socket and wait in its backlog, and    *)
(* the service manager starts a daemon when there is none and somebody     *)
(* waits (the units install.rs writes).  tokio's Notify keeps one permit.  *)
(*                                                                         *)
(* Loop:  "off"       no daemon process                                    *)
(*        "arming"    at the head of the loop, before `idle` is polled     *)
(*        "selecting" in `select!`                                         *)
(*        "draining"  waits for open connections, up to drain_timeout      *)
(*        "cutting"   has cancelled `cut` and waits for the rest           *)
(* Connection:                                                             *)
(*        "away"      no connection                                        *)
(*        "queued"    connected, not accepted                              *)
(*        "open"      its task is in the inner `select!`                   *)
(*        "served"    serve_connection returned, or the connection was cut *)
(*        "counted"   `open` is decremented, `closed` not yet notified     *)
(***************************************************************************)
EXTENDS Naturals, FiniteSets

CONSTANTS
  Conns,        \* clients, each with one connection at a time
  HasIdle,      \* Lifecycle::idle_timeout is not zero
  MaxSignals,   \* bound on SIGINT, SIGTERM and shutdown requests
  MaxFailures,  \* bound on accept errors
  MaxPanics     \* bound on handlers that panic

ASSUME ConnsAssumption == IsFiniteSet(Conns)
ASSUME IdleAssumption == HasIdle \in BOOLEAN
ASSUME BoundsAssumption ==
  MaxSignals \in Nat /\ MaxFailures \in Nat /\ MaxPanics \in Nat

VARIABLES
  phase, conn,
  open,       \* the AtomicUsize of open connections
  permit,     \* the permit of `closed`, a Notify
  armed,      \* `idle` sleeps, rather than pends forever
  shutdown,   \* Shutdown::request was called
  signal,     \* a signal is waiting to be received
  result,     \* what serve_listener will return, or last returned
  signals, failures, panics

vars == <<phase, conn, open, permit, armed, shutdown, signal, result,
          signals, failures, panics>>

loop == <<permit, armed, shutdown, signal, result>>
bounds == <<signals, failures, panics>>

Phases == {"off", "arming", "selecting", "draining", "cutting"}

ConnStates == {"away", "queued", "open", "served", "counted"}

(* Connections with a task that has not yet decremented `open`, and those  *)
(* with a task at all: what the TaskTracker counts.                        *)
Unserved == {c \in Conns : conn[c] \in {"open", "served"}}
Tracked == {c \in Conns : conn[c] \in {"open", "served", "counted"}}

TypeOK ==
  /\ phase \in Phases
  /\ conn \in [Conns -> ConnStates]
  /\ open \in Nat
  /\ permit \in BOOLEAN
  /\ armed \in BOOLEAN
  /\ shutdown \in BOOLEAN
  /\ signal \in BOOLEAN
  /\ result \in {"ok", "err"}
  /\ signals \in Nat
  /\ failures \in Nat
  /\ panics \in Nat

Init ==
  /\ phase = "off"
  /\ conn = [c \in Conns |-> "away"]
  /\ open = 0
  /\ permit = FALSE
  /\ armed = FALSE
  /\ shutdown = FALSE
  /\ signal = FALSE
  /\ result = "ok"
  /\ signals = 0
  /\ failures = 0
  /\ panics = 0
-----------------------------------------------------------------------------
(* The clients and the service manager. *)

Connect(c) ==
  /\ conn[c] = "away"
  /\ conn' = [conn EXCEPT ![c] = "queued"]
  /\ UNCHANGED <<phase, open, loop, bounds>>

(* `serve`: a new process with the socket on stdin enters serve_listener. *)
Activate ==
  /\ phase = "off"
  /\ \E c \in Conns : conn[c] = "queued"
  /\ phase' = "arming"
  /\ open' = 0
  /\ permit' = FALSE
  /\ armed' = FALSE
  /\ shutdown' = FALSE
  /\ signal' = FALSE
  /\ result' = "ok"
  /\ UNCHANGED <<conn, bounds>>

Running == phase # "off"

(* SIGINT or SIGTERM; during a drain nobody receives it. *)
Signal ==
  /\ Running
  /\ signals < MaxSignals
  /\ signals' = signals + 1
  /\ signal' = TRUE
  /\ UNCHANGED <<phase, conn, open, permit, armed, shutdown, result, failures,
                 panics>>
-----------------------------------------------------------------------------
(* The accept loop: one action for each branch of `select!`. *)

ArmedOnce == armed \/ open = 0      \* mutant of Armed: kept from an earlier turn

Armed == open = 0 /\ HasIdle

(* The first poll of `idle` loads `open`. *)
Arm ==
  /\ phase = "arming"
  /\ armed' = Armed
  /\ phase' = "selecting"
  /\ UNCHANGED <<conn, open, permit, shutdown, signal, result, bounds>>

Accept(c) ==
  /\ phase = "selecting"
  /\ conn[c] = "queued"
  /\ conn' = [conn EXCEPT ![c] = "open"]
  /\ open' = open + 1
  /\ phase' = "arming"
  /\ UNCHANGED <<loop, bounds>>

(* ConnectionAborted: the peer gave up while it was queued. *)
AcceptAborted(c) ==
  /\ phase = "selecting"
  /\ conn[c] = "queued"
  /\ conn' = [conn EXCEPT ![c] = "away"]
  /\ phase' = "arming"
  /\ UNCHANGED <<open, loop, bounds>>

(* Any other accept error ends the loop. *)
AcceptFails ==
  /\ phase = "selecting"
  /\ failures < MaxFailures
  /\ failures' = failures + 1
  /\ result' = "err"
  /\ phase' = "draining"
  /\ UNCHANGED <<conn, open, permit, armed, shutdown, signal, signals, panics>>

Notified ==
  /\ phase = "selecting"
  /\ permit
  /\ permit' = FALSE
  /\ phase' = "arming"
  /\ UNCHANGED <<conn, open, armed, shutdown, signal, result, bounds>>

IdleFires ==
  /\ phase = "selecting"
  /\ armed
  /\ phase' = "draining"
  /\ UNCHANGED <<conn, open, loop, bounds>>

ShutdownSeen ==
  /\ phase = "selecting"
  /\ shutdown
  /\ phase' = "draining"
  /\ UNCHANGED <<conn, open, loop, bounds>>

SignalSeen ==
  /\ phase = "selecting"
  /\ signal
  /\ signal' = FALSE
  /\ phase' = "draining"
  /\ UNCHANGED <<conn, open, permit, armed, shutdown, result, bounds>>
-----------------------------------------------------------------------------
(* A connection's task. *)

(* serve_connection returns: answered, refused, timed out or closed. *)
Serve(c) ==
  /\ conn[c] = "open"
  /\ conn' = [conn EXCEPT ![c] = "served"]
  /\ UNCHANGED <<phase, open, loop, bounds>>

(* The handler calls Shutdown::request; it has still to answer. *)
Request(c) ==
  /\ conn[c] = "open"
  /\ ~shutdown
  /\ signals < MaxSignals
  /\ signals' = signals + 1
  /\ shutdown' = TRUE
  /\ UNCHANGED <<phase, conn, open, permit, armed, signal, result, failures,
                 panics>>

CutNobody(c) == FALSE      \* mutant of CutReaches: `cut` is never cancelled

CutReaches(c) == phase = "cutting"

Cut(c) ==
  /\ conn[c] = "open"
  /\ CutReaches(c)
  /\ conn' = [conn EXCEPT ![c] = "served"]
  /\ UNCHANGED <<phase, open, loop, bounds>>

(* open.fetch_sub, then closed.notify_one. *)
FetchSub(c) ==
  /\ conn[c] = "served"
  /\ open' = open - 1
  /\ conn' = [conn EXCEPT ![c] = "counted"]
  /\ UNCHANGED <<phase, loop, bounds>>

NotifyLoop == permit      \* mutant of NotifyOne: the loop is not woken

NotifyOne == TRUE

Notify(c) ==
  /\ conn[c] = "counted"
  /\ permit' = NotifyOne
  /\ conn' = [conn EXCEPT ![c] = "away"]
  /\ UNCHANGED <<phase, open, armed, shutdown, signal, result, bounds>>

(* The handler panics: tokio catches it, the task is over, and nothing     *)
(* after the inner `select!` ran.                                          *)
Panic(c) ==
  /\ conn[c] = "open"
  /\ panics < MaxPanics
  /\ panics' = panics + 1
  /\ conn' = [conn EXCEPT ![c] = "away"]
  /\ UNCHANGED <<phase, open, loop, signals, failures>>
-----------------------------------------------------------------------------
(* The drain. *)

DrainTimeout ==
  /\ phase = "draining"
  /\ Tracked # {}
  /\ phase' = "cutting"
  /\ UNCHANGED <<conn, open, loop, bounds>>

(* Mutant of Waited: returns at the cut, without a second wait. *)
WaitedOnce == phase = "cutting" \/ Tracked = {}

(* tracker.wait returned. *)
Waited == Tracked = {}

Return ==
  /\ phase \in {"draining", "cutting"}
  /\ Waited
  /\ phase' = "off"
  /\ UNCHANGED <<conn, open, loop, bounds>>
-----------------------------------------------------------------------------
LoopStep ==
  \/ Arm \/ Notified \/ IdleFires \/ ShutdownSeen \/ SignalSeen
  \/ DrainTimeout \/ Return

TaskStep(c) == Cut(c) \/ FetchSub(c) \/ Notify(c)

Next ==
  \/ Activate \/ Signal \/ AcceptFails \/ LoopStep
  \/ \E c \in Conns :
       \/ Connect(c) \/ Accept(c) \/ AcceptAborted(c)
       \/ Serve(c) \/ Request(c) \/ Panic(c) \/ TaskStep(c)

Spec == Init /\ [][Next]_vars

(* The service manager starts the daemon, tokio polls its tasks and fires  *)
(* its timers, and `select!`, which starts at a random branch, does not    *)
(* pass over a connection for ever.  A handler need not ever return.       *)
Fairness ==
  /\ WF_vars(Activate)
  /\ WF_vars(LoopStep)
  /\ \A c \in Conns : WF_vars(TaskStep(c)) /\ SF_vars(Accept(c))

FairSpec == Spec /\ Fairness
-----------------------------------------------------------------------------
(* "Idle timer waits for requests": the idle exit never starts a drain     *)
(* that a connection in its handler would have to survive, although `open` *)
(* is read long before the timer fires.                                    *)
IdleIsQuiet == phase = "selecting" /\ armed => Unserved = {}

(* serve_listener returns only when no connection task is left: none is    *)
(* dropped with the process in the middle of a response.                   *)
ReturnsClean == phase = "off" => Tracked = {}

(* `open` is the number of connection tasks that have not closed, and of   *)
(* those that died in a panic.                                             *)
OpenCounts ==
  Running => Cardinality(Unserved) <= open
             /\ open <= Cardinality(Unserved) + panics

IInv ==
  /\ TypeOK
  /\ OpenCounts
  /\ IdleIsQuiet
  /\ ReturnsClean
-----------------------------------------------------------------------------
(* "waits up to drain_timeout for open connections, cuts the rest, and     *)
(* returns": every drain ends, handlers that never return included.        *)
DrainEnds == phase = "draining" ~> phase = "off"

(* "Exit after this long with no open connection": with no connection, the *)
(* daemon exits, or somebody connects.                                     *)
IdleExits ==
  Running /\ (\A c \in Conns : conn[c] = "away")
    ~> phase = "off" \/ \E c \in Conns : conn[c] = "queued"

(* The idle exit of a daemon whose count no panic has left above zero:     *)
(* however the last fetch_sub and its notify_one fall between the loop's   *)
(* read of `open` and its wait, the loop arms again, and exits.            *)
IdleExitsAtZero ==
  Running /\ open = 0 /\ (\A c \in Conns : conn[c] = "away")
    ~> phase = "off" \/ \E c \in Conns : conn[c] = "queued"

(* A connection that arrives at any moment of a daemon's life, the drain   *)
(* and the exit included, is accepted by that daemon or by the next one.   *)
QueuedIsTaken == \A c \in Conns : conn[c] = "queued" ~> conn[c] # "queued"
=============================================================================
