------------------------------- MODULE Daemon -------------------------------
(***************************************************************************)
(* The daemon with its clients: the calls of Transport served by the       *)
(* accept loop and the connection tasks of Lifecycle                       *)
(* (crates/unixd/src/serve.rs), from the client's `call` through idle      *)
(* exits, drains, cuts and restarts.                                       *)
(*                                                                         *)
(* The two modules are composed by joint actions: what Lifecycle knows of  *)
(* a connection, `conn`, is a function of the server's end of the call and *)
(* of where its task is after serve_connection.                            *)
(***************************************************************************)
EXTENDS Transport, FiniteSets

CONSTANTS HasIdle, MaxSignals, MaxPanics

ASSUME CallsAssumption == IsFiniteSet(Calls)
ASSUME LoopAssumption ==
  HasIdle \in BOOLEAN /\ MaxSignals \in Nat /\ MaxPanics \in Nat

VARIABLES
  task,                 \* of a closed connection: "served", "counted", "none"
  phase, open, permit, armed, shutdown, signal, signals, panics

lvars == <<task, phase, open, permit, armed, shutdown, signal, signals, panics>>
vars == <<tvars, lvars>>

conn ==
  [c \in Calls |->
     IF task[c] # "none" THEN task[c]
     ELSE IF spc[c] = "queued" THEN "queued"
     ELSE IF spc[c] \in Serving THEN "open" ELSE "away"]

(* Without accept errors, which start the drain a signal does. *)
L == INSTANCE Lifecycle
       WITH Conns <- Calls, MaxFailures <- 0, failures <- 0, result <- "ok"

Init ==
  /\ TInit
  /\ task = [c \in Calls |-> "none"]
  /\ L!Init

SetTask(c, t) == task' = [task EXCEPT ![c] = t]
-----------------------------------------------------------------------------
(* The client's side; a connection it makes joins the backlog. *)

ClientCalls(c) ==
  /\ task[c] = "none"
  /\ \E k \in Kinds, n \in RequestSizes : Call(c, k, n)
  /\ UNCHANGED lvars

ClientConnects(c) == Connect(c) /\ UNCHANGED task /\ L!Connect(c)

ClientRuns(c) ==
  (ClientStep(c) \/ SocketFails(c) \/ Expire(c)) /\ UNCHANGED lvars
-----------------------------------------------------------------------------
(* The loop takes a connection. *)

LoopAccepts(c) == Accept(c) /\ UNCHANGED task /\ L!Accept(c)

LoopAborts(c) == Aborted(c) /\ UNCHANGED task /\ L!AcceptAborted(c)

(* The task in serve_connection: a step that closes ends it. *)
TaskServes(c) ==
  /\ ServerStep(c) \/ ServeFails(c) \/ Handle(c)
  /\ \/ spc'[c] # "closed" /\ UNCHANGED lvars
     \/ spc'[c] = "closed" /\ SetTask(c, "served") /\ L!Serve(c)

HandlerRequests(c) ==
  /\ spc[c] = "handling"
  /\ UNCHANGED <<tvars, task>>
  /\ L!Request(c)

HandlerPanics(c) ==
  /\ spc[c] = "handling"
  /\ Drop(c) /\ UNCHANGED task /\ L!Panic(c)

TaskIsCut(c) == Drop(c) /\ SetTask(c, "served") /\ L!Cut(c)

TaskCounts(c) == UNCHANGED tvars /\ SetTask(c, "counted") /\ L!FetchSub(c)

TaskNotifies(c) == UNCHANGED tvars /\ SetTask(c, "none") /\ L!Notify(c)
-----------------------------------------------------------------------------
(* The loop by itself. *)

Alone(A) == UNCHANGED <<tvars, task>> /\ A

LoopStep ==
  Alone(\/ L!Arm \/ L!Notified \/ L!IdleFires \/ L!ShutdownSeen
        \/ L!SignalSeen \/ L!DrainTimeout)

(* The process exits: the kernel closes the streams it still has. *)
Exit ==
  /\ phase \in {"draining", "cutting"}
  /\ L!Waited
  /\ phase' = "off"
  /\ spc' = [c \in Calls |-> IF spc[c] \in Serving THEN "closed" ELSE spc[c]]
  /\ fate' = [c \in Calls |-> IF spc[c] \in Serving THEN "exit" ELSE fate[c]]
  /\ task' = [c \in Calls |-> "none"]
  /\ UNCHANGED <<client, request, handled, response, open, permit, armed,
                 shutdown, signal, signals, panics>>

TaskStep(c) == TaskIsCut(c) \/ TaskCounts(c) \/ TaskNotifies(c)

Next ==
  \/ Alone(L!Activate) \/ Alone(L!Signal)
  \/ LoopStep \/ Exit
  \/ \E c \in Calls :
       \/ ClientCalls(c) \/ ClientConnects(c) \/ ClientRuns(c)
       \/ LoopAccepts(c) \/ LoopAborts(c)
       \/ TaskServes(c) \/ HandlerRequests(c) \/ HandlerPanics(c)
       \/ TaskStep(c)

Spec == Init /\ [][Next]_vars

(* As for Lifecycle; the deadlines of both ends pass, and a server task    *)
(* that can run does.  Nothing is asked of the handlers, nor of a client's *)
(* process, which may stop anywhere.                                       *)
Fairness ==
  /\ WF_vars(Alone(L!Activate)) /\ WF_vars(LoopStep \/ Exit)
  /\ \A c \in Calls :
       /\ WF_vars(TaskStep(c)) /\ SF_vars(LoopAccepts(c))
       /\ WF_vars(ServerStep(c) /\ TaskServes(c))
       /\ WF_vars(Expire(c) /\ ClientRuns(c))

FairSpec == Spec /\ Fairness
-----------------------------------------------------------------------------
(* "waits up to drain_timeout for open connections, cuts the rest": only a *)
(* signal, a shutdown request or a panic of its handler takes a connection *)
(* from its client before it is served.  The idle exit, which the loop     *)
(* decides on from an older count, never does, nor does the exit of the    *)
(* process.                                                                *)
IdleNeverCuts ==
  \A c \in Calls :
    fate[c] \in {"cut", "exit"} => signals + panics > 0

(* A task outlives serve_connection only after the stream is closed. *)
TasksMatch ==
  /\ task \in [Calls -> {"none", "served", "counted"}]
  /\ \A c \in Calls : task[c] # "none" => spc[c] = "closed"

(* A drain that nobody asked for has no connection to wait for. *)
DrainsMatch ==
  /\ shutdown \/ signal => signals > 0
  /\ phase \in {"draining", "cutting"} /\ signals + panics = 0 =>
       L!Unserved = {}

(* The inductive invariant.  Lifecycle's holds of the connections that the *)
(* transport really has: `open` counts them.                               *)
DInv == TInv /\ L!IInv /\ TasksMatch /\ DrainsMatch /\ IdleNeverCuts

(* The composition implements Lifecycle, fairness included: a connection   *)
(* as the transport serves it, its refusals, timeouts and half frames, is  *)
(* no more than what the loop and the drain were checked with, so what     *)
(* holds of Lifecycle's drains and exits holds here.                       *)
ImplementsLifecycle == L!FairSpec
=============================================================================
