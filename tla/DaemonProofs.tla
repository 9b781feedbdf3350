---------------------------- MODULE DaemonProofs ----------------------------
(***************************************************************************)
(* One call over the socket, and the daemon that serves it, for any finite *)
(* number of clients, any caps, frames, buffers and read sizes, and any    *)
(* number of signals and panics.                                           *)
(***************************************************************************)
EXTENDS Daemon, TLAPS

(* A new call starts from empty frames and forgets the last one. *)
LEMMA CallInv ==
  ASSUME TInv, NEW c \in Calls, NEW k \in Kinds, NEW n \in RequestSizes,
         Call(c, k, n)
  PROVE  TInv'
<1> USE SizesAssumption, CapsAssumption
        DEF TInv, TypeOK, RequestMatches, ResponseMatches, EndsMatch,
            CapIsExact, LossIsExplained, Losses, Serving, Results, Answers,
            Fates, Kinds, client, request, server, response, Expired
<1>1. TypeOK'
  <2>1. cpc' \in
          [Calls -> {"done", "connecting", "writing", "shutting", "reading"}]
    BY SMTT(30) DEF Call, OverCap, Return
  <2>2. result' \in [Calls -> Results]
    BY DEF Call, OverCap, Return
  <2>3. late' \in [Calls -> BOOLEAN]
    BY ZenonT(30) DEF Call, OverCap, Return
  <2>4. kind' \in [Calls -> Kinds] /\ size' \in [Calls -> Nat]
    BY DEF Call, OverCap, Return
  <2>5. sent' \in [Calls -> Nat] /\ taken' \in [Calls -> Nat]
    BY DEF Call, OverCap, Return
  <2>6. spc' \in [Calls -> Serving \cup {"none", "queued", "closed"}]
    BY DEF Call, OverCap, Return
  <2>7. fate' \in [Calls -> Fates]
    BY DEF Call, OverCap, Return
  <2>8. handled' \in [Calls -> BOOLEAN]
    BY DEF Call, OverCap, Return
  <2>9. answer' \in [Calls -> Answers]
    BY DEF Call, OverCap, Return
  <2>10. /\ rsize' \in [Calls -> Nat] /\ rsent' \in [Calls -> Nat]
          /\ rtaken' \in [Calls -> Nat]
    BY DEF Call, OverCap, Return
  <2>11. QED
    BY <2>1, <2>2, <2>3, <2>4, <2>5, <2>6, <2>7, <2>8, <2>9, <2>10
<1>2. RequestMatches'
  BY DEF Call, OverCap, Return
<1>3. ResponseMatches'
  BY DEF Call, OverCap, Return
<1>4. EndsMatch'
  BY DEF Call, OverCap, Return
<1>5. CapIsExact'
  BY DEF Call, OverCap, Return
<1>6. LossIsExplained'
  BY DEF Call, OverCap, Return
<1>7. QED
  BY <1>1, <1>2, <1>3, <1>4, <1>5, <1>6

(* The client's steps: it writes while the server reads, and what it makes *)
(* of an end of the stream rests on why the server closed.                 *)
LEMMA ClientInv ==
  ASSUME TInv, NEW c \in Calls,
         ClientStep(c) \/ SocketFails(c) \/ Expire(c) \/ Connect(c)
  PROVE  TInv'
<1> USE SizesAssumption, CapsAssumption
        DEF TInv, TypeOK, RequestMatches, ResponseMatches, EndsMatch,
            CapIsExact, LossIsExplained, Losses, Serving, Results, Answers,
            Fates, Kinds, client, request, server, response, Expired
<1>1. CASE TimedOut(c)
  BY <1>1 DEF TimedOut, Return
<1>2. CASE Unavailable(c)
  BY <1>2 DEF Unavailable, Return
<1>3. CASE PeerMismatch(c)
  BY <1>3 DEF PeerMismatch, Return
<1>4. CASE Write(c)
  BY <1>4 DEF Write, Least, Room
<1>5. CASE BrokenPipe(c)
  BY <1>5 DEF BrokenPipe, Return
<1>6. CASE ShutdownWrite(c)
  <2>1. TypeOK'
    <3>1. cpc' \in
            [Calls -> {"done", "connecting", "writing", "shutting", "reading"}]
      BY <1>6 DEF ShutdownWrite
    <3>2. /\ result' \in [Calls -> Results] /\ late' \in [Calls -> BOOLEAN]
          /\ kind' \in [Calls -> Kinds] /\ size' \in [Calls -> Nat]
          /\ sent' \in [Calls -> Nat] /\ taken' \in [Calls -> Nat]
          /\ spc' \in [Calls -> Serving \cup {"none", "queued", "closed"}]
          /\ fate' \in [Calls -> Fates] /\ handled' \in [Calls -> BOOLEAN]
          /\ answer' \in [Calls -> Answers]
          /\ rsize' \in [Calls -> Nat] /\ rsent' \in [Calls -> Nat]
          /\ rtaken' \in [Calls -> Nat]
      BY <1>6 DEF ShutdownWrite
    <3>3. QED
      BY <3>1, <3>2
  <2>2. RequestMatches'
    BY <1>6 DEF ShutdownWrite
  <2>3. ResponseMatches'
    BY <1>6 DEF ShutdownWrite
  <2>4. EndsMatch'
    BY <1>6 DEF ShutdownWrite
  <2>5. CapIsExact'
    BY <1>6 DEF ShutdownWrite
    <2>6. LossIsExplained'
    BY <1>6 DEF ShutdownWrite
  <2>7. QED
    BY <2>1, <2>2, <2>3, <2>4, <2>5, <2>6
<1>7. CASE Read(c)
  <2>1. TypeOK'
    <3>1. \/ UNCHANGED <<cpc, result, late>>
          \/ Return(c, "toolarge") \/ Return(c, Decoded(answer[c]))
      BY <1>7 DEF Read
    <3>2. cpc' \in
            [Calls -> {"done", "connecting", "writing", "shutting", "reading"}]
      BY <3>1 DEF Return
    <3>3. result' \in [Calls -> Results]
      BY <3>1 DEF Return, Decoded
    <3>4. late' \in [Calls -> BOOLEAN]
      BY ZenonT(30), <3>1 DEF Return
    <3>5. rtaken' \in [Calls -> Nat]
      BY <1>7 DEF Read, Least
    <3>6. UNCHANGED <<kind, size, request, server, answer, rsize, rsent>>
      BY <1>7 DEF Read
    <3>7. QED
      BY <3>2, <3>3, <3>4, <3>5, <3>6
  <2>2. RequestMatches'
    BY <1>7 DEF Read, ReadFrame, Decoded, Least, Return
  <2>3. ResponseMatches'
    BY <1>7 DEF Read, ReadFrame, Decoded, Least, Return
  <2>4. EndsMatch'
    BY <1>7 DEF Read, ReadFrame, Decoded, Least, Return
  <2>5. CapIsExact'
    BY <1>7 DEF Read, ReadFrame, Decoded, Least, Return
    <2>6. LossIsExplained'
    BY <1>7 DEF Read, ReadFrame, Decoded, Least, Return
  <2>7. QED
    BY <2>1, <2>2, <2>3, <2>4, <2>5, <2>6
<1>8. CASE ReadEnd(c)
  <2>1. TypeOK'
    <3>1. cpc' \in
            [Calls -> {"done", "connecting", "writing", "shutting", "reading"}]
      BY <1>8 DEF ReadEnd, Return
    <3>2. result' \in [Calls -> Results]
      BY <1>8 DEF ReadEnd, Return
    <3>3. late' \in [Calls -> BOOLEAN]
      BY <1>8 DEF ReadEnd, Return
    <3>4. /\ kind' \in [Calls -> Kinds] /\ size' \in [Calls -> Nat]
          /\ sent' \in [Calls -> Nat] /\ taken' \in [Calls -> Nat]
          /\ spc' \in [Calls -> Serving \cup {"none", "queued", "closed"}]
          /\ fate' \in [Calls -> Fates] /\ handled' \in [Calls -> BOOLEAN]
          /\ answer' \in [Calls -> Answers]
          /\ rsize' \in [Calls -> Nat] /\ rsent' \in [Calls -> Nat]
          /\ rtaken' \in [Calls -> Nat]
      BY <1>8 DEF ReadEnd, Return
    <3>5. QED
      BY <3>1, <3>2, <3>3, <3>4
  <2>2. RequestMatches'
    BY <1>8 DEF ReadEnd, Return
  <2>3. ResponseMatches'
    BY <1>8 DEF ReadEnd, Return
  <2>4. EndsMatch'
    BY <1>8 DEF ReadEnd, Return
  <2>5. CapIsExact'
    BY <1>8 DEF ReadEnd, Return
    <2>6. LossIsExplained'
    BY <1>8 DEF ReadEnd, Return
  <2>7. QED
    BY <2>1, <2>2, <2>3, <2>4, <2>5, <2>6
<1>9. CASE Expire(c)
  BY <1>9 DEF Expire
<1>10. CASE Connect(c)
  BY <1>10 DEF Connect
<1>11. CASE SocketFails(c)
  BY <1>11 DEF SocketFails, Return
<1>12. QED
  BY <1>1, <1>2, <1>3, <1>4, <1>5, <1>6, <1>7, <1>8, <1>9, <1>10, <1>11
  DEF ClientStep

(* The server's steps: every way out of serve_as leaves a reason in `fate`,*)
(* and only a read that completes a frame leads to the handler.            *)
LEMMA ServerInv ==
  ASSUME TInv, NEW c \in Calls,
         \/ ServerStep(c) \/ ServeFails(c) \/ Handle(c)
         \/ Accept(c) \/ Aborted(c) \/ Drop(c)
  PROVE  TInv'
<1> USE SizesAssumption, CapsAssumption
        DEF TInv, TypeOK, RequestMatches, ResponseMatches, EndsMatch,
            CapIsExact, LossIsExplained, Losses, Serving, Results, Answers,
            Fates, Kinds, client, request, server, response, Expired
<1>1. CASE Deny(c)
  BY <1>1 DEF Deny, Close
<1>2. CASE ServeRead(c)
  <2>1. TypeOK'
    <3>1. taken' \in [Calls -> Nat]
      BY <1>2 DEF ServeRead, ServerCap, Least, Line, Respond, Close
    <3>2. spc' \in [Calls -> Serving \cup {"none", "queued", "closed"}]
      BY <1>2 DEF ServeRead, ServerCap, Least, Line, Respond, Close
    <3>3. fate' \in [Calls -> Fates]
      BY <1>2 DEF ServeRead, ServerCap, Least, Line, Respond, Close
    <3>4. handled' \in [Calls -> BOOLEAN]
      BY ZenonT(30), <1>2 DEF ServeRead, ServerCap, Least, Line, Respond, Close
    <3>5. answer' \in [Calls -> Answers]
      BY <1>2 DEF ServeRead, ServerCap, Least, Line, Respond, Close
    <3>6. rsize' \in [Calls -> Nat]
      BY <1>2 DEF ServeRead, ServerCap, Least, Line, Respond, Close
    <3>7. /\ cpc' \in
              [Calls -> {"done", "connecting", "writing", "shutting", "reading"}]
          /\ result' \in [Calls -> Results] /\ late' \in [Calls -> BOOLEAN]
          /\ kind' \in [Calls -> Kinds] /\ size' \in [Calls -> Nat]
          /\ sent' \in [Calls -> Nat] /\ rsent' \in [Calls -> Nat]
          /\ rtaken' \in [Calls -> Nat]
      BY <1>2 DEF ServeRead, ServerCap, Least, Line, Respond, Close
    <3>8. QED
      BY <3>1, <3>2, <3>3, <3>4, <3>5, <3>6, <3>7
  <2>2. RequestMatches'
    BY <1>2 DEF ServeRead, ServerCap, Least, Line, Respond, Close
  <2>3. ResponseMatches'
    BY <1>2 DEF ServeRead, ServerCap, Least, Line, Respond, Close
  <2>4. EndsMatch'
    BY <1>2 DEF ServeRead, ServerCap, Least, Line, Respond, Close
  <2>5. CapIsExact'
    BY <1>2 DEF ServeRead, ServerCap, Least, Line, Respond, Close
    <2>6. LossIsExplained'
    BY <1>2 DEF ServeRead, ServerCap, Least, Line, Respond, Close
  <2>7. QED
    BY <2>1, <2>2, <2>3, <2>4, <2>5, <2>6
<1>3. CASE ServeEof(c)
  <2>1. TypeOK'
    <3>1. spc' \in [Calls -> Serving \cup {"none", "queued", "closed"}]
      BY <1>3 DEF ServeEof, Parses, Line, Respond, Close
    <3>2. fate' \in [Calls -> Fates]
      BY <1>3 DEF ServeEof, Parses, Line, Respond, Close
    <3>3. handled' \in [Calls -> BOOLEAN]
      <4>1. CASE taken[c] > 0 /\ Parses(c)
        <5>1. Line(c)
          BY <1>3, <4>1 DEF ServeEof
        <5>2. QED
          BY ZenonT(30), <5>1 DEF Line
      <4>2. CASE ~(taken[c] > 0 /\ Parses(c))
        <5>1. UNCHANGED handled
          BY <1>3, <4>2 DEF ServeEof
        <5>2. QED
          BY <5>1
      <4>3. QED
        BY <4>1, <4>2
    <3>4. answer' \in [Calls -> Answers]
      BY <1>3 DEF ServeEof, Parses, Line, Respond, Close
    <3>5. rsize' \in [Calls -> Nat]
      BY <1>3 DEF ServeEof, Parses, Line, Respond, Close
    <3>6. /\ cpc' \in
              [Calls -> {"done", "connecting", "writing", "shutting", "reading"}]
          /\ result' \in [Calls -> Results] /\ late' \in [Calls -> BOOLEAN]
          /\ kind' \in [Calls -> Kinds] /\ size' \in [Calls -> Nat]
          /\ sent' \in [Calls -> Nat] /\ taken' \in [Calls -> Nat]
          /\ rsent' \in [Calls -> Nat] /\ rtaken' \in [Calls -> Nat]
      BY <1>3 DEF ServeEof, Parses, Line, Respond, Close
    <3>7. QED
      BY <3>1, <3>2, <3>3, <3>4, <3>5, <3>6
  <2>2. RequestMatches'
    BY <1>3 DEF ServeEof, Parses, Line, Respond, Close
  <2>3. ResponseMatches'
    BY <1>3 DEF ServeEof, Parses, Line, Respond, Close
  <2>4. EndsMatch'
    BY <1>3 DEF ServeEof, Parses, Line, Respond, Close
  <2>5. CapIsExact'
    BY <1>3 DEF ServeEof, Parses, Line, Respond, Close
    <2>6. LossIsExplained'
    BY <1>3 DEF ServeEof, Parses, Line, Respond, Close
  <2>7. QED
    BY <2>1, <2>2, <2>3, <2>4, <2>5, <2>6
<1>4. CASE ReadTimeout(c)
  BY <1>4 DEF ReadTimeout, Close
<1>5. CASE ServeWrite(c)
  <2>1. TypeOK'
    BY SMTT(30), <1>5 DEF ServeWrite, Least, Room, Close
  <2>2. RequestMatches'
    BY <1>5 DEF ServeWrite, Least, Room, Close
  <2>3. ResponseMatches'
    BY <1>5 DEF ServeWrite, Least, Room, Close
  <2>4. EndsMatch'
    BY <1>5 DEF ServeWrite, Least, Room, Close
  <2>5. CapIsExact'
    BY <1>5 DEF ServeWrite, Least, Room, Close
  <2>6. LossIsExplained'
    BY <1>5 DEF ServeWrite, Least, Room, Close
  <2>7. QED
    BY <2>1, <2>2, <2>3, <2>4, <2>5, <2>6
<1>6. CASE WriteFails(c)
  BY <1>6 DEF WriteFails, Close
<1>7. CASE WriteTimeout(c)
  BY <1>7 DEF WriteTimeout, Close
<1>8. CASE Handle(c)
  <2>1. TypeOK'
    <3>1. spc' \in [Calls -> Serving \cup {"none", "queued", "closed"}]
      BY <1>8 DEF Handle, Respond, Close
    <3>2. fate' \in [Calls -> Fates]
      BY <1>8 DEF Handle, Respond, Close
    <3>3. answer' \in [Calls -> Answers]
      BY <1>8 DEF Handle, Respond, Close
    <3>4. rsize' \in [Calls -> Nat]
      BY <1>8 DEF Handle, Respond, Close
    <3>5. /\ cpc' \in
              [Calls -> {"done", "connecting", "writing", "shutting", "reading"}]
          /\ result' \in [Calls -> Results] /\ late' \in [Calls -> BOOLEAN]
          /\ kind' \in [Calls -> Kinds] /\ size' \in [Calls -> Nat]
          /\ sent' \in [Calls -> Nat] /\ taken' \in [Calls -> Nat]
          /\ handled' \in [Calls -> BOOLEAN] /\ rsent' \in [Calls -> Nat]
          /\ rtaken' \in [Calls -> Nat]
      BY <1>8 DEF Handle, Respond, Close
    <3>6. QED
      BY <3>1, <3>2, <3>3, <3>4, <3>5
  <2>2. RequestMatches'
    BY <1>8 DEF Handle, Respond, Close
  <2>3. ResponseMatches'
    BY <1>8 DEF Handle, Respond, Close
  <2>4. EndsMatch'
    BY <1>8 DEF Handle, Respond, Close
  <2>5. CapIsExact'
    BY <1>8 DEF Handle, Respond, Close
    <2>6. LossIsExplained'
    BY <1>8 DEF Handle, Respond, Close
  <2>7. QED
    BY <2>1, <2>2, <2>3, <2>4, <2>5, <2>6
<1>9. CASE Accept(c)
  BY <1>9 DEF Accept
<1>10. CASE Aborted(c)
  BY <1>10 DEF Aborted
<1>11. CASE Drop(c)
  BY <1>11 DEF Drop, Close
<1>12. CASE ServeFails(c)
  BY <1>12 DEF ServeFails, Close
<1>13. QED
  BY <1>1, <1>2, <1>3, <1>4, <1>5, <1>6, <1>7, <1>8, <1>9, <1>10, <1>11,
     <1>12
  DEF ServerStep

-----------------------------------------------------------------------------
(* Lifecycle's invariant is proved of Lifecycle; its theorems hold of the  *)
(* instance, whose connections are the calls' and which has no accept      *)
(* errors, under the assumptions on the daemon's constants.                *)
LP == INSTANCE LifecycleProofs
        WITH Conns <- Calls, MaxFailures <- 0, failures <- 0, result <- "ok"

LEMMA LoopInv ==
  /\ L!Init => L!IInv
  /\ L!IInv /\ [L!Next]_(L!vars) => L!IInv'
<1>1. LP!IsFiniteSet(Calls)
  BY CallsAssumption DEF IsFiniteSet, LP!IsFiniteSet
<1>2. \A S : LP!Cardinality(S) = L!Cardinality(S)
  BY DEF LP!Cardinality, L!Cardinality
<1>3. /\ HasIdle \in BOOLEAN
      /\ MaxSignals \in Nat /\ 0 \in Nat /\ MaxPanics \in Nat
  BY LoopAssumption
<1>4. LP!Init => LP!IInv
  BY <1>1, <1>3, LP!InitInv
  DEF LP!ConnsAssumption, LP!IdleAssumption, LP!BoundsAssumption
<1>5. LP!IInv /\ [LP!Next]_(LP!vars) => LP!IInv'
  BY <1>1, <1>3, LP!NextInv
  DEF LP!ConnsAssumption, LP!IdleAssumption, LP!BoundsAssumption
<1>6. LP!IInv = L!IInv /\ LP!IInv' = L!IInv'
  BY <1>2
  DEF LP!IInv, LP!TypeOK, LP!OpenCounts, LP!IdleIsQuiet, LP!ReturnsClean,
      LP!Phases, LP!ConnStates, LP!Unserved, LP!Tracked, LP!Running,
      L!IInv, L!TypeOK, L!OpenCounts, L!IdleIsQuiet, L!ReturnsClean,
      L!Phases, L!ConnStates, L!Unserved, L!Tracked, L!Running
<1>7. L!Init => LP!Init
  BY DEF LP!Init, L!Init
<1>8. L!vars = LP!vars /\ L!vars' = LP!vars'
  BY DEF LP!vars, L!vars
<1>9. L!Next => LP!Next
  BY DEF LP!Next, LP!LoopStep, LP!TaskStep, LP!Activate, LP!Signal,
         LP!AcceptFails, LP!Arm, LP!Armed, LP!Notified, LP!IdleFires,
         LP!ShutdownSeen, LP!SignalSeen, LP!DrainTimeout, LP!Return,
         LP!Waited, LP!Connect, LP!Accept, LP!AcceptAborted, LP!Serve,
         LP!Request, LP!Panic, LP!Cut, LP!CutReaches, LP!FetchSub,
         LP!Notify, LP!NotifyOne, LP!Running, LP!Tracked, LP!loop, LP!bounds,
         L!Next, L!LoopStep, L!TaskStep, L!Activate, L!Signal,
         L!AcceptFails, L!Arm, L!Armed, L!Notified, L!IdleFires,
         L!ShutdownSeen, L!SignalSeen, L!DrainTimeout, L!Return,
         L!Waited, L!Connect, L!Accept, L!AcceptAborted, L!Serve,
         L!Request, L!Panic, L!Cut, L!CutReaches, L!FetchSub,
         L!Notify, L!NotifyOne, L!Running, L!Tracked, L!loop, L!bounds
<1>10. QED
  BY <1>4, <1>5, <1>6, <1>7, <1>8, <1>9
-----------------------------------------------------------------------------
(* A step of a connection's task in serve_as is one of an open connection, *)
(* which it leaves open or closes, and never as the cut or the exit does.  *)
LEMMA ServerMoves ==
  ASSUME TInv, NEW c \in Calls, ServerStep(c) \/ ServeFails(c) \/ Handle(c)
  PROVE  /\ spc[c] \in Serving
         /\ spc' = [spc EXCEPT ![c] = spc'[c]]
         /\ spc'[c] \in Serving \cup {"closed"}
         /\ \A d \in Calls : fate'[d] \in {"cut", "exit"} => fate'[d] = fate[d]
<1> USE DEF TInv, TypeOK, Serving, Close, Line, Respond, server
<1>1. CASE Deny(c) \/ ReadTimeout(c) \/ WriteFails(c) \/ WriteTimeout(c)
  BY <1>1 DEF Deny, ReadTimeout, WriteFails, WriteTimeout
<1>2. CASE ServeRead(c)
  BY <1>2 DEF ServeRead
<1>3. CASE ServeEof(c)
  BY <1>3 DEF ServeEof
<1>4. CASE ServeWrite(c)
  BY <1>4 DEF ServeWrite
<1>5. CASE Handle(c)
  BY <1>5 DEF Handle
<1>6. CASE ServeFails(c)
  BY <1>6 DEF ServeFails
<1>7. QED
  BY <1>1, <1>2, <1>3, <1>4, <1>5, <1>6 DEF ServerStep

(* A step of the client's other than `call` and `connect` leaves the       *)
(* server's end of the connection alone.                                   *)
LEMMA ClientMoves ==
  ASSUME NEW c \in Calls, ClientStep(c) \/ SocketFails(c) \/ Expire(c)
  PROVE  UNCHANGED server
BY DEF ClientStep, SocketFails, Expire, TimedOut, Unavailable, PeerMismatch, Write,
       BrokenPipe, ShutdownWrite, Read, ReadEnd, server

(* The process returns from main with no connection task left, so that the *)
(* kernel finds no stream to close.                                        *)
LEMMA ExitReturns ==
  ASSUME TInv, TasksMatch, Exit
  PROVE  L!Return /\ UNCHANGED <<tvars, task>>
<1>1. \A c \in Calls : conn[c] \notin {"open", "served", "counted"}
  BY DEF Exit, L!Waited, L!Tracked
<1>2. \A c \in Calls : task[c] = "none" /\ spc[c] \notin Serving
  BY <1>1 DEF conn, TasksMatch, Serving
<1>3. spc' = spc /\ fate' = fate /\ task' = task
  BY <1>2 DEF Exit, TInv, TypeOK, TasksMatch
<1>4. conn' = conn
  BY <1>3 DEF conn
<1>5. QED
  BY <1>3, <1>4
  DEF Exit, L!Return, L!loop, L!bounds, tvars, server

(* Every step of the composition is one of Lifecycle's for the connections *)
(* that the transport has, or leaves Lifecycle's state alone.              *)
LEMMA StepMaps ==
  ASSUME TInv, TasksMatch, [Next]_vars
  PROVE  [L!Next]_(L!vars)
<1>1. ASSUME UNCHANGED lvars, conn' = conn
      PROVE  UNCHANGED L!vars
  BY <1>1 DEF lvars, L!vars
<1>3. CASE Alone(L!Activate) \/ Alone(L!Signal) \/ LoopStep
  BY <1>3 DEF Alone, LoopStep, L!Next, L!LoopStep
<1>4. CASE Exit
  BY <1>4, ExitReturns DEF L!Next, L!LoopStep
<1>5. ASSUME NEW c \in Calls, ClientCalls(c)
      PROVE  UNCHANGED L!vars
  <2>1. spc' = [spc EXCEPT ![c] = "none"] /\ spc[c] \in {"none", "closed"}
    BY <1>5 DEF ClientCalls, Call
  <2>2. task' = task /\ task[c] = "none"
    BY <1>5 DEF ClientCalls, lvars
  <2>3. conn' = conn
    BY <2>1, <2>2 DEF conn, Serving, TInv, TypeOK
  <2>4. QED
    BY <1>1, <1>5, <2>3 DEF ClientCalls
<1>6. ASSUME NEW c \in Calls, ClientRuns(c)
      PROVE  UNCHANGED L!vars
  BY <1>1, <1>6, ClientMoves DEF ClientRuns, server, lvars, conn
<1>7. ASSUME NEW c \in Calls, TaskServes(c)
      PROVE  [L!Next]_(L!vars)
  <2>1. CASE spc'[c] # "closed" /\ UNCHANGED lvars
    <3>1. /\ spc[c] \in Serving /\ spc'[c] \in Serving
          /\ spc' = [spc EXCEPT ![c] = spc'[c]]
      BY <1>7, <2>1, ServerMoves DEF TaskServes
    <3>2. conn' = conn
      BY <2>1, <3>1 DEF conn, Serving, lvars, TInv, TypeOK
    <3>3. QED
      BY <1>1, <2>1, <3>2
  <2>2. CASE L!Serve(c)
    BY <2>2 DEF L!Next
  <2>3. QED
    BY <1>7, <2>1, <2>2 DEF TaskServes
<1>8. ASSUME NEW c \in Calls,
             ClientConnects(c) \/ LoopAccepts(c) \/ LoopAborts(c)
      PROVE  L!Next
  BY <1>8 DEF ClientConnects, LoopAccepts, LoopAborts, L!Next
<1>9. ASSUME NEW c \in Calls,
             HandlerRequests(c) \/ HandlerPanics(c) \/ TaskStep(c)
      PROVE  L!Next
  BY <1>9 DEF HandlerRequests, HandlerPanics, TaskStep, TaskIsCut,
              TaskCounts, TaskNotifies, L!Next, L!TaskStep
<1>10. CASE UNCHANGED vars
  BY <1>1, <1>10 DEF vars, tvars, server, lvars, conn
<1>11. QED
  BY <1>3, <1>4, <1>5, <1>6, <1>7, <1>8, <1>9, <1>10 DEF Next

(* The bytes, the ends' states and the reasons in `fate` stay as they      *)
(* match, whoever steps.                                                   *)
LEMMA TransportKept ==
  ASSUME TInv, TasksMatch, [Next]_vars
  PROVE  TInv'
<1>1. ASSUME UNCHANGED tvars PROVE TInv'
  BY <1>1 DEF tvars, client, request, server, response, TInv, TypeOK,
              RequestMatches, ResponseMatches, EndsMatch, CapIsExact,
              LossIsExplained
<1>2. CASE Alone(L!Activate) \/ Alone(L!Signal) \/ LoopStep
  BY <1>1, <1>2 DEF Alone, LoopStep
<1>3. CASE Exit
  BY <1>1, <1>3, ExitReturns
<1>4. ASSUME NEW c \in Calls, ClientCalls(c)
      PROVE  TInv'
  BY <1>4, CallInv DEF ClientCalls
<1>5. ASSUME NEW c \in Calls, ClientConnects(c) \/ ClientRuns(c)
      PROVE  TInv'
  BY <1>5, ClientInv DEF ClientConnects, ClientRuns
<1>6. ASSUME NEW c \in Calls,
             LoopAccepts(c) \/ LoopAborts(c) \/ TaskServes(c)
               \/ HandlerPanics(c) \/ TaskIsCut(c)
      PROVE  TInv'
  BY <1>6, ServerInv
  DEF LoopAccepts, LoopAborts, TaskServes, HandlerPanics, TaskIsCut
<1>7. ASSUME NEW c \in Calls,
             HandlerRequests(c) \/ TaskCounts(c) \/ TaskNotifies(c)
      PROVE  TInv'
  BY <1>1, <1>7 DEF HandlerRequests, TaskCounts, TaskNotifies
<1>8. CASE UNCHANGED vars
  BY <1>1, <1>8 DEF vars
<1>9. QED
  BY <1>2, <1>3, <1>4, <1>5, <1>6, <1>7, <1>8 DEF Next, TaskStep

(* A task has a state after serve_connection only for a closed stream:     *)
(* nobody calls again on a connection whose task is not over.              *)
LEMMA TasksKept ==
  ASSUME TInv, TasksMatch, [Next]_vars
  PROVE  TasksMatch'
<1> USE DEF TasksMatch, SetTask, server, TInv, TypeOK
<1>1. ASSUME UNCHANGED <<spc, task>> PROVE TasksMatch'
  BY <1>1
<1>2. CASE Alone(L!Activate) \/ Alone(L!Signal) \/ LoopStep
  BY <1>1, <1>2 DEF Alone, LoopStep, tvars
<1>3. CASE Exit
  BY <1>1, <1>3, ExitReturns DEF tvars
<1>4. ASSUME NEW c \in Calls, ClientCalls(c)
      PROVE  TasksMatch'
  BY <1>4 DEF ClientCalls, Call, lvars
<1>5. ASSUME NEW c \in Calls, ClientConnects(c)
      PROVE  TasksMatch'
  BY <1>5 DEF ClientConnects, Connect, RequestMatches
<1>6. ASSUME NEW c \in Calls, ClientRuns(c)
      PROVE  TasksMatch'
  BY <1>1, <1>6, ClientMoves DEF ClientRuns, lvars
<1>7. ASSUME NEW c \in Calls, LoopAccepts(c) \/ LoopAborts(c)
      PROVE  TasksMatch'
  BY <1>7 DEF LoopAccepts, LoopAborts, Accept, Aborted
<1>8. ASSUME NEW c \in Calls, TaskServes(c)
      PROVE  TasksMatch'
  <2>1. /\ spc[c] \in Serving
        /\ spc' = [spc EXCEPT ![c] = spc'[c]]
    BY <1>8, ServerMoves DEF TaskServes
  <2>2. task[c] = "none"
    BY <2>1 DEF Serving
  <2>3. QED
    BY <1>8, <2>1, <2>2 DEF TaskServes, lvars
<1>9. ASSUME NEW c \in Calls, HandlerPanics(c) \/ TaskIsCut(c)
      PROVE  TasksMatch'
  BY <1>9 DEF HandlerPanics, TaskIsCut, Drop, Close
<1>10. ASSUME NEW c \in Calls, HandlerRequests(c)
       PROVE  TasksMatch'
  BY <1>1, <1>10 DEF HandlerRequests, tvars
<1>11. ASSUME NEW c \in Calls, TaskCounts(c) \/ TaskNotifies(c)
       PROVE  TasksMatch'
  <2>1. conn[c] \in {"served", "counted"}
    BY <1>11 DEF TaskCounts, TaskNotifies, L!FetchSub, L!Notify
  <2>2. task[c] # "none"
    BY <2>1 DEF conn, Serving
  <2>3. QED
    BY <1>11, <2>2 DEF TaskCounts, TaskNotifies, tvars
<1>12. CASE UNCHANGED vars
  BY <1>1, <1>12 DEF vars, tvars, lvars
<1>13. QED
  BY <1>2, <1>3, <1>4, <1>5, <1>6, <1>7, <1>8, <1>9, <1>10, <1>11, <1>12
  DEF Next, TaskStep

(* Only a signal, a request or a panic makes a drain that has a connection *)
(* to wait for: the idle timer, armed on an older count, does not.         *)
LEMMA DrainsKept ==
  ASSUME L!IInv, DrainsMatch, [L!Next]_(L!vars)
  PROVE  DrainsMatch'
<1> USE DEF L!IInv, L!TypeOK, L!Phases, DrainsMatch, L!loop, L!bounds
<1>1. ASSUME conn' = conn PROVE L!Unserved' = L!Unserved
  BY <1>1 DEF L!Unserved
<1>2. CASE L!Activate \/ L!Arm \/ L!Notified \/ L!ShutdownSeen
             \/ L!DrainTimeout \/ L!Return
  BY <1>1, <1>2 DEF L!Activate, L!Arm, L!Notified, L!ShutdownSeen,
                    L!DrainTimeout, L!Return
<1>3. CASE L!Signal \/ L!SignalSeen
  BY <1>1, <1>3 DEF L!Signal, L!SignalSeen
<1>4. CASE L!IdleFires
  BY <1>1, <1>4 DEF L!IdleFires, L!IdleIsQuiet
<1>5. ~L!AcceptFails
  BY DEF L!AcceptFails
<1>6. ASSUME NEW c \in Calls,
             L!Connect(c) \/ L!Serve(c) \/ L!Cut(c) \/ L!FetchSub(c)
               \/ L!Notify(c)
      PROVE  DrainsMatch'
  <2>1. L!Unserved' \subseteq L!Unserved
    BY <1>6 DEF L!Connect, L!Serve, L!Cut, L!FetchSub, L!Notify, L!Unserved
  <2>2. QED
    BY <1>6, <2>1 DEF L!Connect, L!Serve, L!Cut, L!FetchSub, L!Notify
<1>7. ASSUME NEW c \in Calls, L!Accept(c) \/ L!AcceptAborted(c)
      PROVE  DrainsMatch'
  BY <1>7 DEF L!Accept, L!AcceptAborted
<1>8. ASSUME NEW c \in Calls, L!Request(c) \/ L!Panic(c)
      PROVE  DrainsMatch'
  BY <1>8 DEF L!Request, L!Panic
<1>9. CASE UNCHANGED L!vars
  BY <1>1, <1>9 DEF L!vars
<1>10. QED
  BY <1>2, <1>3, <1>4, <1>5, <1>6, <1>7, <1>8, <1>9
  DEF L!Next, L!LoopStep, L!TaskStep

(* Signals and panics are only ever counted up. *)
LEMMA CountsGrow ==
  ASSUME L!IInv, [L!Next]_(L!vars)
  PROVE  /\ signals' + panics' >= signals + panics
         /\ signals + panics \in Nat
<1> USE DEF L!IInv, L!TypeOK, L!loop, L!bounds
<1>1. CASE L!Activate \/ L!Signal \/ L!AcceptFails \/ L!LoopStep
  BY <1>1 DEF L!Activate, L!Signal, L!AcceptFails, L!LoopStep, L!Arm,
              L!Notified, L!IdleFires, L!ShutdownSeen, L!SignalSeen,
              L!DrainTimeout, L!Return
<1>2. ASSUME NEW c \in Calls,
             \/ L!Connect(c) \/ L!Accept(c) \/ L!AcceptAborted(c)
             \/ L!Serve(c) \/ L!Request(c) \/ L!Panic(c) \/ L!TaskStep(c)
      PROVE  signals' + panics' >= signals + panics
  BY <1>2 DEF L!Connect, L!Accept, L!AcceptAborted, L!Serve, L!Request,
              L!Panic, L!TaskStep, L!Cut, L!FetchSub, L!Notify
<1>3. CASE UNCHANGED L!vars
  BY <1>3 DEF L!vars
<1>4. QED
  BY <1>1, <1>2, <1>3 DEF L!Next

(* A connection is taken from its client by the cut of a drain that        *)
(* somebody asked for, or by a panic; the exit finds none.                 *)
LEMMA CutsKept ==
  ASSUME DInv, [Next]_vars
  PROVE  IdleNeverCuts'
<1> USE DEF IdleNeverCuts, DInv
<1>1. [L!Next]_(L!vars)
  BY StepMaps
<1>2. /\ signals' + panics' >= signals + panics
      /\ signals + panics \in Nat
      /\ signals' + panics' \in Nat
  BY <1>1, CountsGrow, LoopInv DEF L!IInv, L!TypeOK
<1>3. ASSUME \A d \in Calls :
               fate'[d] \in {"cut", "exit"} => fate'[d] = fate[d]
      PROVE  IdleNeverCuts'
  BY <1>2, <1>3
<1>4. CASE Alone(L!Activate) \/ Alone(L!Signal) \/ LoopStep
  BY <1>3, <1>4 DEF Alone, LoopStep, tvars, server
<1>5. CASE Exit
  BY <1>3, <1>5, ExitReturns DEF tvars, server
<1>6. ASSUME NEW c \in Calls, ClientCalls(c)
      PROVE  IdleNeverCuts'
  BY <1>3, <1>6 DEF ClientCalls, Call, TInv, TypeOK
<1>7. ASSUME NEW c \in Calls,
             ClientConnects(c) \/ LoopAccepts(c) \/ LoopAborts(c)
      PROVE  IdleNeverCuts'
  BY <1>3, <1>7
  DEF ClientConnects, LoopAccepts, LoopAborts, Connect, Accept, Aborted
<1>8. ASSUME NEW c \in Calls, ClientRuns(c)
      PROVE  IdleNeverCuts'
  BY <1>3, <1>8, ClientMoves DEF ClientRuns, server
<1>9. ASSUME NEW c \in Calls, TaskServes(c)
      PROVE  IdleNeverCuts'
  BY <1>3, <1>9, ServerMoves DEF TaskServes
<1>10. ASSUME NEW c \in Calls, HandlerPanics(c)
       PROVE  IdleNeverCuts'
  <2>1. panics' = panics + 1 /\ signals' = signals
    BY <1>10 DEF HandlerPanics, L!Panic
  <2>2. QED
    BY <2>1 DEF L!IInv, L!TypeOK
<1>11. ASSUME NEW c \in Calls, TaskIsCut(c)
       PROVE  IdleNeverCuts'
  <2>1. phase = "cutting" /\ conn[c] = "open"
    BY <1>11 DEF TaskIsCut, L!Cut, L!CutReaches
  <2>2. signals + panics # 0
    BY <2>1 DEF DrainsMatch, L!Unserved
  <2>3. QED
    BY <1>2, <2>2
<1>12. ASSUME NEW c \in Calls,
              HandlerRequests(c) \/ TaskCounts(c) \/ TaskNotifies(c)
       PROVE  IdleNeverCuts'
  BY <1>3, <1>12
  DEF HandlerRequests, TaskCounts, TaskNotifies, tvars, server
<1>13. CASE UNCHANGED vars
  BY <1>3, <1>13 DEF vars, tvars, server
<1>14. QED
  BY <1>4, <1>5, <1>6, <1>7, <1>8, <1>9, <1>10, <1>11, <1>12, <1>13
  DEF Next, TaskStep
-----------------------------------------------------------------------------
(* No call is made and no daemon runs at the start. *)
LEMMA InitInv == Init => L!Init /\ DInv
<1> SUFFICES ASSUME Init PROVE L!Init /\ DInv
  OBVIOUS
<1>1. TInv
  BY DEF Init, TInit, TInv, TypeOK, RequestMatches, ResponseMatches,
         EndsMatch, CapIsExact, LossIsExplained, Losses, Serving,
         Results, Answers, Fates, Kinds
<1>2. TasksMatch /\ IdleNeverCuts
  BY DEF Init, TInit, TasksMatch, IdleNeverCuts
<1>3. DrainsMatch
  BY DEF Init, L!Init, DrainsMatch
<1>4. L!Init /\ L!IInv
  BY LoopInv DEF Init
<1>5. QED
  BY <1>1, <1>2, <1>3, <1>4 DEF DInv

(* Every step is one of Lifecycle or a stutter, and keeps the invariant. *)
LEMMA NextInv == DInv /\ [Next]_vars => [L!Next]_(L!vars) /\ DInv'
<1> SUFFICES ASSUME DInv, [Next]_vars PROVE [L!Next]_(L!vars) /\ DInv'
  OBVIOUS
<1>1. [L!Next]_(L!vars)
  BY StepMaps DEF DInv
<1>2. TInv' /\ TasksMatch'
  BY TransportKept, TasksKept DEF DInv
<1>3. L!IInv' /\ DrainsMatch'
  BY <1>1, LoopInv, DrainsKept DEF DInv
<1>4. IdleNeverCuts'
  BY CutsKept
<1>5. QED
  BY <1>1, <1>2, <1>3, <1>4 DEF DInv

(* The invariant of the transport, of the loop and of what ties them. *)
THEOREM Inductive == Spec => []DInv
<1>1. Init => DInv
  BY InitInv
<1>2. DInv /\ [Next]_vars => DInv'
  BY NextInv
<1>3. QED
  BY <1>1, <1>2, PTL DEF Spec

(* The composition implements the safety part of Lifecycle: whatever a     *)
(* client does in the middle of a frame, the accept loop and the drain     *)
(* see a connection that Lifecycle knows.                                  *)
THEOREM Implements == Spec => L!Spec
<1>1. Init => L!Init /\ DInv
  BY InitInv
<1>2. DInv /\ [Next]_vars => [L!Next]_(L!vars) /\ DInv'
  BY NextInv
<1>3. QED
  BY <1>1, <1>2, PTL DEF Spec, L!Spec

(* "The largest frame in either direction, newline included", for any caps *)
(* and any sizes of reads: the two ways of counting agree.                 *)
THEOREM Exact == Spec => []CapIsExact
<1>1. DInv => CapIsExact
  BY DEF DInv, TInv
<1>2. QED
  BY <1>1, Inductive, PTL

(* A call fails as closed, broken, reset or cut off only for a reason the  *)
(* server had: a response written whole is never lost to the close after   *)
(* it, for any frame, buffer and read sizes.                               *)
THEOREM Explained == Spec => []LossIsExplained
<1>1. DInv => LossIsExplained
  BY DEF DInv, TInv
<1>2. QED
  BY <1>1, Inductive, PTL

(* The idle exit takes no connection from its client, for any number of    *)
(* clients: only a signal, a request or a panic does.                      *)
THEOREM NeverCuts == Spec => []IdleNeverCuts
<1>1. DInv => IdleNeverCuts
  BY DEF DInv
<1>2. QED
  BY <1>1, Inductive, PTL
=============================================================================
