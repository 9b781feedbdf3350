----------------------------- MODULE Transport -----------------------------
(***************************************************************************)
(* One call over the daemon's socket: `Client::call` of                    *)
(* crates/unixd/src/client.rs and `serve_as` of crates/unixd/src/server.rs.*)
(* A call has a connection of its own, which carries one request frame and *)
(* one response frame, each ended by its newline.  A frame is its number   *)
(* of bytes; ids and versions are in `kind`, what the server makes of it.  *)
(*                                                                         *)
(* External: the Unix stream socket.  It holds Buffer bytes each way, and  *)
(* a socket that is closed with bytes it has not read gives its peer, once *)
(* the peer has read what there is, ECONNRESET instead of the end.  tokio  *)
(* polls what a `timeout` wraps before the timer.                          *)
(*                                                                         *)
(* Client:  "done"        not in call                                      *)
(*          "connecting"  has its frame                                    *)
(*          "writing"     connected, in write_frame                        *)
(*          "shutting"    has written all, before shutdown(Write)          *)
(*          "reading"     in read_frame                                    *)
(* Server:  "none"        no connection                                    *)
(*          "queued"      in the socket's backlog                          *)
(*          "reading", "handling", "writing"   in serve_as                 *)
(*          "closed"      the stream is dropped                            *)
(***************************************************************************)
EXTENDS Naturals

CONSTANTS
  Calls,
  ClientMax, ServerMax,          \* max_frame_bytes of either side
  RequestSizes, ResponseSizes,   \* frames there are, newline included
  Buffer,
  Chunk                          \* bytes one read takes

ASSUME SizesAssumption ==
  /\ RequestSizes \subseteq Nat \ {0} /\ ResponseSizes \subseteq Nat \ {0}
  /\ ResponseSizes # {}
ASSUME CapsAssumption ==
  /\ ClientMax \in Nat \ {0} /\ ServerMax \in Nat \ {0}
  /\ Buffer \in Nat \ {0} /\ Chunk \in Nat \ {0}

VARIABLES
  cpc, result,
  late,            \* the call's deadline has passed
  kind, size,      \* the request
  sent, taken,     \* bytes of it that the client wrote, that the server read
  spc,
  fate,            \* why the server closed
  handled,         \* the handler was called
  answer, rsize,   \* the response
  rsent, rtaken

client == <<cpc, result, late, kind, size>>
request == <<sent, taken>>
server == <<spc, fate, handled>>
response == <<answer, rsize, rsent, rtaken>>

tvars == <<client, request, server, response>>

(* A request is one the handler answers, one that it never sees, or        *)
(* another user's.                                                         *)
Kinds == {"good", "bad", "alien"}

(* An Io of the stream the server closed, EPIPE or ECONNRESET, is "io"; an *)
(* Io of a system call that failed by itself is "local".                   *)
Results == {"none", "encode", "toolarge", "unavailable", "mismatch", "local",
            "timeout", "io", "closed", "invalid", "ok", "remote"}

(* A response with a value, with an error, or with a value that is none of *)
(* the type the caller asks for.                                           *)
Answers == {"none", "ok", "remote", "other"}

Fates == {"none", "replied", "refused", "oversize", "slow", "unread",
          "unserialized", "failed", "cut", "exit"}

Serving == {"reading", "handling", "writing"}

TypeOK ==
  /\ cpc \in [Calls -> {"done", "connecting", "writing", "shutting", "reading"}]
  /\ result \in [Calls -> Results]
  /\ late \in [Calls -> BOOLEAN]
  /\ kind \in [Calls -> Kinds]
  /\ spc \in [Calls -> Serving \cup {"none", "queued", "closed"}]
  /\ fate \in [Calls -> Fates]
  /\ handled \in [Calls -> BOOLEAN]
  /\ answer \in [Calls -> Answers]
  /\ size \in [Calls -> Nat] /\ sent \in [Calls -> Nat]
  /\ taken \in [Calls -> Nat] /\ rsize \in [Calls -> Nat]
  /\ rsent \in [Calls -> Nat] /\ rtaken \in [Calls -> Nat]

TInit ==
  /\ cpc = [c \in Calls |-> "done"]
  /\ result = [c \in Calls |-> "none"]
  /\ late = [c \in Calls |-> FALSE]
  /\ kind = [c \in Calls |-> "good"]
  /\ spc = [c \in Calls |-> "none"]
  /\ fate = [c \in Calls |-> "none"]
  /\ handled = [c \in Calls |-> FALSE]
  /\ answer = [c \in Calls |-> "none"]
  /\ size = [c \in Calls |-> 0] /\ sent = [c \in Calls |-> 0]
  /\ taken = [c \in Calls |-> 0] /\ rsize = [c \in Calls |-> 0]
  /\ rsent = [c \in Calls |-> 0] /\ rtaken = [c \in Calls |-> 0]

Least(a, b) == IF a < b THEN a ELSE b

(* The bytes the socket still takes. *)
Room(written, read) == Buffer - (written - read)
-----------------------------------------------------------------------------
(* Client::call. *)

Return(c, r) ==
  /\ cpc' = [cpc EXCEPT ![c] = "done"]
  /\ result' = [result EXCEPT ![c] = r]
  /\ late' = [late EXCEPT ![c] = FALSE]

(* The check of the request's frame. *)
OverCap(n) == n > ClientMax

(* A new call, of a request that may be over the cap or not serialize.  A  *)
(* caller calls again once its last connection is gone.                    *)
Call(c, k, n) ==
  /\ cpc[c] = "done" /\ spc[c] \in {"none", "closed"}
  /\ \/ /\ ~OverCap(n)
        /\ cpc' = [cpc EXCEPT ![c] = "connecting"]
        /\ result' = [result EXCEPT ![c] = "none"]
        /\ UNCHANGED late
     \/ OverCap(n) /\ Return(c, "toolarge")
     \/ Return(c, "encode")
  /\ kind' = [kind EXCEPT ![c] = k]
  /\ size' = [size EXCEPT ![c] = n]
  /\ sent' = [sent EXCEPT ![c] = 0]
  /\ taken' = [taken EXCEPT ![c] = 0]
  /\ spc' = [spc EXCEPT ![c] = "none"]
  /\ fate' = [fate EXCEPT ![c] = "none"]
  /\ handled' = [handled EXCEPT ![c] = FALSE]
  /\ rsize' = [rsize EXCEPT ![c] = 0]
  /\ rsent' = [rsent EXCEPT ![c] = 0]
  /\ rtaken' = [rtaken EXCEPT ![c] = 0]
  /\ answer' = [answer EXCEPT ![c] = "none"]

Expire(c) ==
  /\ cpc[c] # "done" /\ ~late[c]
  /\ late' = [late EXCEPT ![c] = TRUE]
  /\ UNCHANGED <<cpc, result, kind, size, request, server, response>>

ExpiredWriting(c) == late[c] /\ cpc[c] # "reading"   \* mutant of Expired: no time limit on reads

(* `left` is called before the connect, each write and each read, and what *)
(* is left is the limit of that system call.                               *)
Expired(c) == late[c]

TimedOut(c) ==
  /\ cpc[c] \in {"connecting", "writing", "reading"}
  /\ Expired(c)
  /\ Return(c, "timeout")
  /\ UNCHANGED <<kind, size, request, server, response>>

Connect(c) ==
  /\ cpc[c] = "connecting" /\ ~Expired(c)
  /\ cpc' = [cpc EXCEPT ![c] = "writing"]
  /\ spc' = [spc EXCEPT ![c] = "queued"]
  /\ UNCHANGED <<result, late, kind, size, request, fate, handled, response>>

(* A system call of the client's fails by itself: connect, with what is    *)
(* neither NotFound nor ConnectionRefused (the EACCES of a socket that     *)
(* launchd still owns), peer_uid, either set_timeout, a read, a write or   *)
(* the shutdown.                                                           *)
SocketFails(c) ==
  /\ cpc[c] # "done"
  /\ Return(c, "local")
  /\ UNCHANGED <<kind, size, request, server, response>>

(* Nobody listens. *)
Unavailable(c) ==
  /\ cpc[c] = "connecting" /\ ~Expired(c)
  /\ Return(c, "unavailable")
  /\ UNCHANGED <<kind, size, request, server, response>>

(* The listener is another user's; launchd's is root's, which is trusted. *)
PeerMismatch(c) ==
  /\ cpc[c] = "writing" /\ sent[c] = 0 /\ kind[c] = "alien"
  /\ Return(c, "mismatch")
  /\ UNCHANGED <<kind, size, request, server, response>>

(* write_frame: one write, of as much as the socket takes. *)
Write(c) ==
  /\ cpc[c] = "writing" /\ ~Expired(c) /\ spc[c] # "closed"
  /\ \E k \in 1..Least(size[c] - sent[c], Room(sent[c], taken[c])) :
       /\ sent' = [sent EXCEPT ![c] = @ + k]
       /\ cpc' = [cpc EXCEPT ![c] =
                    IF sent[c] + k = size[c] THEN "shutting" ELSE "writing"]
  /\ UNCHANGED <<result, late, kind, size, taken, server, response>>

BrokenPipe(c) ==
  /\ cpc[c] = "writing" /\ ~Expired(c) /\ spc[c] = "closed"
  /\ Return(c, "io")
  /\ UNCHANGED <<kind, size, request, server, response>>

ShutdownWrite(c) ==
  /\ cpc[c] = "shutting"
  /\ cpc' = [cpc EXCEPT ![c] = "reading"]
  /\ UNCHANGED <<result, late, kind, size, request, server, response>>

(* Mutant of ReadFrame: the cap does not count the newline. *)
ReadFrameLonger(got, n) ==
  IF got = n THEN IF n - 1 > ClientMax THEN "toolarge" ELSE "frame"
  ELSE IF got > ClientMax THEN "toolarge" ELSE "more"

(* read_frame, with `got` bytes of a frame of n: the newline is at n - 1.  *)
ReadFrame(got, n) ==
  IF got = n THEN IF n - 1 >= ClientMax THEN "toolarge" ELSE "frame"
  ELSE IF got >= ClientMax THEN "toolarge" ELSE "more"

(* A whole response, decoded.  Its id is the request's, and one of another *)
(* major has an error: this server sends no other.                         *)
Decoded(a) == IF a = "other" THEN "invalid" ELSE a

Read(c) ==
  /\ cpc[c] = "reading" /\ ~Expired(c) /\ rtaken[c] < rsent[c]
  /\ LET got == rtaken[c] + Least(Chunk, rsent[c] - rtaken[c])
         end == ReadFrame(got, rsize[c])
     IN  /\ rtaken' = [rtaken EXCEPT ![c] = got]
         /\ \/ end = "more" /\ UNCHANGED <<cpc, result, late>>
            \/ end = "toolarge" /\ Return(c, end)
            \/ end = "frame" /\ Return(c, Decoded(answer[c]))
  /\ UNCHANGED <<kind, size, request, server, answer, rsize, rsent>>

(* A read of nothing, or of ECONNRESET. *)
ReadEnd(c) ==
  /\ cpc[c] = "reading" /\ ~Expired(c)
  /\ spc[c] = "closed" /\ rtaken[c] = rsent[c]
  /\ Return(c, IF taken[c] < sent[c] THEN "io"
               ELSE IF rtaken[c] = 0 THEN "closed" ELSE "invalid")
  /\ UNCHANGED <<kind, size, request, server, response>>
-----------------------------------------------------------------------------
(* serve_as. *)

Close(c, why) ==
  /\ spc' = [spc EXCEPT ![c] = "closed"]
  /\ fate' = [fate EXCEPT ![c] = why]

Accept(c) ==
  /\ spc[c] = "queued"
  /\ spc' = [spc EXCEPT ![c] = "reading"]
  /\ UNCHANGED <<client, request, fate, handled, response>>

(* accept reports a connection its peer gave up. *)
Aborted(c) ==
  /\ spc[c] = "queued" /\ cpc[c] = "done"
  /\ spc' = [spc EXCEPT ![c] = "none"]
  /\ UNCHANGED <<client, request, fate, handled, response>>

(* The peer is another user: closed before any read. *)
Deny(c) ==
  /\ spc[c] = "reading" /\ kind[c] = "alien"
  /\ Close(c, "refused")
  /\ UNCHANGED <<client, request, handled, response>>

(* The response, of the handler or the transport, and its write. *)
Respond(c, a, n) ==
  /\ spc' = [spc EXCEPT ![c] = "writing"]
  /\ answer' = [answer EXCEPT ![c] = a]
  /\ rsize' = [rsize EXCEPT ![c] = n]

(* A whole line: the envelope, and `respond` up to the handler.  The       *)
(* transport answers another major and a body that does not decode itself, *)
(* and closes on what is no envelope, or not UTF-8.                        *)
Line(c) ==
  \/ /\ kind[c] = "good"
     /\ spc' = [spc EXCEPT ![c] = "handling"]
     /\ handled' = [handled EXCEPT ![c] = TRUE]
     /\ UNCHANGED <<fate, response>>
  \/ /\ kind[c] = "bad"
     /\ \E n \in ResponseSizes : Respond(c, "remote", n)
     /\ UNCHANGED <<fate, handled, rsent, rtaken>>
  \/ /\ kind[c] = "bad"
     /\ Close(c, "refused")
     /\ UNCHANGED <<handled, response>>

ServerCapLess == ServerMax - 1      \* mutant of ServerCap: the newline is not counted in

(* What `take` and LinesCodec's max_length, one less, let through. *)
ServerCap == ServerMax

(* read_frame: one read. *)
ServeRead(c) ==
  /\ spc[c] = "reading" /\ kind[c] # "alien" /\ taken[c] < sent[c]
  /\ LET got == taken[c] + Least(Least(Chunk, sent[c] - taken[c]),
                                 ServerCap - taken[c])
     IN  /\ taken' = [taken EXCEPT ![c] = got]
         /\ \/ got = size[c] /\ Line(c)
            \/ /\ got < size[c]
               /\ IF got = ServerCap THEN Close(c, "oversize")
                                     ELSE UNCHANGED <<spc, fate>>
               /\ UNCHANGED <<handled, response>>
  /\ UNCHANGED <<client, sent>>

(* What came before the end is a line to LinesCodec, newline or not.  Of a *)
(* JSON object it parses when only the newline is missing.                 *)
Parses(c) == taken[c] + 1 = size[c]

ServeEof(c) ==
  /\ spc[c] = "reading" /\ kind[c] # "alien"
  /\ taken[c] = sent[c] /\ cpc[c] = "done"
  /\ IF taken[c] > 0 /\ Parses(c) THEN Line(c)
     ELSE Close(c, "refused") /\ UNCHANGED <<handled, response>>
  /\ UNCHANGED <<client, request>>

ReadTimeout(c) ==
  /\ spc[c] = "reading" /\ kind[c] # "alien"
  /\ taken[c] = sent[c] /\ cpc[c] # "done"
  /\ Close(c, "slow")
  /\ UNCHANGED <<client, request, handled, response>>

(* The handler returns, with a value, an error, or one that does not       *)
(* serialize, after which the connection closes without a reply.           *)
Handle(c) ==
  /\ spc[c] = "handling"
  /\ \/ /\ \E a \in Answers \ {"none"}, n \in ResponseSizes :
             Respond(c, a, n)
        /\ UNCHANGED <<fate, rsent, rtaken>>
     \/ Close(c, "unserialized") /\ UNCHANGED response
  /\ UNCHANGED <<client, request, handled>>

(* write_all: one write; after the last the stream is shut down, dropped.  *)
ServeWrite(c) ==
  /\ spc[c] = "writing" /\ cpc[c] # "done"
  /\ \E k \in 1..Least(rsize[c] - rsent[c], Room(rsent[c], rtaken[c])) :
       /\ rsent' = [rsent EXCEPT ![c] = @ + k]
       /\ IF rsent[c] + k = rsize[c] THEN Close(c, "replied")
                                     ELSE UNCHANGED <<spc, fate>>
  /\ UNCHANGED <<client, request, handled, answer, rsize, rtaken>>

WriteFails(c) ==
  /\ spc[c] = "writing" /\ cpc[c] = "done"
  /\ Close(c, "unread")
  /\ UNCHANGED <<client, request, handled, response>>

NeverSlow(c) == FALSE      \* mutant of WriteIsSlow: no write_timeout

WriteIsSlow(c) == Room(rsent[c], rtaken[c]) = 0

WriteTimeout(c) ==
  /\ spc[c] = "writing" /\ cpc[c] # "done"
  /\ WriteIsSlow(c)
  /\ Close(c, "slow")
  /\ UNCHANGED <<client, request, handled, response>>

(* peer_uid, a read or a write fails by itself, which all end serve_as. *)
ServeFails(c) ==
  /\ spc[c] \in {"reading", "writing"}
  /\ Close(c, "failed")
  /\ UNCHANGED <<client, request, handled, response>>

(* The task is dropped at an await: by the cut, or a handler's panic. *)
Drop(c) ==
  /\ spc[c] \in Serving
  /\ Close(c, "cut")
  /\ UNCHANGED <<client, request, handled, response>>
-----------------------------------------------------------------------------
ClientStep(c) ==
  \/ TimedOut(c) \/ Unavailable(c) \/ PeerMismatch(c) \/ Write(c)
  \/ BrokenPipe(c) \/ ShutdownWrite(c) \/ Read(c) \/ ReadEnd(c)

ServerStep(c) ==
  \/ Deny(c) \/ ServeRead(c) \/ ServeEof(c) \/ ReadTimeout(c)
  \/ ServeWrite(c) \/ WriteFails(c) \/ WriteTimeout(c)

TNext ==
  \E c \in Calls :
    \/ \E k \in Kinds, n \in RequestSizes : Call(c, k, n)
    \/ Expire(c) \/ Connect(c) \/ ClientStep(c) \/ SocketFails(c)
    \/ Accept(c) \/ Aborted(c) \/ Drop(c) \/ Handle(c) \/ ServerStep(c)
    \/ ServeFails(c)

TSpec == TInit /\ [][TNext]_tvars
-----------------------------------------------------------------------------
(* "The largest frame in either direction, newline included": the client   *)
(* and the server, which count it in two ways, refuse a frame when it is   *)
(* over the cap of the side that reads it, and only then, wherever the     *)
(* reads cut it.                                                           *)
CapIsExact ==
  \A c \in Calls :
    /\ fate[c] = "oversize" => size[c] > ServerMax
    /\ handled[c] => size[c] <= ServerMax
    /\ result[c] = "toolarge" => size[c] > ClientMax \/ rsize[c] > ClientMax
    /\ result[c] \in {"ok", "remote"} =>
         size[c] <= ClientMax /\ rsize[c] <= ClientMax

(* Why a connection is closed without its whole response, to a client that *)
(* still waits for it.                                                     *)
Losses == {"refused", "oversize", "slow", "unserialized", "failed", "cut"}

(* A call fails as closed, as broken, as reset or as cut off only when the *)
(* server closed without its response: it refused, a timeout of its own    *)
(* passed, a system call of its own failed, or the task was dropped.  A    *)
(* response that was written whole is never lost to the close that follows *)
(* it, and is refused only when it is none of the type asked for.          *)
LossIsExplained ==
  \A c \in Calls :
    /\ result[c] \in {"closed", "io"} => fate[c] \in Losses
    /\ result[c] = "invalid" =>
         \/ fate[c] \in Losses
         \/ answer[c] = "other" /\ rtaken[c] = rsize[c]

(* The bytes of a request and of a response are where the two ends' states *)
(* say they are.                                                           *)
RequestMatches ==
  \A c \in Calls :
    /\ taken[c] <= sent[c] /\ sent[c] <= size[c]
    /\ cpc[c] = "connecting" => spc[c] = "none" /\ sent[c] = 0
    /\ cpc[c] = "writing" => sent[c] < size[c]
    /\ cpc[c] \in {"shutting", "reading"} => sent[c] = size[c]
    /\ cpc[c] \in {"writing", "shutting", "reading"} => spc[c] # "none"
    /\ spc[c] = "reading" => taken[c] < size[c]
    /\ spc[c] \in {"none", "queued"} => taken[c] = 0 /\ fate[c] = "none"

ResponseMatches ==
  \A c \in Calls :
    /\ rtaken[c] <= rsent[c] /\ rsent[c] <= rsize[c]
    /\ spc[c] \notin {"writing", "closed"} => rsize[c] = 0 /\ answer[c] = "none"
    /\ spc[c] = "writing" => rsent[c] < rsize[c]
    /\ fate[c] = "replied" => rsent[c] = rsize[c] /\ rsize[c] > 0
    /\ cpc[c] # "done" /\ rtaken[c] > 0 => rtaken[c] < rsize[c]

(* What either end knows of the other by where it is, and by how the       *)
(* server closed: it never answers a request the client still writes, and  *)
(* gives up an answer only when the client is gone.                        *)
EndsMatch ==
  \A c \in Calls :
    /\ cpc[c] # "done" \/ spc[c] # "none" => size[c] > 0
    /\ cpc[c] # "done" => size[c] <= ClientMax
    /\ spc[c] = "reading" => taken[c] < ServerMax
    /\ spc[c] = "closed" <=> fate[c] # "none"
    /\ fate[c] # "exit"
    /\ fate[c] = "unread" => cpc[c] = "done"
    /\ spc[c] \in {"handling", "writing"} \/ fate[c] = "replied" =>
         taken[c] = size[c] \/ cpc[c] = "done"
    /\ result[c] \in {"ok", "remote"} => rsize[c] > 0

TInv ==
  /\ TypeOK
  /\ RequestMatches
  /\ ResponseMatches
  /\ EndsMatch
  /\ CapIsExact
  /\ LossIsExplained
-----------------------------------------------------------------------------
(* "Sets the one deadline for connect, write, and read together": a call   *)
(* of a process that keeps running returns, whatever the daemon does.      *)
CallReturns ==
  \A c \in Calls :
    WF_tvars(ClientStep(c)) => []<>(cpc[c] = "done")

(* "How long the server waits for a whole request", "for the client to     *)
(* take the response": a connection leaves the server's hands although its *)
(* client has stopped, at any byte of either frame.                        *)
ConnectionEnds ==
  \A c \in Calls :
    []<>(spc[c] # "reading") /\ []<>(spc[c] # "writing")
=============================================================================
