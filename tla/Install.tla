------------------------------ MODULE Install ------------------------------
(***************************************************************************)
(* `install` and `uninstall` of crates/unixd/src/install.rs, on macOS and  *)
(* on Linux, step by step, with steps that fail.  The services are the     *)
(* majors of one name: each has its own units and socket, and the socket's *)
(* directory is shared.  Different services' operations overlap; one       *)
(* service has one at a time.  The length and UTF-8 checks of `install`    *)
(* fail before anything changes, and are no step.                          *)
(*                                                                         *)
(* External: the service manager.                                          *)
(*   systemd keeps the unit it read at daemon-reload; `enable --now` does  *)
(*     not touch an active socket, makes the directory and binds over an   *)
(*     old path; `disable --now` leaves the path, and may refuse when the  *)
(*     .service file is missing.                                           *)
(*   launchd's `bootout` returns before the job is gone, and `bootstrap`   *)
(*     fails until it is; `bootstrap` reads the plist and binds the socket *)
(*     as root if its directory is there, and it is the user's later.      *)
(***************************************************************************)
EXTENDS Naturals, Sequences

CONSTANTS
  Services,
  Programs,     \* what a service is installed to run
  MaxFaults     \* bound on the steps that fail

ASSUME ServicesAssumption == Services # {}
ASSUME ProgramsAssumption ==
  Programs # {} /\ "none" \notin Programs /\ "torn" \notin Programs
ASSUME FaultsAssumption == MaxFaults \in Nat

VARIABLES
  host,        \* target_os
  op, pc,      \* the operation on a service, and its step
  program,     \* its argument
  last,        \* how the last operation ended
  unit,        \* the .socket unit, or the plist
  service,     \* the .service unit
  dir,         \* the sockets' directory is there
  sock,        \* the socket's path: of nobody, root's, the user's
  job,         \* the socket unit, or the job, at the service manager
  enabled, loaded,
  stray,       \* history: a failed query left it at the service manager
  faults

files == <<unit, service>>
manager == <<job, enabled, loaded>>
control == <<op, pc, program, last, faults, stray>>
vars == <<host, control, files, dir, sock, manager>>

Contents == Programs \cup {"none", "torn"}

(* The steps of both operations, in the code's order. *)
LinuxPlan ==
  [install |-> <<"unit", "service", "reload", "enable">>,
   uninstall |-> <<"disable", "rm_unit", "rm_service", "rm_socket", "reload",
                   "rm_dir">>]

MacosPlan ==
  [install |-> <<"dir", "unit", "bootout", "gone", "bootstrap", "await">>,
   uninstall |-> <<"bootout", "gone", "rm_unit", "rm_socket", "rm_dir">>]

Plan == [linux |-> LinuxPlan, macos |-> MacosPlan]

Ends == {"none", "installed", "removed", "failed"}

TypeOK ==
  /\ host \in {"linux", "macos"}
  /\ op \in [Services -> {"idle", "install", "uninstall"}]
  /\ pc \in [Services -> 1..6]
  /\ program \in [Services -> Programs]
  /\ last \in [Services -> Ends]
  /\ unit \in [Services -> Contents] /\ service \in [Services -> Contents]
  /\ dir \in BOOLEAN
  /\ sock \in [Services -> {"none", "dead", "root", "live"}]
  /\ job \in [Services -> {"out", "active", "leaving"}]
  /\ enabled \in [Services -> BOOLEAN]
  /\ loaded \in [Services -> Contents]
  /\ stray \in [Services -> BOOLEAN]
  /\ faults \in Nat

Init ==
  /\ host \in {"linux", "macos"}
  /\ op = [s \in Services |-> "idle"]
  /\ pc = [s \in Services |-> 1]
  /\ program \in [Services -> Programs]
  /\ last = [s \in Services |-> "none"]
  /\ unit = [s \in Services |-> "none"]
  /\ service = [s \in Services |-> "none"]
  /\ dir = FALSE
  /\ sock = [s \in Services |-> "none"]
  /\ job = [s \in Services |-> "out"]
  /\ enabled = [s \in Services |-> FALSE]
  /\ loaded = [s \in Services |-> "none"]
  /\ stray = [s \in Services |-> FALSE]
  /\ faults = 0
-----------------------------------------------------------------------------
At(s, step) == op[s] # "idle" /\ Plan[host][op[s]][pc[s]] = step

Start(s) ==
  /\ op[s] = "idle"
  /\ \/ /\ op' = [op EXCEPT ![s] = "install"]
        /\ \E p \in Programs : program' = [program EXCEPT ![s] = p]
     \/ /\ op' = [op EXCEPT ![s] = "uninstall"]
        /\ UNCHANGED program
  /\ pc' = [pc EXCEPT ![s] = 1]
  /\ last' = [last EXCEPT ![s] = "none"]
  /\ UNCHANGED <<host, faults, stray, files, dir, sock, manager>>

Return(s, how) ==
  /\ op' = [op EXCEPT ![s] = "idle"]
  /\ last' = [last EXCEPT ![s] = how]
  /\ UNCHANGED <<host, pc, program>>

(* The next step, or Ok(()). *)
Proceed(s) ==
  \/ /\ pc[s] < Len(Plan[host][op[s]])
     /\ pc' = [pc EXCEPT ![s] = @ + 1]
     /\ UNCHANGED <<host, op, program, last>>
  \/ /\ pc[s] = Len(Plan[host][op[s]])
     /\ Return(s, IF op[s] = "install" THEN "installed" ELSE "removed")

Succeed(s) == Proceed(s) /\ UNCHANGED faults

Fail(s) ==
  /\ faults < MaxFaults
  /\ faults' = faults + 1
  /\ Return(s, "failed")

(* The `?` of a step that changes nothing when it fails. *)
FailClean(s, steps) ==
  /\ \E step \in steps : At(s, step)
  /\ Fail(s)
  /\ UNCHANGED <<files, dir, sock, manager, stray>>

(* `launchctl print` or the stat of `exists` fails, which both callers     *)
(* read as "not there".                                                    *)
QueryFails(s) ==
  /\ faults < MaxFaults
  /\ faults' = faults + 1
  /\ stray' = [stray EXCEPT ![s] = job[s] # "out" \/ enabled[s]]
-----------------------------------------------------------------------------
(* The files. *)

(* fs::write and to_file_xml make the file, or truncate it, before they    *)
(* write.  The create_dir_all before it fails as the write does before its *)
(* first change.                                                           *)
WriteUnit(s) ==
  /\ At(s, "unit")
  /\ \/ Succeed(s) /\ unit' = [unit EXCEPT ![s] = program[s]]
     \/ Fail(s) /\ \E c \in {unit[s], "torn"} : unit' = [unit EXCEPT ![s] = c]
  /\ UNCHANGED <<service, dir, sock, manager, stray>>

WriteService(s) ==
  /\ At(s, "service")
  /\ \/ Succeed(s) /\ service' = [service EXCEPT ![s] = program[s]]
     \/ /\ Fail(s)
        /\ \E c \in {service[s], "torn"} : service' = [service EXCEPT ![s] = c]
  /\ UNCHANGED <<unit, dir, sock, manager, stray>>

PrivateDir(s) ==
  /\ At(s, "dir") /\ Succeed(s)
  /\ dir' = TRUE
  /\ UNCHANGED <<files, sock, manager, stray>>

RemoveUnit(s) ==
  /\ At(s, "rm_unit") /\ Succeed(s)
  /\ unit' = [unit EXCEPT ![s] = "none"]
  /\ UNCHANGED <<service, dir, sock, manager, stray>>

RemoveService(s) ==
  /\ At(s, "rm_service") /\ Succeed(s)
  /\ service' = [service EXCEPT ![s] = "none"]
  /\ UNCHANGED <<unit, dir, sock, manager, stray>>

KeptSocket(s) == sock[s]      \* mutant of RemovedSocket: the path is left

RemovedSocket(s) == "none"

RemoveSocket(s) ==
  /\ At(s, "rm_socket") /\ Succeed(s)
  /\ sock' = [sock EXCEPT ![s] = RemovedSocket(s)]
  /\ UNCHANGED <<files, dir, manager, stray>>

(* remove_dir: NotFound and DirectoryNotEmpty are passed over. *)
RemoveDir(s) ==
  /\ At(s, "rm_dir") /\ Succeed(s)
  /\ dir' = (dir /\ \E t \in Services : sock[t] # "none")
  /\ UNCHANGED <<files, sock, manager, stray>>
-----------------------------------------------------------------------------
(* systemctl --user. *)

DaemonReload(s) ==
  /\ At(s, "reload") /\ Succeed(s)
  /\ loaded' = service
  /\ UNCHANGED <<files, dir, sock, job, enabled, stray>>

(* enable --now, which may fail between the two. *)
Enable(s) ==
  /\ At(s, "enable")
  /\ enabled' = [enabled EXCEPT ![s] = TRUE]
  /\ \/ /\ Succeed(s)
        /\ job' = [job EXCEPT ![s] = "active"]
        /\ IF job[s] = "active" THEN UNCHANGED <<sock, dir, stray>>
           ELSE /\ sock' = [sock EXCEPT ![s] = "live"] /\ dir' = TRUE
                /\ stray' = [stray EXCEPT ![s] = FALSE]
     \/ Fail(s) /\ UNCHANGED <<job, sock, dir, stray>>
  /\ UNCHANGED <<files, loaded>>

ExistsWhole(s) == unit[s] \in Programs      \* mutant of Exists: torn is not there

Exists(s) == unit[s] # "none"

(* disable --now, when the unit is there and its stat says so. *)
Disable(s) ==
  /\ At(s, "disable")
  /\ \/ /\ ~Exists(s) /\ Succeed(s)
        /\ UNCHANGED <<enabled, job, sock, stray>>
     \/ /\ Exists(s) /\ QueryFails(s) /\ Proceed(s)
        /\ UNCHANGED <<enabled, job, sock>>
     \/ /\ Exists(s) /\ Succeed(s)
        /\ enabled' = [enabled EXCEPT ![s] = FALSE]
        /\ job' = [job EXCEPT ![s] = "out"]
        /\ stray' = [stray EXCEPT ![s] = FALSE]
        /\ sock' = [sock EXCEPT ![s] = IF @ = "live" THEN "dead" ELSE @]
     \/ /\ Exists(s) /\ Fail(s)
        /\ enabled' = [enabled EXCEPT ![s] = FALSE]
        /\ UNCHANGED <<job, sock, stray>>
     \/ /\ Exists(s) /\ service[s] = "none"
        /\ Return(s, "failed")
        /\ UNCHANGED <<faults, enabled, job, sock, stray>>
  /\ UNCHANGED <<files, dir, loaded>>
-----------------------------------------------------------------------------
(* launchctl. *)

(* `bootout`: Ok at once, without the wait, when `loaded` says no, and     *)
(* otherwise launchctl bootout, which may not like a job that an earlier   *)
(* one left on its way out.                                                *)
Bootout(s) ==
  /\ At(s, "bootout")
  /\ \/ /\ \/ job[s] = "out" /\ UNCHANGED <<faults, stray>>
           \/ job[s] # "out" /\ QueryFails(s)
        /\ pc' = [pc EXCEPT ![s] = @ + 2]
        /\ UNCHANGED <<host, op, program, last, job>>
     \/ /\ job[s] # "out" /\ Succeed(s)
        /\ job' = [job EXCEPT ![s] = "leaving"]
        /\ UNCHANGED stray
     \/ /\ \/ job[s] # "out" /\ Fail(s)
           \/ job[s] = "leaving" /\ Return(s, "failed") /\ UNCHANGED faults
        /\ UNCHANGED <<job, stray>>
  /\ UNCHANGED <<files, dir, sock, enabled, loaded>>

NoWait(s) == TRUE      \* mutant of Gone: the next step comes at once

Gone(s) == job[s] = "out"

Unlimited(s) == FALSE      \* mutant of TriedOut: waits for ever

(* 50 tries, 100 ms apart. *)
TriedOut(s) == TRUE

BootoutWait(s) ==
  /\ At(s, "gone")
  /\ \/ Gone(s) /\ Succeed(s) /\ UNCHANGED stray
     \/ ~Gone(s) /\ QueryFails(s) /\ Proceed(s)
     \/ ~Gone(s) /\ TriedOut(s) /\ Return(s, "failed")
        /\ UNCHANGED <<faults, stray>>
  /\ UNCHANGED <<files, dir, sock, manager>>

Bootstrap(s) ==
  /\ At(s, "bootstrap")
  /\ \/ /\ job[s] = "out" /\ Succeed(s)
        /\ job' = [job EXCEPT ![s] = "active"]
        /\ loaded' = [loaded EXCEPT ![s] = unit[s]]
        /\ sock' = [sock EXCEPT ![s] = IF dir THEN "root" ELSE "none"]
     \/ /\ job[s] # "out"
        /\ Return(s, "failed")
        /\ UNCHANGED <<faults, job, loaded, sock>>
  /\ UNCHANGED <<files, dir, enabled, stray>>

SocketIsThere(s) == sock[s] # "none"      \* mutant of SocketReady: any owner

(* A socket, and the user's. *)
SocketReady(s) == sock[s] \in {"dead", "live"}

AwaitSocket(s) ==
  /\ At(s, "await")
  /\ \/ SocketReady(s) /\ Succeed(s)
     \/ ~SocketReady(s) /\ TriedOut(s) /\ Return(s, "failed")
        /\ UNCHANGED faults
  /\ UNCHANGED <<files, dir, sock, manager, stray>>

(* launchd hands the socket to the user. *)
Chown(s) ==
  /\ sock[s] = "root" /\ job[s] = "active"
  /\ sock' = [sock EXCEPT ![s] = "live"]
  /\ UNCHANGED <<host, control, files, dir, manager>>

(* launchd is done with a job; its path may stay. *)
Unload(s) ==
  /\ job[s] = "leaving"
  /\ job' = [job EXCEPT ![s] = "out"]
  /\ \E left \in {"none", "dead"} :
       sock' = [sock EXCEPT ![s] = IF @ = "none" THEN @ ELSE left]
  /\ loaded' = [loaded EXCEPT ![s] = "none"]
  /\ stray' = [stray EXCEPT ![s] = FALSE]
  /\ UNCHANGED <<host, op, pc, program, last, faults, files, dir, enabled>>
-----------------------------------------------------------------------------
Step(s) ==
  \/ WriteUnit(s) \/ WriteService(s) \/ PrivateDir(s)
  \/ RemoveUnit(s) \/ RemoveService(s) \/ RemoveSocket(s) \/ RemoveDir(s)
  \/ DaemonReload(s) \/ Enable(s) \/ Disable(s)
  \/ Bootout(s) \/ BootoutWait(s) \/ Bootstrap(s) \/ AwaitSocket(s)
  \/ FailClean(s, {"dir", "rm_unit", "rm_service", "rm_socket", "rm_dir",
                   "reload", "bootstrap", "await"})

Next ==
  \E s \in Services :
    \/ Start(s) \/ Step(s) \/ Chown(s) \/ Unload(s)

Spec == Init /\ [][Next]_vars

(* The process of an operation runs.  Nothing is asked of launchd. *)
FairSpec == Spec /\ \A s \in Services : WF_vars(Step(s))
-----------------------------------------------------------------------------
(* "Installs service so the service manager listens on its socket and      *)
(* starts program on the first connection": it does, after an install that *)
(* returned Ok, whatever failed operations left behind before it, and      *)
(* until the next one, whatever other services' operations do meanwhile to *)
(* the directory and the units.  Except that `enable --now` passes over a  *)
(* unit that an uninstall, its stat having failed, left active without its *)
(* socket.                                                                 *)
InstalledServes ==
  \A s \in Services :
    last[s] = "installed" =>
      /\ job[s] = "active" /\ loaded[s] = program[s] /\ unit[s] = program[s]
      /\ ~stray[s] => sock[s] = "live" /\ dir
      /\ host = "linux" => enabled[s]

(* "Stops service and removes its units, its socket": no file of it is     *)
(* left after an uninstall that returned Ok, also of a service whose       *)
(* install or uninstall had failed half-way, nor anything at the service   *)
(* manager, if the queries of the uninstall were answered or the manager   *)
(* has stopped it since.                                                   *)
RemovedIsGone ==
  \A s \in Services :
    last[s] = "removed" =>
      /\ unit[s] = "none" /\ service[s] = "none" /\ sock[s] = "none"
      /\ ~stray[s] => job[s] = "out" /\ loaded[s] = "none" /\ ~enabled[s]

(* "Stops service": an uninstall that returned Ok has stopped it, or asked *)
(* the service manager to.                                                 *)
UninstallStops ==
  \A s \in Services : last[s] = "removed" => job[s] # "active"

(* "and the socket's directory when nothing else is in it": uninstalls     *)
(* that overlap each pass over the other's socket, and yet the last of     *)
(* them removes the directory.                                             *)
DirIsRemoved == (\A s \in Services : last[s] = "removed") => ~dir

(* "bootout returns before the job is gone and a bootstrap in that window  *)
(* fails": an install whose queries are answered never meets a job, one    *)
(* that a failed query left behind or an operation gave up on included.    *)
BootstrapMeetsNoJob ==
  \A s \in Services :
    At(s, "bootstrap") /\ ~stray[s] => job[s] = "out"

(* What the steps an operation has behind it leave, whatever the other     *)
(* services' operations do in between.                                     *)
Past(s, step) ==
  op[s] # "idle" /\ \E i \in 1..(pc[s] - 1) : Plan[host][op[s]][i] = step

InstallSteps ==
  \A s \in Services :
    op[s] = "install" =>
      /\ Past(s, "unit") => unit[s] = program[s]
      /\ Past(s, "service") => service[s] = program[s]
      /\ Past(s, "reload") => loaded[s] = program[s]
      /\ Past(s, "gone") /\ ~Past(s, "bootstrap") =>
           job[s] = "out" \/ stray[s]
      /\ Past(s, "bootstrap") =>
           /\ job[s] = "active" /\ loaded[s] = program[s]
           /\ sock[s] # "dead" /\ ~stray[s]

UninstallSteps ==
  \A s \in Services :
    op[s] = "uninstall" =>
      /\ Past(s, "disable") \/ Past(s, "gone") =>
           stray[s] \/ (job[s] = "out" /\ ~enabled[s])
      /\ Past(s, "rm_unit") => unit[s] = "none"
      /\ Past(s, "rm_service") => service[s] = "none"
      /\ Past(s, "rm_socket") => sock[s] = "none"
      /\ Past(s, "reload") => loaded[s] = "none"

(* The service manager has a job only of a unit it was given, and a socket *)
(* only in a directory.                                                    *)
ManagerMatches ==
  \A s \in Services :
    /\ op[s] # "idle" => pc[s] <= Len(Plan[host][op[s]])
    /\ sock[s] # "none" => dir
    /\ sock[s] \in {"root", "live"} => job[s] # "out"
    /\ host = "linux" =>
         /\ job[s] # "leaving" /\ sock[s] # "root"
         /\ job[s] = "active" => sock[s] = "live" \/ stray[s]
         /\ unit[s] = "none" => stray[s] \/ (job[s] = "out" /\ ~enabled[s])
    /\ host = "macos" =>
         /\ service[s] = "none" /\ ~enabled[s]
         /\ job[s] = "out" => loaded[s] = "none" /\ ~stray[s]

(* An operation under way has not ended, and a reload for another service, *)
(* which reads every unit again, finds what this one was installed with.   *)
EndsMatch ==
  \A s \in Services :
    /\ op[s] # "idle" => last[s] = "none"
    /\ host = "linux" /\ last[s] = "installed" => service[s] = program[s]

(* The inductive invariant. *)
IInv ==
  /\ TypeOK
  /\ InstallSteps /\ UninstallSteps /\ ManagerMatches /\ EndsMatch
  /\ InstalledServes /\ RemovedIsGone /\ DirIsRemoved
  /\ BootstrapMeetsNoJob

(* Both operations return, with launchd stuck at any point too. *)
OperationEnds == \A s \in Services : []<>(op[s] = "idle")
=============================================================================
