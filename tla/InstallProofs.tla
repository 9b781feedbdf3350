---------------------------- MODULE InstallProofs ----------------------------
(***************************************************************************)
(* The operations of install.rs, for any number of services that share a   *)
(* directory, any programs, on either host, and any number of faults.      *)
(***************************************************************************)
EXTENDS Install, TLAPS

(* An operation under way is at a step of its plan. *)
InPlan == \A s \in Services : op[s] # "idle" => pc[s] <= Len(Plan[host][op[s]])

(* InstallSteps and UninstallSteps, with the steps by their numbers. *)
InstallNumber(s) ==
  /\ op[s] = "install" /\ host = "linux" =>
       /\ pc[s] > 1 => unit[s] = program[s]
       /\ pc[s] > 2 => service[s] = program[s]
       /\ pc[s] > 3 => loaded[s] = program[s]
  /\ op[s] = "install" /\ host = "macos" =>
       /\ pc[s] > 2 => unit[s] = program[s]
       /\ pc[s] = 5 => job[s] = "out" \/ stray[s]
       /\ pc[s] > 5 =>
            /\ job[s] = "active" /\ loaded[s] = program[s]
            /\ sock[s] # "dead" /\ ~stray[s]

UninstallNumber(s) ==
  /\ op[s] = "uninstall" /\ host = "linux" =>
       /\ pc[s] > 1 => stray[s] \/ (job[s] = "out" /\ ~enabled[s])
       /\ pc[s] > 2 => unit[s] = "none"
       /\ pc[s] > 3 => service[s] = "none"
       /\ pc[s] > 4 => sock[s] = "none"
       /\ pc[s] > 5 => loaded[s] = "none"
  /\ op[s] = "uninstall" /\ host = "macos" =>
       /\ pc[s] > 2 => stray[s] \/ (job[s] = "out" /\ ~enabled[s])
       /\ pc[s] > 3 => unit[s] = "none"
       /\ pc[s] > 4 => sock[s] = "none"

InstallNumbers == \A s \in Services : InstallNumber(s)

UninstallNumbers == \A s \in Services : UninstallNumber(s)

(* The steps of the plans and their numbers. *)
LEMMA LinuxInstall ==
  LET plan == Plan["linux"]["install"]
  IN  /\ Len(plan) = 4
      /\ plan[1] = "unit" /\ plan[2] = "service"
      /\ plan[3] = "reload" /\ plan[4] = "enable"
BY DEF Plan, LinuxPlan

LEMMA LinuxUninstall ==
  LET plan == Plan["linux"]["uninstall"]
  IN  /\ Len(plan) = 6
      /\ plan[1] = "disable" /\ plan[2] = "rm_unit"
      /\ plan[3] = "rm_service" /\ plan[4] = "rm_socket"
      /\ plan[5] = "reload" /\ plan[6] = "rm_dir"
BY DEF Plan, LinuxPlan

LEMMA MacosInstall ==
  LET plan == Plan["macos"]["install"]
  IN  /\ Len(plan) = 6
      /\ plan[1] = "dir" /\ plan[2] = "unit"
      /\ plan[3] = "bootout" /\ plan[4] = "gone"
      /\ plan[5] = "bootstrap" /\ plan[6] = "await"
BY DEF Plan, MacosPlan

LEMMA MacosUninstall ==
  LET plan == Plan["macos"]["uninstall"]
  IN  /\ Len(plan) = 5
      /\ plan[1] = "bootout" /\ plan[2] = "gone"
      /\ plan[3] = "rm_unit" /\ plan[4] = "rm_socket"
      /\ plan[5] = "rm_dir"
BY DEF Plan, MacosPlan

(* Where a step is. *)
LEMMA AtNumber ==
  ASSUME TypeOK, InPlan, NEW s \in Services
  PROVE  /\ At(s, "unit") =>
              op[s] = "install" /\ pc[s] = IF host = "linux" THEN 1 ELSE 2
         /\ At(s, "service") =>
              op[s] = "install" /\ host = "linux" /\ pc[s] = 2
         /\ At(s, "enable") =>
              op[s] = "install" /\ host = "linux" /\ pc[s] = 4
         /\ At(s, "dir") =>
              op[s] = "install" /\ host = "macos" /\ pc[s] = 1
         /\ At(s, "bootstrap") =>
              op[s] = "install" /\ host = "macos" /\ pc[s] = 5
         /\ At(s, "await") =>
              op[s] = "install" /\ host = "macos" /\ pc[s] = 6
         /\ At(s, "disable") =>
              op[s] = "uninstall" /\ host = "linux" /\ pc[s] = 1
         /\ At(s, "rm_service") =>
              op[s] = "uninstall" /\ host = "linux" /\ pc[s] = 3
         /\ At(s, "rm_unit") =>
              op[s] = "uninstall" /\ pc[s] = IF host = "linux" THEN 2 ELSE 3
         /\ At(s, "rm_socket") => op[s] = "uninstall" /\ pc[s] = 4
         /\ At(s, "rm_dir") =>
              op[s] = "uninstall" /\ pc[s] = IF host = "linux" THEN 6 ELSE 5
         /\ At(s, "reload") =>
              host = "linux" /\ pc[s] = IF op[s] = "install" THEN 3 ELSE 5
         /\ At(s, "bootout") =>
              host = "macos" /\ pc[s] = IF op[s] = "install" THEN 3 ELSE 1
         /\ At(s, "gone") =>
              host = "macos" /\ pc[s] = IF op[s] = "install" THEN 4 ELSE 2
<1>1. /\ op[s] \in {"idle", "install", "uninstall"}
      /\ host \in {"linux", "macos"} /\ pc[s] \in 1..6
      /\ op[s] # "idle" => pc[s] <= Len(Plan[host][op[s]])
  BY DEF TypeOK, InPlan
<1>2. CASE op[s] = "install" /\ host = "linux"
  BY <1>1, <1>2, LinuxInstall DEF At
<1>3. CASE op[s] = "uninstall" /\ host = "linux"
  BY <1>1, <1>3, LinuxUninstall DEF At
<1>4. CASE op[s] = "install" /\ host = "macos"
  BY <1>1, <1>4, MacosInstall DEF At
<1>5. CASE op[s] = "uninstall" /\ host = "macos"
  BY <1>1, <1>5, MacosUninstall DEF At
<1>6. CASE op[s] = "idle"
  BY <1>6 DEF At
<1>7. QED
  BY <1>1, <1>2, <1>3, <1>4, <1>5, <1>6

(* The steps behind an operation are those of smaller numbers. *)
LEMMA PastNumber ==
  ASSUME TypeOK, InPlan, NEW s \in Services
  PROVE  /\ op[s] = "install" /\ Past(s, "unit") =>
              pc[s] > IF host = "linux" THEN 1 ELSE 2
         /\ op[s] = "install" /\ Past(s, "service") =>
              host = "linux" /\ pc[s] > 2
         /\ op[s] = "install" /\ Past(s, "reload") =>
              host = "linux" /\ pc[s] > 3
         /\ op[s] = "install" /\ Past(s, "gone") =>
              host = "macos" /\ pc[s] > 4
         /\ op[s] = "install" /\ Past(s, "bootstrap") =>
              host = "macos" /\ pc[s] > 5
         /\ op[s] = "install" /\ host = "macos" /\ pc[s] > 5 =>
              Past(s, "bootstrap")
         /\ op[s] = "uninstall" /\ Past(s, "disable") =>
              host = "linux" /\ pc[s] > 1
         /\ op[s] = "uninstall" /\ Past(s, "gone") =>
              host = "macos" /\ pc[s] > 2
         /\ op[s] = "uninstall" /\ Past(s, "rm_unit") =>
              pc[s] > IF host = "linux" THEN 2 ELSE 3
         /\ op[s] = "uninstall" /\ Past(s, "rm_service") =>
              host = "linux" /\ pc[s] > 3
         /\ op[s] = "uninstall" /\ Past(s, "rm_socket") => pc[s] > 4
         /\ op[s] = "uninstall" /\ Past(s, "reload") =>
              host = "linux" /\ pc[s] > 5
<1>1. /\ op[s] \in {"idle", "install", "uninstall"}
      /\ host \in {"linux", "macos"} /\ pc[s] \in 1..6
      /\ op[s] # "idle" => pc[s] <= Len(Plan[host][op[s]])
  BY DEF TypeOK, InPlan
<1>2. CASE op[s] = "install" /\ host = "linux"
  BY <1>1, <1>2, LinuxInstall DEF Past
<1>3. CASE op[s] = "uninstall" /\ host = "linux"
  BY <1>1, <1>3, LinuxUninstall DEF Past
<1>4. CASE op[s] = "install" /\ host = "macos"
  BY <1>1, <1>4, MacosInstall DEF Past
<1>5. CASE op[s] = "uninstall" /\ host = "macos"
  BY <1>1, <1>5, MacosUninstall DEF Past
<1>6. CASE op[s] = "idle"
  BY <1>6
<1>7. QED
  BY <1>1, <1>2, <1>3, <1>4, <1>5, <1>6

(* The next step, or the last one's Ok(()). *)
Advance(s) ==
  /\ pc[s] < IF op[s] = "install" THEN IF host = "linux" THEN 4 ELSE 6
                                   ELSE IF host = "linux" THEN 6 ELSE 5
  /\ pc[s] + 1 <= Len(Plan[host][op[s]])
  /\ pc' = [pc EXCEPT ![s] = @ + 1]
  /\ UNCHANGED <<host, op, program, last>>

(* `bootout` without its wait. *)
Skip(s) ==
  /\ pc[s] = IF op[s] = "install" THEN 3 ELSE 1
  /\ pc[s] + 2 <= Len(Plan[host][op[s]])
  /\ pc' = [pc EXCEPT ![s] = @ + 2]
  /\ UNCHANGED <<host, op, program, last>>

Finish(s) ==
  \/ /\ op[s] = "install" /\ pc[s] = IF host = "linux" THEN 4 ELSE 6
     /\ Return(s, "installed")
  \/ /\ op[s] = "uninstall" /\ pc[s] = IF host = "linux" THEN 6 ELSE 5
     /\ Return(s, "removed")

LEMMA ProceedNumber ==
  ASSUME TypeOK, InPlan, NEW s \in Services, op[s] # "idle", Proceed(s)
  PROVE  Advance(s) \/ Finish(s)
<1>1. /\ op[s] \in {"idle", "install", "uninstall"}
      /\ host \in {"linux", "macos"} /\ pc[s] \in 1..6
  BY DEF TypeOK, InPlan
<1>2. CASE pc[s] < Len(Plan[host][op[s]])
  <2>1. Len(Plan[host][op[s]]) \in Nat
    BY <1>1, LinuxInstall, LinuxUninstall, MacosInstall, MacosUninstall
  <2>2. pc[s] < IF op[s] = "install" THEN IF host = "linux" THEN 4 ELSE 6
                                     ELSE IF host = "linux" THEN 6 ELSE 5
    <3>1. CASE op[s] = "install" /\ host = "linux"
      BY <1>1, <1>2, <3>1, LinuxInstall
    <3>2. CASE op[s] = "uninstall" /\ host = "linux"
      BY <1>1, <1>2, <3>2, LinuxUninstall
    <3>3. CASE op[s] = "install" /\ host = "macos"
      BY <1>1, <1>2, <3>3, MacosInstall
    <3>4. CASE op[s] = "uninstall" /\ host = "macos"
      BY <1>1, <1>2, <3>4, MacosUninstall
    <3>5. QED
      BY <1>1, <3>1, <3>2, <3>3, <3>4
  <2>3. QED
    BY SMTT(30), <1>1, <1>2, <2>1, <2>2 DEF Proceed, Advance
<1>3. CASE pc[s] = Len(Plan[host][op[s]])
  <2>1. Return(s, IF op[s] = "install" THEN "installed" ELSE "removed")
    BY <1>1, <1>3 DEF Proceed
  <2>2. op[s] = "install" => pc[s] = IF host = "linux" THEN 4 ELSE 6
    BY <1>1, <1>3, LinuxInstall, MacosInstall
  <2>3. op[s] = "uninstall" => pc[s] = IF host = "linux" THEN 6 ELSE 5
    BY <1>1, <1>3, LinuxUninstall, MacosUninstall
  <2>4. QED
    BY <1>1, <2>1, <2>2, <2>3 DEF Finish
<1>4. QED
  BY <1>2, <1>3 DEF Proceed
-----------------------------------------------------------------------------
(* The inductive invariant, with the steps by their numbers. *)
NInv ==
  /\ TypeOK /\ InPlan
  /\ InstallNumbers /\ UninstallNumbers /\ ManagerMatches /\ EndsMatch
  /\ InstalledServes /\ RemovedIsGone /\ DirIsRemoved

(* What a step does to its operation. *)
Moves(s) ==
  /\ Advance(s) \/ Skip(s) \/ Finish(s) \/ Return(s, "failed")
  /\ faults' \in Nat

ControlType ==
  /\ host \in {"linux", "macos"}
  /\ op \in [Services -> {"idle", "install", "uninstall"}]
  /\ pc \in [Services -> 1..6]
  /\ program \in [Services -> Programs]
  /\ last \in [Services -> Ends]
  /\ faults \in Nat

(* A move keeps the types of what it moves. *)
LEMMA MovesType ==
  ASSUME TypeOK, InPlan, NEW s \in Services, op[s] # "idle", Moves(s)
  PROVE  ControlType' /\ InPlan'
<1> USE DEF TypeOK, InPlan, Moves, Return, Ends
<1>1. CASE Advance(s)
  <2>1. ControlType'
    BY <1>1 DEF Advance, ControlType
  <2>2. InPlan'
    BY <1>1 DEF Advance
  <2>3. QED
    BY <2>1, <2>2
<1>2. CASE Finish(s)
  <2>1. ControlType'
    BY <1>2 DEF Finish, ControlType
  <2>2. InPlan'
    BY <1>2 DEF Finish
  <2>3. QED
    BY <2>1, <2>2
<1>3. CASE Return(s, "failed")
  <2>1. ControlType'
    BY <1>3 DEF ControlType
  <2>2. InPlan'
    BY <1>3
  <2>3. QED
    BY <2>1, <2>2
<1>4. CASE Skip(s)
  <2>1. ControlType'
    BY <1>4 DEF Skip, ControlType
  <2>2. InPlan'
    BY <1>4 DEF Skip
  <2>3. QED
    BY <2>1, <2>2
<1>5. QED
  BY <1>1, <1>2, <1>3, <1>4

(* Each step leaves what the later ones, and Ok(()), rely on. *)
LEMMA StepInv ==
  ASSUME NInv, NEW s \in Services, Step(s)
  PROVE  NInv'
<1> USE ProgramsAssumption
    DEF TypeOK, Contents, files, manager, Succeed, Fail, Return, QueryFails,
        InstallNumber, UninstallNumber
<1>0. /\ TypeOK /\ InPlan /\ InstallNumbers /\ UninstallNumbers
      /\ ManagerMatches /\ EndsMatch /\ InstalledServes /\ RemovedIsGone
      /\ DirIsRemoved
  BY DEF NInv
<1>1. CASE WriteUnit(s)
  <2>1. op[s] = "install" /\ pc[s] = IF host = "linux" THEN 1 ELSE 2
    BY <1>0, <1>1, AtNumber DEF WriteUnit, At
  <2>2. Proceed(s) => Advance(s)
    BY <1>0, <2>1, ProceedNumber DEF Advance, Finish
  <2>3. Moves(s)
    BY <1>0, <1>1, <2>1, <2>2, FaultsAssumption DEF WriteUnit, Moves, Finish
  <2>4. ControlType' /\ InPlan'
    BY <1>0, <2>1, <2>3, MovesType
  <2>5. TypeOK'
    BY <1>0, <1>1, <2>4 DEF WriteUnit, ControlType
  <2>6. InstallNumbers'
    BY <1>0, <1>1, <2>1, <2>2, <2>4
    DEF WriteUnit, Advance, InstallNumbers
  <2>7. UninstallNumbers'
    BY <1>0, <1>1, <2>1, <2>2, <2>4
    DEF WriteUnit, Advance, UninstallNumbers, ManagerMatches
  <2>8. ManagerMatches'
    BY <1>0, <1>1, <2>1, <2>2, <2>4
    DEF WriteUnit, Advance, ManagerMatches, InPlan, InstallNumbers,
        UninstallNumbers
  <2>9. EndsMatch'
    BY <1>0, <1>1, <2>1, <2>2, <2>4
    DEF WriteUnit, Advance, EndsMatch, InstallNumbers
  <2>10. InstalledServes'
    BY <1>0, <1>1, <2>1, <2>2, <2>4
    DEF WriteUnit, Advance, InstalledServes, EndsMatch,
        InstallNumbers, ManagerMatches
  <2>11. RemovedIsGone'
    BY <1>0, <1>1, <2>1, <2>2, <2>4
    DEF WriteUnit, Advance, RemovedIsGone, EndsMatch, UninstallNumbers,
        ManagerMatches
  <2>12. DirIsRemoved'
    BY <1>0, <1>1, <2>1, <2>2, <2>4, ServicesAssumption
    DEF WriteUnit, Advance, DirIsRemoved, EndsMatch, RemovedIsGone,
        UninstallNumbers
  <2>13. QED
    BY <2>4, <2>5, <2>6, <2>7, <2>8, <2>9, <2>10, <2>11, <2>12 DEF NInv
<1>2. CASE WriteService(s)
  <2>1. op[s] = "install" /\ host = "linux" /\ pc[s] = 2
    BY <1>0, <1>2, AtNumber DEF WriteService, At
  <2>2. Proceed(s) => Advance(s)
    BY <1>0, <2>1, ProceedNumber DEF Advance, Finish
  <2>3. Moves(s)
    BY <1>0, <1>2, <2>1, <2>2, FaultsAssumption DEF WriteService, Moves, Finish
  <2>4. ControlType' /\ InPlan'
    BY <1>0, <2>1, <2>3, MovesType
  <2>5. TypeOK'
    BY <1>0, <1>2, <2>4 DEF WriteService, ControlType
  <2>6. InstallNumbers'
    BY <1>0, <1>2, <2>1, <2>2, <2>4
    DEF WriteService, Advance, InstallNumbers
  <2>7. UninstallNumbers'
    BY <1>0, <1>2, <2>1, <2>2, <2>4
    DEF WriteService, Advance, UninstallNumbers, ManagerMatches
  <2>8. ManagerMatches'
    BY <1>0, <1>2, <2>1, <2>2, <2>4
    DEF WriteService, Advance, ManagerMatches, InPlan, InstallNumbers,
        UninstallNumbers
  <2>9. EndsMatch'
    BY <1>0, <1>2, <2>1, <2>2, <2>4
    DEF WriteService, Advance, EndsMatch, InstallNumbers
  <2>10. InstalledServes'
    BY <1>0, <1>2, <2>1, <2>2, <2>4
    DEF WriteService, Advance, InstalledServes, EndsMatch,
        InstallNumbers, ManagerMatches
  <2>11. RemovedIsGone'
    BY <1>0, <1>2, <2>1, <2>2, <2>4
    DEF WriteService, Advance, RemovedIsGone, EndsMatch,
        UninstallNumbers, ManagerMatches
  <2>12. DirIsRemoved'
    BY <1>0, <1>2, <2>1, <2>2, <2>4, ServicesAssumption
    DEF WriteService, Advance, DirIsRemoved, EndsMatch,
        RemovedIsGone, UninstallNumbers
  <2>13. QED
    BY <2>4, <2>5, <2>6, <2>7, <2>8, <2>9, <2>10, <2>11, <2>12 DEF NInv
<1>3. CASE PrivateDir(s)
  <2>1. op[s] = "install" /\ host = "macos" /\ pc[s] = 1
    BY <1>0, <1>3, AtNumber DEF PrivateDir, At
  <2>2. Proceed(s) => Advance(s)
    BY <1>0, <2>1, ProceedNumber DEF Advance, Finish
  <2>3. Moves(s)
    BY <1>0, <1>3, <2>1, <2>2, FaultsAssumption DEF PrivateDir, Moves, Finish
  <2>4. ControlType' /\ InPlan'
    BY <1>0, <2>1, <2>3, MovesType
  <2>5. TypeOK'
    BY <1>0, <1>3, <2>4 DEF PrivateDir, ControlType
  <2>6. InstallNumbers'
    BY <1>0, <1>3, <2>1, <2>2, <2>4
    DEF PrivateDir, Advance, InstallNumbers
  <2>7. UninstallNumbers'
    BY <1>0, <1>3, <2>1, <2>2, <2>4
    DEF PrivateDir, Advance, UninstallNumbers, ManagerMatches
  <2>8. ManagerMatches'
    BY <1>0, <1>3, <2>1, <2>2, <2>4
    DEF PrivateDir, Advance, ManagerMatches, InPlan, InstallNumbers,
        UninstallNumbers
  <2>9. EndsMatch'
    BY <1>0, <1>3, <2>1, <2>2, <2>4
    DEF PrivateDir, Advance, EndsMatch, InstallNumbers
  <2>10. InstalledServes'
    BY <1>0, <1>3, <2>1, <2>2, <2>4
    DEF PrivateDir, Advance, InstalledServes, EndsMatch,
        InstallNumbers, ManagerMatches
  <2>11. RemovedIsGone'
    BY <1>0, <1>3, <2>1, <2>2, <2>4
    DEF PrivateDir, Advance, RemovedIsGone, EndsMatch, UninstallNumbers,
        ManagerMatches
  <2>12. DirIsRemoved'
    BY <1>0, <1>3, <2>1, <2>2, <2>4, ServicesAssumption
    DEF PrivateDir, Advance, DirIsRemoved, EndsMatch, RemovedIsGone,
        UninstallNumbers
  <2>13. QED
    BY <2>4, <2>5, <2>6, <2>7, <2>8, <2>9, <2>10, <2>11, <2>12 DEF NInv
<1>4. CASE RemoveUnit(s)
  <2>1. op[s] = "uninstall" /\ pc[s] = IF host = "linux" THEN 2 ELSE 3
    BY <1>0, <1>4, AtNumber DEF RemoveUnit, At
  <2>2. Proceed(s) => Advance(s)
    BY <1>0, <2>1, ProceedNumber DEF Advance, Finish
  <2>3. Moves(s)
    BY <1>0, <1>4, <2>1, <2>2, FaultsAssumption DEF RemoveUnit, Moves, Finish
  <2>4. ControlType' /\ InPlan'
    BY <1>0, <2>1, <2>3, MovesType
  <2>5. TypeOK'
    BY <1>0, <1>4, <2>4 DEF RemoveUnit, ControlType
  <2>6. InstallNumbers'
    BY <1>0, <1>4, <2>1, <2>2, <2>4
    DEF RemoveUnit, Advance, InstallNumbers
  <2>7. UninstallNumbers'
    BY <1>0, <1>4, <2>1, <2>2, <2>4
    DEF RemoveUnit, Advance, UninstallNumbers, ManagerMatches
  <2>8. ManagerMatches'
    BY <1>0, <1>4, <2>1, <2>2, <2>4
    DEF RemoveUnit, Advance, ManagerMatches, InPlan, InstallNumbers,
        UninstallNumbers
  <2>9. EndsMatch'
    BY <1>0, <1>4, <2>1, <2>2, <2>4
    DEF RemoveUnit, Advance, EndsMatch, InstallNumbers
  <2>10. InstalledServes'
    BY <1>0, <1>4, <2>1, <2>2, <2>4
    DEF RemoveUnit, Advance, InstalledServes, EndsMatch,
        InstallNumbers, ManagerMatches
  <2>11. RemovedIsGone'
    BY <1>0, <1>4, <2>1, <2>2, <2>4
    DEF RemoveUnit, Advance, RemovedIsGone, EndsMatch, UninstallNumbers,
        ManagerMatches
  <2>12. DirIsRemoved'
    BY <1>0, <1>4, <2>1, <2>2, <2>4, ServicesAssumption
    DEF RemoveUnit, Advance, DirIsRemoved, EndsMatch, RemovedIsGone,
        UninstallNumbers
  <2>13. QED
    BY <2>4, <2>5, <2>6, <2>7, <2>8, <2>9, <2>10, <2>11, <2>12 DEF NInv
<1>5. CASE RemoveService(s)
  <2>1. op[s] = "uninstall" /\ host = "linux" /\ pc[s] = 3
    BY <1>0, <1>5, AtNumber DEF RemoveService, At
  <2>2. Proceed(s) => Advance(s)
    BY <1>0, <2>1, ProceedNumber DEF Advance, Finish
  <2>3. Moves(s)
    BY <1>0, <1>5, <2>1, <2>2, FaultsAssumption
    DEF RemoveService, Moves, Finish
  <2>4. ControlType' /\ InPlan'
    BY <1>0, <2>1, <2>3, MovesType
  <2>5. TypeOK'
    BY <1>0, <1>5, <2>4 DEF RemoveService, ControlType
  <2>6. InstallNumbers'
    BY <1>0, <1>5, <2>1, <2>2, <2>4
    DEF RemoveService, Advance, InstallNumbers
  <2>7. UninstallNumbers'
    BY <1>0, <1>5, <2>1, <2>2, <2>4
    DEF RemoveService, Advance, UninstallNumbers, ManagerMatches
  <2>8. ManagerMatches'
    BY <1>0, <1>5, <2>1, <2>2, <2>4
    DEF RemoveService, Advance, ManagerMatches, InPlan,
        InstallNumbers, UninstallNumbers
  <2>9. EndsMatch'
    BY <1>0, <1>5, <2>1, <2>2, <2>4
    DEF RemoveService, Advance, EndsMatch, InstallNumbers
  <2>10. InstalledServes'
    BY <1>0, <1>5, <2>1, <2>2, <2>4
    DEF RemoveService, Advance, InstalledServes, EndsMatch,
        InstallNumbers, ManagerMatches
  <2>11. RemovedIsGone'
    BY <1>0, <1>5, <2>1, <2>2, <2>4
    DEF RemoveService, Advance, RemovedIsGone, EndsMatch,
        UninstallNumbers, ManagerMatches
  <2>12. DirIsRemoved'
    BY <1>0, <1>5, <2>1, <2>2, <2>4, ServicesAssumption
    DEF RemoveService, Advance, DirIsRemoved, EndsMatch,
        RemovedIsGone, UninstallNumbers
  <2>13. QED
    BY <2>4, <2>5, <2>6, <2>7, <2>8, <2>9, <2>10, <2>11, <2>12 DEF NInv
<1>6. CASE RemoveSocket(s)
  <2>1. op[s] = "uninstall" /\ pc[s] = 4
    BY <1>0, <1>6, AtNumber DEF RemoveSocket, At
  <2>2. Proceed(s) => Advance(s)
    BY <1>0, <2>1, ProceedNumber DEF Advance, Finish
  <2>3. Moves(s)
    BY <1>0, <1>6, <2>1, <2>2, FaultsAssumption DEF RemoveSocket, Moves, Finish
  <2>4. ControlType' /\ InPlan'
    BY <1>0, <2>1, <2>3, MovesType
  <2>5. TypeOK'
    BY <1>0, <1>6, <2>4 DEF RemoveSocket, ControlType, RemovedSocket
  <2>6. InstallNumbers'
    BY <1>0, <1>6, <2>1, <2>2, <2>4
    DEF RemoveSocket, Advance, RemovedSocket, InstallNumbers
  <2>7. UninstallNumbers'
    BY <1>0, <1>6, <2>1, <2>2, <2>4
    DEF RemoveSocket, Advance, RemovedSocket, UninstallNumbers,
        ManagerMatches
  <2>8. ManagerMatches'
    BY <1>0, <1>6, <2>1, <2>2, <2>4
    DEF RemoveSocket, Advance, RemovedSocket, ManagerMatches,
        InPlan, InstallNumbers, UninstallNumbers
  <2>9. EndsMatch'
    BY <1>0, <1>6, <2>1, <2>2, <2>4
    DEF RemoveSocket, Advance, RemovedSocket, EndsMatch,
        InstallNumbers
  <2>10. InstalledServes'
    BY <1>0, <1>6, <2>1, <2>2, <2>4
    DEF RemoveSocket, Advance, RemovedSocket, InstalledServes,
        EndsMatch, InstallNumbers, ManagerMatches
  <2>11. RemovedIsGone'
    BY <1>0, <1>6, <2>1, <2>2, <2>4
    DEF RemoveSocket, Advance, RemovedSocket, RemovedIsGone,
        EndsMatch, UninstallNumbers, ManagerMatches
  <2>12. DirIsRemoved'
    BY <1>0, <1>6, <2>1, <2>2, <2>4, ServicesAssumption
    DEF RemoveSocket, Advance, RemovedSocket, DirIsRemoved,
        EndsMatch, RemovedIsGone, UninstallNumbers
  <2>13. QED
    BY <2>4, <2>5, <2>6, <2>7, <2>8, <2>9, <2>10, <2>11, <2>12 DEF NInv
<1>7. CASE RemoveDir(s)
  <2>1. op[s] = "uninstall" /\ pc[s] = IF host = "linux" THEN 6 ELSE 5
    BY <1>0, <1>7, AtNumber DEF RemoveDir, At
  <2>2. Proceed(s) => Return(s, "removed")
    BY <1>0, <2>1, ProceedNumber DEF Advance, Finish
  <2>3. Moves(s)
    BY <1>0, <1>7, <2>1, <2>2, FaultsAssumption DEF RemoveDir, Moves, Finish
  <2>4. ControlType' /\ InPlan'
    BY <1>0, <2>1, <2>3, MovesType
  <2>5. TypeOK'
    BY <1>0, <1>7, <2>4 DEF RemoveDir, ControlType
  <2>6. InstallNumbers'
    BY <1>0, <1>7, <2>1, <2>2, <2>4
    DEF RemoveDir, InstallNumbers
  <2>7. UninstallNumbers'
    BY <1>0, <1>7, <2>1, <2>2, <2>4
    DEF RemoveDir, UninstallNumbers, ManagerMatches
  <2>8. ManagerMatches'
    BY <1>0, <1>7, <2>1, <2>2, <2>4
    DEF RemoveDir, ManagerMatches, InPlan, InstallNumbers, UninstallNumbers
  <2>9. EndsMatch'
    BY <1>0, <1>7, <2>1, <2>2, <2>4
    DEF RemoveDir, EndsMatch, InstallNumbers
  <2>10. InstalledServes'
    BY <1>0, <1>7, <2>1, <2>2, <2>4
    DEF RemoveDir, InstalledServes, EndsMatch, InstallNumbers, ManagerMatches
  <2>11. RemovedIsGone'
    BY <1>0, <1>7, <2>1, <2>2, <2>4
    DEF RemoveDir, RemovedIsGone, EndsMatch, UninstallNumbers, ManagerMatches
  <2>12. DirIsRemoved'
    <3>1. SUFFICES ASSUME \A t \in Services : last'[t] = "removed"
                   PROVE  ~dir'
      BY DEF DirIsRemoved
    <3>2. \A t \in Services : t # s => last[t] = "removed"
      BY <1>0, <1>7, <2>2, <3>1 DEF RemoveDir
    <3>3. \A t \in Services : sock[t] = "none"
      <4>1. sock[s] = "none"
        BY <1>0, <2>1 DEF UninstallNumbers
      <4>2. QED
        BY <1>0, <3>2, <4>1 DEF RemovedIsGone
    <3>4. QED
      BY <1>7, <3>3 DEF RemoveDir
  <2>13. QED
    BY <2>4, <2>5, <2>6, <2>7, <2>8, <2>9, <2>10, <2>11, <2>12 DEF NInv
<1>8. CASE DaemonReload(s)
  <2>1. /\ op[s] # "idle" /\ host = "linux"
        /\ pc[s] = IF op[s] = "install" THEN 3 ELSE 5
    BY <1>0, <1>8, AtNumber DEF DaemonReload, At
  <2>2. Proceed(s) => Advance(s)
    BY <1>0, <2>1, ProceedNumber DEF Advance, Finish
  <2>3. Moves(s)
    BY <1>0, <1>8, <2>1, <2>2, FaultsAssumption DEF DaemonReload, Moves, Finish
  <2>4. ControlType' /\ InPlan'
    BY <1>0, <2>1, <2>3, MovesType
  <2>5. TypeOK'
    BY <1>0, <1>8, <2>4 DEF DaemonReload, ControlType
  <2>6. InstallNumbers'
    BY <1>0, <1>8, <2>1, <2>2, <2>4
    DEF DaemonReload, Advance, InstallNumbers
  <2>7. UninstallNumbers'
    BY <1>0, <1>8, <2>1, <2>2, <2>4
    DEF DaemonReload, Advance, UninstallNumbers, ManagerMatches
  <2>8. ManagerMatches'
    BY <1>0, <1>8, <2>1, <2>2, <2>4
    DEF DaemonReload, Advance, ManagerMatches, InPlan, InstallNumbers,
        UninstallNumbers
  <2>9. EndsMatch'
    BY <1>0, <1>8, <2>1, <2>2, <2>4
    DEF DaemonReload, Advance, EndsMatch, InstallNumbers
  <2>10. InstalledServes'
    BY <1>0, <1>8, <2>1, <2>2, <2>4
    DEF DaemonReload, Advance, InstalledServes, EndsMatch,
        InstallNumbers, ManagerMatches
  <2>11. RemovedIsGone'
    BY <1>0, <1>8, <2>1, <2>2, <2>4
    DEF DaemonReload, Advance, RemovedIsGone, EndsMatch,
        UninstallNumbers, ManagerMatches
  <2>12. DirIsRemoved'
    BY <1>0, <1>8, <2>1, <2>2, <2>4, ServicesAssumption
    DEF DaemonReload, Advance, DirIsRemoved, EndsMatch,
        RemovedIsGone, UninstallNumbers
  <2>13. QED
    BY <2>4, <2>5, <2>6, <2>7, <2>8, <2>9, <2>10, <2>11, <2>12 DEF NInv
<1>9. CASE Enable(s)
  <2>1. op[s] = "install" /\ host = "linux" /\ pc[s] = 4
    BY <1>0, <1>9, AtNumber DEF Enable, At
  <2>2. Proceed(s) => Return(s, "installed")
    BY <1>0, <2>1, ProceedNumber DEF Advance, Finish
  <2>3. Moves(s)
    BY <1>0, <1>9, <2>1, <2>2, FaultsAssumption DEF Enable, Moves, Finish
  <2>4. ControlType' /\ InPlan'
    BY <1>0, <2>1, <2>3, MovesType
  <2>5. TypeOK'
    <3>1. enabled' \in [Services -> BOOLEAN]
      BY <1>0, <1>9 DEF Enable
    <3>2. job' \in [Services -> {"out", "active", "leaving"}]
      BY <1>0, <1>9 DEF Enable
    <3>3. sock' \in [Services -> {"none", "dead", "root", "live"}]
      BY <1>0, <1>9 DEF Enable
    <3>4. dir' \in BOOLEAN
      BY <1>0, <1>9 DEF Enable
    <3>5. stray' \in [Services -> BOOLEAN]
      <4>1. stray' = stray \/ stray' = [stray EXCEPT ![s] = FALSE]
        BY <1>9, Zenon DEF Enable
      <4>2. stray \in [Services -> BOOLEAN]
        BY <1>0
      <4> HIDE DEF TypeOK
      <4>3. QED
        BY <4>1, <4>2
    <3>6. QED
      BY <1>0, <1>9, <2>4, <3>1, <3>2, <3>3, <3>4, <3>5 DEF Enable, ControlType
  <2>6. InstallNumbers'
    BY <1>0, <1>9, <2>1, <2>2, <2>4
    DEF Enable, InstallNumbers
  <2>7. UninstallNumbers'
    BY <1>0, <1>9, <2>1, <2>2, <2>4
    DEF Enable, UninstallNumbers, ManagerMatches
  <2>8. ManagerMatches'
    BY <1>0, <1>9, <2>1, <2>2, <2>4
    DEF Enable, ManagerMatches, InPlan, InstallNumbers, UninstallNumbers
  <2>9. EndsMatch'
    BY <1>0, <1>9, <2>1, <2>2, <2>4
    DEF Enable, EndsMatch, InstallNumbers
  <2>10. InstalledServes'
    BY <1>0, <1>9, <2>1, <2>2, <2>4
    DEF Enable, InstalledServes, EndsMatch, InstallNumbers, ManagerMatches
  <2>11. RemovedIsGone'
    BY <1>0, <1>9, <2>1, <2>2, <2>4
    DEF Enable, RemovedIsGone, EndsMatch, UninstallNumbers, ManagerMatches
  <2>12. DirIsRemoved'
    BY <1>0, <1>9, <2>1, <2>2, <2>4, ServicesAssumption
    DEF Enable, DirIsRemoved, EndsMatch, RemovedIsGone, UninstallNumbers
  <2>13. QED
    BY <2>4, <2>5, <2>6, <2>7, <2>8, <2>9, <2>10, <2>11, <2>12 DEF NInv
<1>10. CASE Disable(s)
  <2>1. op[s] = "uninstall" /\ host = "linux" /\ pc[s] = 1
    BY <1>0, <1>10, AtNumber DEF Disable, At
  <2>2. Proceed(s) => Advance(s)
    BY <1>0, <2>1, ProceedNumber DEF Advance, Finish
  <2>3. Moves(s)
    BY <1>0, <1>10, <2>1, <2>2, FaultsAssumption DEF Disable, Moves, Finish
  <2>4. ControlType' /\ InPlan'
    BY <1>0, <2>1, <2>3, MovesType
  <2>5. TypeOK'
    <3>1. enabled' \in [Services -> BOOLEAN]
      BY ZenonT(30), <1>0, <1>10 DEF Disable, Exists
    <3>2. job' \in [Services -> {"out", "active", "leaving"}]
      BY <1>0, <1>10 DEF Disable, Exists
    <3>3. sock' \in [Services -> {"none", "dead", "root", "live"}]
      BY <1>0, <1>10 DEF Disable, Exists
    <3>4. stray' \in [Services -> BOOLEAN]
      BY ZenonT(30), <1>0, <1>10 DEF Disable, Exists
    <3>5. QED
      BY <1>0, <1>10, <2>4, <3>1, <3>2, <3>3, <3>4 DEF Disable, ControlType
  <2>6. InstallNumbers'
    BY <1>0, <1>10, <2>1, <2>2, <2>4
    DEF Disable, Advance, Exists, InstallNumbers
  <2>7. UninstallNumbers'
    BY <1>0, <1>10, <2>1, <2>2, <2>4
    DEF Disable, Advance, Exists, UninstallNumbers, ManagerMatches
  <2>8. ManagerMatches'
    BY <1>0, <1>10, <2>1, <2>2, <2>4
    DEF Disable, Advance, Exists, ManagerMatches, InPlan,
        InstallNumbers, UninstallNumbers
  <2>9. EndsMatch'
    BY <1>0, <1>10, <2>1, <2>2, <2>4
    DEF Disable, Advance, Exists, EndsMatch, InstallNumbers
  <2>10. InstalledServes'
    BY <1>0, <1>10, <2>1, <2>2, <2>4
    DEF Disable, Advance, Exists, InstalledServes, EndsMatch,
        InstallNumbers, ManagerMatches
  <2>11. RemovedIsGone'
    BY <1>0, <1>10, <2>1, <2>2, <2>4
    DEF Disable, Advance, Exists, RemovedIsGone, EndsMatch,
        UninstallNumbers, ManagerMatches
  <2>12. DirIsRemoved'
    BY <1>0, <1>10, <2>1, <2>2, <2>4, ServicesAssumption
    DEF Disable, Advance, Exists, DirIsRemoved, EndsMatch,
        RemovedIsGone, UninstallNumbers
  <2>13. QED
    BY <2>4, <2>5, <2>6, <2>7, <2>8, <2>9, <2>10, <2>11, <2>12 DEF NInv
<1>11. CASE Bootout(s)
  <2>1. /\ op[s] # "idle" /\ host = "macos"
        /\ pc[s] = IF op[s] = "install" THEN 3 ELSE 1
    BY <1>0, <1>11, AtNumber DEF Bootout, At
  <2>2. Proceed(s) => Advance(s)
    BY <1>0, <2>1, ProceedNumber DEF Advance, Finish
  <2>3. Moves(s)
    <3>1. pc[s] + 2 <= Len(Plan[host][op[s]])
      BY <1>0, <2>1, MacosInstall, MacosUninstall
    <3>2. QED
      BY <1>0, <1>11, <2>1, <2>2, <3>1, FaultsAssumption
      DEF Bootout, QueryFails, Moves, Skip
  <2>4. ControlType' /\ InPlan'
    BY <1>0, <2>1, <2>3, MovesType
  <2>5. TypeOK'
    BY ZenonT(30), <1>0, <1>11, <2>4 DEF Bootout, ControlType
  <2> DEFINE Kept ==
        /\ \A t \in Services \ {s} :
             /\ op'[t] = op[t] /\ pc'[t] = pc[t]
             /\ job'[t] = job[t] /\ stray'[t] = stray[t]
        /\ UNCHANGED <<host, program, enabled, unit, service, sock, loaded>>
  <2>kept. Kept
    BY <1>0, <1>11, <2>1, <2>2 DEF Bootout, Advance
  <2>moved.
        /\ op'[s] = "install" =>
             /\ op[s] = "install"
             /\ pc'[s] = 4 \/ (pc'[s] = 5 /\ (job'[s] = "out" \/ stray'[s]))
        /\ op'[s] = "uninstall" =>
             /\ op[s] = "uninstall"
             /\ pc'[s] = 2 \/ (pc'[s] = 3 /\ (job'[s] = "out" \/ stray'[s]))
    <3>1. CASE job[s] = "out" /\ pc' = [pc EXCEPT ![s] = @ + 2]
      BY <1>0, <1>11, <2>1, <3>1 DEF Bootout
    <3>2. CASE QueryFails(s) /\ job[s] # "out" /\ UNCHANGED op
               /\ pc' = [pc EXCEPT ![s] = @ + 2]
      <4>1. stray'[s]
        BY <1>0, <3>2
      <4>2. QED
        BY <1>0, <2>1, <3>2, <4>1
    <3>3. CASE Advance(s)
      BY <1>0, <2>1, <3>3 DEF Advance
    <3>4. CASE Return(s, "failed")
      BY <1>0, <3>4
    <3>5. QED
      BY <1>11, <2>2, <3>1, <3>2, <3>3, <3>4 DEF Bootout
  <2>6. InstallNumbers'
    <3>1. InstallNumber(s)'
      <4>1. op[s] = "install" => unit[s] = program[s]
        BY <1>0, <2>1 DEF InstallNumbers
      <4>2. host' = "macos" /\ UNCHANGED <<unit, program>>
        BY <2>1, <2>kept
      <4>3. QED
        BY <2>moved, <4>1, <4>2
    <3>2. ASSUME NEW t \in Services \ {s} PROVE InstallNumber(t)'
      BY <1>0, <2>1, <2>kept, <3>2 DEF InstallNumbers
    <3>3. QED
      BY <3>1, <3>2 DEF InstallNumbers
  <2>7. UninstallNumbers'
    <3>1. UninstallNumber(s)'
      <4>1. host' = "macos" /\ ~enabled'[s]
        BY <1>0, <2>1, <2>kept DEF ManagerMatches
      <4>2. QED
        BY <2>moved, <4>1
    <3>2. ASSUME NEW t \in Services \ {s} PROVE UninstallNumber(t)'
      BY <1>0, <2>1, <2>kept, <3>2 DEF UninstallNumbers
    <3>3. QED
      BY <3>1, <3>2 DEF UninstallNumbers
  <2>8. ManagerMatches'
    BY <1>0, <1>11, <2>1, <2>2, <2>4
    DEF Bootout, Advance, ManagerMatches, InPlan, InstallNumbers,
        UninstallNumbers
  <2>9. EndsMatch'
    BY <1>0, <1>11, <2>1, <2>2, <2>4
    DEF Bootout, Advance, EndsMatch, InstallNumbers
  <2>10. InstalledServes'
    BY <1>0, <1>11, <2>1, <2>2, <2>4
    DEF Bootout, Advance, InstalledServes, EndsMatch, InstallNumbers,
        ManagerMatches
  <2>11. RemovedIsGone'
    BY <1>0, <1>11, <2>1, <2>2, <2>4
    DEF Bootout, Advance, RemovedIsGone, EndsMatch, UninstallNumbers,
        ManagerMatches
  <2>12. DirIsRemoved'
    BY <1>0, <1>11, <2>1, <2>2, <2>4, ServicesAssumption
    DEF Bootout, Advance, DirIsRemoved, EndsMatch, RemovedIsGone,
        UninstallNumbers
  <2>13. QED
    BY <2>4, <2>5, <2>6, <2>7, <2>8, <2>9, <2>10, <2>11, <2>12 DEF NInv
<1>12. CASE BootoutWait(s)
  <2>1. /\ op[s] # "idle" /\ host = "macos"
        /\ pc[s] = IF op[s] = "install" THEN 4 ELSE 2
    BY <1>0, <1>12, AtNumber DEF BootoutWait, At
  <2>2. Proceed(s) => Advance(s)
    BY <1>0, <2>1, ProceedNumber DEF Advance, Finish
  <2>3. Moves(s)
    BY <1>0, <1>12, <2>1, <2>2, FaultsAssumption DEF BootoutWait, Moves, Finish
  <2>4. ControlType' /\ InPlan'
    BY <1>0, <2>1, <2>3, MovesType
  <2>5. TypeOK'
    BY <1>0, <1>12, <2>4 DEF BootoutWait, ControlType, Gone
  <2> DEFINE Kept ==
        /\ \A t \in Services \ {s} :
             op'[t] = op[t] /\ pc'[t] = pc[t] /\ stray'[t] = stray[t]
        /\ UNCHANGED <<host, program, enabled, unit, service, sock, job, loaded>>
  <2>kept. Kept
    BY <1>0, <1>12, <2>1, <2>2 DEF BootoutWait, Advance
  <2>moved.
        /\ op'[s] = "install" =>
             /\ op[s] = "install" /\ pc'[s] = 5
             /\ job'[s] = "out" \/ stray'[s]
        /\ op'[s] = "uninstall" =>
             /\ op[s] = "uninstall" /\ pc'[s] = 3
             /\ job'[s] = "out" \/ stray'[s]
    <3>1. CASE job[s] = "out" /\ Advance(s) /\ UNCHANGED job
      BY <1>0, <2>1, <3>1 DEF Advance
    <3>2. CASE QueryFails(s) /\ job[s] # "out" /\ Advance(s)
      <4>1. stray'[s]
        BY <1>0, <3>2
      <4>2. QED
        BY <1>0, <2>1, <3>2, <4>1 DEF Advance
    <3>3. CASE Return(s, "failed")
      BY <1>0, <3>3
    <3>4. QED
      BY <1>12, <2>2, <3>1, <3>2, <3>3 DEF BootoutWait, Gone
  <2>6. InstallNumbers'
    <3>1. InstallNumber(s)'
      <4>1. op[s] = "install" => unit[s] = program[s]
        BY <1>0, <2>1 DEF InstallNumbers
      <4>2. host' = "macos" /\ UNCHANGED <<unit, program>>
        BY <2>1, <2>kept
      <4>3. QED
        BY <2>moved, <4>1, <4>2
    <3>2. ASSUME NEW t \in Services \ {s} PROVE InstallNumber(t)'
      BY <1>0, <2>1, <2>kept, <3>2 DEF InstallNumbers
    <3>3. QED
      BY <3>1, <3>2 DEF InstallNumbers
  <2>7. UninstallNumbers'
    <3>1. UninstallNumber(s)'
      <4>1. host' = "macos" /\ ~enabled'[s]
        BY <1>0, <2>1, <2>kept DEF ManagerMatches
      <4>2. QED
        BY <2>moved, <4>1
    <3>2. ASSUME NEW t \in Services \ {s} PROVE UninstallNumber(t)'
      BY <1>0, <2>1, <2>kept, <3>2 DEF UninstallNumbers
    <3>3. QED
      BY <3>1, <3>2 DEF UninstallNumbers
  <2>8. ManagerMatches'
    BY <1>0, <1>12, <2>1, <2>2, <2>4
    DEF BootoutWait, Advance, Gone, ManagerMatches, InPlan,
        InstallNumbers, UninstallNumbers
  <2>9. EndsMatch'
    BY <1>0, <1>12, <2>1, <2>2, <2>4
    DEF BootoutWait, Advance, Gone, EndsMatch,
        InstallNumbers
  <2>10. InstalledServes'
    BY <1>0, <1>12, <2>1, <2>2, <2>4
    DEF BootoutWait, Advance, Gone, InstalledServes, EndsMatch,
        InstallNumbers, ManagerMatches
  <2>11. RemovedIsGone'
    BY <1>0, <1>12, <2>1, <2>2, <2>4
    DEF BootoutWait, Advance, Gone, RemovedIsGone, EndsMatch,
        UninstallNumbers, ManagerMatches
  <2>12. DirIsRemoved'
    BY <1>0, <1>12, <2>1, <2>2, <2>4, ServicesAssumption
    DEF BootoutWait, Advance, Gone, DirIsRemoved, EndsMatch,
        RemovedIsGone, UninstallNumbers
  <2>13. QED
    BY <2>4, <2>5, <2>6, <2>7, <2>8, <2>9, <2>10, <2>11, <2>12 DEF NInv
<1>13. CASE Bootstrap(s)
  <2>1. op[s] = "install" /\ host = "macos" /\ pc[s] = 5
    BY <1>0, <1>13, AtNumber DEF Bootstrap, At
  <2>2. Proceed(s) => Advance(s)
    BY <1>0, <2>1, ProceedNumber DEF Advance, Finish
  <2>3. Moves(s)
    BY <1>0, <1>13, <2>1, <2>2, FaultsAssumption DEF Bootstrap, Moves, Finish
  <2>4. ControlType' /\ InPlan'
    BY <1>0, <2>1, <2>3, MovesType
  <2>5. TypeOK'
    <3>1. job' \in [Services -> {"out", "active", "leaving"}]
      BY <1>0, <1>13 DEF Bootstrap
    <3>2. loaded' \in [Services -> Contents]
      BY <1>0, <1>13 DEF Bootstrap
    <3>3. sock' \in [Services -> {"none", "dead", "root", "live"}]
      BY <1>0, <1>13 DEF Bootstrap
    <3>4. QED
      BY <1>0, <1>13, <2>4, <3>1, <3>2, <3>3 DEF Bootstrap, ControlType
  <2>6. InstallNumbers'
    BY <1>0, <1>13, <2>1, <2>2, <2>4
    DEF Bootstrap, Advance, InstallNumbers, ManagerMatches
  <2>7. UninstallNumbers'
    BY <1>0, <1>13, <2>1, <2>2, <2>4
    DEF Bootstrap, Advance, UninstallNumbers, ManagerMatches
  <2>8. ManagerMatches'
    BY <1>0, <1>13, <2>1, <2>2, <2>4
    DEF Bootstrap, Advance, ManagerMatches, InPlan, InstallNumbers,
        UninstallNumbers
  <2>9. EndsMatch'
    BY <1>0, <1>13, <2>1, <2>2, <2>4
    DEF Bootstrap, Advance, EndsMatch, InstallNumbers
  <2>10. InstalledServes'
    BY <1>0, <1>13, <2>1, <2>2, <2>4
    DEF Bootstrap, Advance, InstalledServes, EndsMatch,
        InstallNumbers, ManagerMatches
  <2>11. RemovedIsGone'
    BY <1>0, <1>13, <2>1, <2>2, <2>4
    DEF Bootstrap, Advance, RemovedIsGone, EndsMatch, UninstallNumbers,
        ManagerMatches
  <2>12. DirIsRemoved'
    BY <1>0, <1>13, <2>1, <2>2, <2>4, ServicesAssumption
    DEF Bootstrap, Advance, DirIsRemoved, EndsMatch, RemovedIsGone,
        UninstallNumbers
  <2>13. QED
    BY <2>4, <2>5, <2>6, <2>7, <2>8, <2>9, <2>10, <2>11, <2>12 DEF NInv
<1>14. CASE AwaitSocket(s)
  <2>1. op[s] = "install" /\ host = "macos" /\ pc[s] = 6
    BY <1>0, <1>14, AtNumber DEF AwaitSocket, At
  <2>2. Proceed(s) => Return(s, "installed")
    BY <1>0, <2>1, ProceedNumber DEF Advance, Finish
  <2>3. Moves(s)
    BY <1>0, <1>14, <2>1, <2>2, FaultsAssumption DEF AwaitSocket, Moves, Finish
  <2>4. ControlType' /\ InPlan'
    BY <1>0, <2>1, <2>3, MovesType
  <2>5. TypeOK'
    BY <1>0, <1>14, <2>4 DEF AwaitSocket, ControlType, SocketReady
  <2>6. InstallNumbers'
    BY <1>0, <1>14, <2>1, <2>2, <2>4
    DEF AwaitSocket, SocketReady, InstallNumbers
  <2>7. UninstallNumbers'
    BY <1>0, <1>14, <2>1, <2>2, <2>4
    DEF AwaitSocket, SocketReady, UninstallNumbers, ManagerMatches
  <2>8. ManagerMatches'
    BY <1>0, <1>14, <2>1, <2>2, <2>4
    DEF AwaitSocket, SocketReady, ManagerMatches, InPlan,
        InstallNumbers, UninstallNumbers
  <2>9. EndsMatch'
    BY <1>0, <1>14, <2>1, <2>2, <2>4
    DEF AwaitSocket, SocketReady, EndsMatch, InstallNumbers
  <2>10. InstalledServes'
    BY <1>0, <1>14, <2>1, <2>2, <2>4
    DEF AwaitSocket, SocketReady, InstalledServes, EndsMatch,
        InstallNumbers, ManagerMatches
  <2>11. RemovedIsGone'
    BY <1>0, <1>14, <2>1, <2>2, <2>4
    DEF AwaitSocket, SocketReady, RemovedIsGone, EndsMatch,
        UninstallNumbers, ManagerMatches
  <2>12. DirIsRemoved'
    BY <1>0, <1>14, <2>1, <2>2, <2>4, ServicesAssumption
    DEF AwaitSocket, SocketReady, DirIsRemoved, EndsMatch,
        RemovedIsGone, UninstallNumbers
  <2>13. QED
    BY <2>4, <2>5, <2>6, <2>7, <2>8, <2>9, <2>10, <2>11, <2>12 DEF NInv
<1>15. ASSUME NEW steps, FailClean(s, steps)
       PROVE  NInv'
  <2>1. op[s] # "idle"
    BY <1>15 DEF FailClean, At
  <2>2. Moves(s)
    BY <1>0, <1>15, FaultsAssumption DEF FailClean, Moves
  <2>3. ControlType' /\ InPlan'
    BY <1>0, <2>1, <2>2, MovesType
  <2>4. TypeOK'
    BY <1>0, <1>15, <2>3 DEF FailClean, ControlType
  <2>5. InstallNumbers' /\ UninstallNumbers'
    BY <1>0, <1>15 DEF FailClean, InstallNumbers, UninstallNumbers
  <2>6. ManagerMatches'
    BY <1>0, <1>15, <2>3 DEF FailClean, ManagerMatches, InPlan
  <2>7. EndsMatch'
    BY <1>0, <1>15 DEF FailClean, EndsMatch
  <2>8. InstalledServes' /\ RemovedIsGone' /\ DirIsRemoved'
    BY <1>0, <1>15 DEF FailClean, InstalledServes, RemovedIsGone, DirIsRemoved
  <2>9. QED
    BY <2>3, <2>4, <2>5, <2>6, <2>7, <2>8 DEF NInv
<1>16. QED
  BY <1>1, <1>2, <1>3, <1>4, <1>5, <1>6, <1>7, <1>8, <1>9, <1>10, <1>11,
     <1>12, <1>13, <1>14, <1>15
  DEF Step

(* An operation starts from whatever the last one left; launchd hands over *)
(* a socket and is done with a job at its own time.                        *)
LEMMA OthersInv ==
  ASSUME NInv, NEW s \in Services, Start(s) \/ Chown(s) \/ Unload(s)
  PROVE  NInv'
<1> USE ProgramsAssumption
    DEF TypeOK, Contents, files, manager, control, InstallNumber,
        UninstallNumber
<1>0. /\ TypeOK /\ InPlan /\ InstallNumbers /\ UninstallNumbers
      /\ ManagerMatches /\ EndsMatch /\ InstalledServes /\ RemovedIsGone
      /\ DirIsRemoved
  BY DEF NInv
<1>1. CASE Start(s)
  <2>1. TypeOK'
    <3>1. /\ op' \in [Services -> {"idle", "install", "uninstall"}]
          /\ pc' \in [Services -> 1..6] /\ program' \in [Services -> Programs]
          /\ last' \in [Services -> Ends]
      BY <1>0, <1>1 DEF Start, Ends
    <3>2. QED
      BY <1>0, <1>1, <3>1 DEF Start
  <2>2. InPlan'
    <3>1. /\ 1 <= Len(Plan[host]["install"])
          /\ 1 <= Len(Plan[host]["uninstall"])
      BY <1>0, LinuxInstall, LinuxUninstall, MacosInstall, MacosUninstall
    <3>2. QED
      BY <1>0, <1>1, <3>1 DEF Start, InPlan
  <2>3. InstallNumbers'
    BY <1>0, <1>1 DEF Start, InstallNumbers
  <2>4. UninstallNumbers'
    BY <1>0, <1>1 DEF Start, UninstallNumbers
  <2>5. ManagerMatches'
    BY <1>0, <1>1, <2>2 DEF Start, ManagerMatches, InPlan
  <2>6. EndsMatch'
    BY <1>0, <1>1 DEF Start, EndsMatch
  <2>7. InstalledServes' /\ RemovedIsGone' /\ DirIsRemoved'
    BY <1>0, <1>1 DEF Start, InstalledServes, RemovedIsGone, DirIsRemoved
  <2>8. QED
    BY <2>1, <2>2, <2>3, <2>4, <2>5, <2>6, <2>7 DEF NInv
<1>2. CASE Chown(s)
  <2>1. TypeOK' /\ InPlan'
    BY <1>0, <1>2 DEF Chown, InPlan
  <2>2. InstallNumbers' /\ UninstallNumbers'
    BY <1>0, <1>2 DEF Chown, InstallNumbers, UninstallNumbers, ManagerMatches
  <2>3. ManagerMatches'
    BY <1>0, <1>2 DEF Chown, ManagerMatches
  <2>4. EndsMatch'
    BY <1>0, <1>2 DEF Chown, EndsMatch
  <2>5. InstalledServes' /\ RemovedIsGone' /\ DirIsRemoved'
    BY <1>0, <1>2 DEF Chown, InstalledServes, RemovedIsGone, DirIsRemoved
  <2>6. QED
    BY <2>1, <2>2, <2>3, <2>4, <2>5 DEF NInv
<1>3. CASE Unload(s)
  <2>1. TypeOK' /\ InPlan'
    BY <1>0, <1>3 DEF Unload, InPlan
  <2>2. InstallNumbers' /\ UninstallNumbers'
    BY <1>0, <1>3
    DEF Unload, InstallNumbers, UninstallNumbers, ManagerMatches
  <2>3. ManagerMatches'
    BY <1>0, <1>3 DEF Unload, ManagerMatches
  <2>4. EndsMatch'
    BY <1>0, <1>3 DEF Unload, EndsMatch
  <2>5. InstalledServes' /\ RemovedIsGone' /\ DirIsRemoved'
    BY <1>0, <1>3
    DEF Unload, InstalledServes, RemovedIsGone, DirIsRemoved, ManagerMatches
  <2>6. QED
    BY <2>1, <2>2, <2>3, <2>4, <2>5 DEF NInv
<1>4. QED
  BY <1>1, <1>2, <1>3

(* No operation has begun, and nothing is installed. *)
LEMMA InitInv == Init => NInv
<1> SUFFICES ASSUME Init PROVE NInv
  OBVIOUS
<1>1. TypeOK /\ InPlan
  <2>1. \A s \in Services : op[s] = "idle"
    BY DEF Init
  <2>2. /\ op \in [Services -> {"idle", "install", "uninstall"}]
        /\ pc \in [Services -> 1..6]
        /\ last \in [Services -> Ends]
    BY DEF Init, Ends
  <2>3. /\ unit \in [Services -> Contents]
        /\ service \in [Services -> Contents]
        /\ sock \in [Services -> {"none", "dead", "root", "live"}]
        /\ job \in [Services -> {"out", "active", "leaving"}]
        /\ enabled \in [Services -> BOOLEAN]
        /\ loaded \in [Services -> Contents]
        /\ stray \in [Services -> BOOLEAN]
    BY DEF Init, Contents
  <2>4. QED
    BY <2>1, <2>2, <2>3 DEF Init, TypeOK, InPlan
<1>2. InstallNumbers /\ UninstallNumbers /\ ManagerMatches
  BY DEF Init, InstallNumbers, UninstallNumbers, InstallNumber,
         UninstallNumber, ManagerMatches
<1>3. EndsMatch /\ InstalledServes /\ RemovedIsGone
  BY DEF Init, EndsMatch, InstalledServes, RemovedIsGone
<1>4. DirIsRemoved
  BY DEF Init, DirIsRemoved
<1>5. QED
  BY <1>1, <1>2, <1>3, <1>4 DEF NInv

(* Every step of an operation, of the service manager and of a fault. *)
LEMMA NextInv == NInv /\ [Next]_vars => NInv'
<1> SUFFICES ASSUME NInv, [Next]_vars PROVE NInv'
  OBVIOUS
<1>1. ASSUME NEW s \in Services, Start(s) \/ Step(s) \/ Chown(s) \/ Unload(s)
      PROVE  NInv'
  BY <1>1, StepInv, OthersInv
<1>2. CASE UNCHANGED vars
  <2> USE <1>2 DEF NInv, vars, control, files, manager
  <2>1. TypeOK' /\ InPlan'
    BY DEF TypeOK, InPlan
  <2>2. InstallNumbers' /\ UninstallNumbers' /\ ManagerMatches'
    BY DEF InstallNumbers, UninstallNumbers, InstallNumber, UninstallNumber,
           ManagerMatches
  <2>3. EndsMatch' /\ InstalledServes' /\ RemovedIsGone'
    BY DEF EndsMatch, InstalledServes, RemovedIsGone
  <2>4. DirIsRemoved'
    BY DEF DirIsRemoved
  <2>5. QED
    BY <2>1, <2>2, <2>3, <2>4
<1>3. QED
  BY <1>1, <1>2 DEF Next

(* The steps by their numbers say what the steps by their names say. *)
LEMMA NamesFollow == NInv => IInv
<1> SUFFICES ASSUME NInv PROVE IInv
  OBVIOUS
<1>1. InstallSteps
  BY PastNumber DEF NInv, TypeOK, InstallNumbers, InstallNumber, InstallSteps
<1>2. UninstallSteps
  BY PastNumber DEF NInv, TypeOK, UninstallNumbers, UninstallNumber, UninstallSteps
<1>3. BootstrapMeetsNoJob
  BY AtNumber DEF NInv, InstallNumbers, InstallNumber, BootstrapMeetsNoJob
<1>4. QED
  BY <1>1, <1>2, <1>3 DEF NInv, IInv
-----------------------------------------------------------------------------
(* What each step of an operation has behind it holds until its end,       *)
(* whatever the operations on the other services do in between.            *)
THEOREM Inductive == Spec => []IInv
<1>1. Init => NInv
  BY InitInv
<1>2. NInv /\ [Next]_vars => NInv'
  BY NextInv
<1>3. NInv => IInv
  BY NamesFollow
<1>4. QED
  BY <1>1, <1>2, <1>3, PTL DEF Spec

(* "Installs service so the service manager listens on its socket": after  *)
(* an install that returned Ok the service is served, from any state that  *)
(* failed operations left and for any number of services.                  *)
THEOREM Serves == Spec => []InstalledServes
<1>1. IInv => InstalledServes
  BY DEF IInv
<1>2. QED
  BY <1>1, Inductive, PTL

(* Nothing of a service is left after an uninstall that returned Ok. *)
THEOREM Leaves == Spec => []RemovedIsGone
<1>1. IInv => RemovedIsGone
  BY DEF IInv
<1>2. QED
  BY <1>1, Inductive, PTL

(* The last of any number of overlapping uninstalls removes the sockets'   *)
(* directory.                                                              *)
THEOREM DirGoes == Spec => []DirIsRemoved
<1>1. IInv => DirIsRemoved
  BY DEF IInv
<1>2. QED
  BY <1>1, Inductive, PTL

(* "a bootstrap in that window fails": an install whose queries are        *)
(* answered never runs `bootstrap` while the job of an earlier one is      *)
(* there.                                                                  *)
THEOREM Bootstraps == Spec => []BootstrapMeetsNoJob
<1>1. IInv => BootstrapMeetsNoJob
  BY DEF IInv
<1>2. QED
  BY <1>1, Inductive, PTL
==============================================================================
