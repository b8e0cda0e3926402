------------------------------ MODULE Upgrade ------------------------------
(***************************************************************************)
(* The agent's upgrades: an upgrade_agent task (execUpgrade in             *)
(* internal/task/executor.go) and the automatic updates                    *)
(* (internal/updater/auto.go) replace the binary and restart the process,  *)
(* each in a goroutine of its own; upgrade_state.json                      *)
(* (internal/config/upgrade_state.go), which they share, tells the next    *)
(* process what to report (checkUpgradeResult in internal/core/agent.go).  *)
(*                                                                         *)
(* A version is its ordinal.  Downloads and their verification are one     *)
(* with the replacement: they can only fail.  Containers and "dev" builds, *)
(* which never upgrade, are left out.                                      *)
(***************************************************************************)
EXTENDS Naturals

CONSTANTS
  MaxVersion,  \* bound: releases
  MaxFaults    \* bound: failures of any kind

ASSUME UpgradeAssumption == MaxVersion \in Nat \ {0} /\ MaxFaults \in Nat

Actors == {"task", "auto"}
NoFile == [exec |-> FALSE, target |-> 0, fresh |-> FALSE]

VARIABLES
  env,       \* windows, canRestart (root and systemd), autoUpdate
  latest,    \* the latest release on GitHub
  bin,       \* version of the binary on disk, 0 if there is none
  old,       \* Windows: version of the ".old" file, 0 if there is none
  image,     \* Windows: the file the process runs from, "bin" or "old"
             \* ("stranded": the latter, since a rollback failed)
  run,       \* version of the running process, 0 if there is none
  phase,     \* "down", "check" and "clean" (checkUpgradeResult), "up"
  point,        \* point[a]: where the upgrade of a is
  want,      \* want[a]: release.Tag
  file,      \* upgrade_state.json
  tmp,       \* upgrade_state.json.tmp
  task,      \* what the backend knows of its one upgrade task
  accident,   \* history: something happened to the task's answer
  faults

files == <<file, tmp>>
upgradeVars == <<env, latest, bin, old, image, run, phase, point, want, files, task, accident, faults>>

UpgradeInit ==
  /\ env \in {e \in [windows : BOOLEAN, canRestart : BOOLEAN, autoUpdate : BOOLEAN] :
                e.windows => ~e.canRestart}
  /\ latest \in 1..MaxVersion /\ bin = 1 /\ old = 0 /\ image = "bin" /\ run = 0
  /\ phase = "down" /\ point = [a \in Actors |-> "idle"] /\ want = [a \in Actors |-> 0]
  /\ file = NoFile /\ tmp = NoFile /\ task = "none" /\ accident = FALSE /\ faults = 0

-----------------------------------------------------------------------------
(* Processes                                                               *)

Start ==
  /\ phase = "down" /\ bin # 0
  /\ run' = bin /\ image' = "bin" /\ phase' = "check"
  /\ UNCHANGED <<env, latest, bin, old, point, want, files, task, accident, faults>>

\* the answer to the task: it may not get through, and nobody tries again
AnswerTask(result) ==
  \/ task' = result /\ UNCHANGED <<accident, faults>>
  \/ /\ faults < MaxFaults /\ faults' = faults + 1
     /\ accident' = TRUE /\ UNCHANGED task

\* the file may be too old to be believed
CheckOnlyFresh ==   \* mutation: a file that is too old is removed unanswered
  /\ phase = "check"
  /\ phase' = IF file = NoFile THEN "up" ELSE "clean"
  /\ IF file.exec /\ file.fresh
     THEN AnswerTask(IF run = file.target THEN "success" ELSE "failed")
     ELSE UNCHANGED <<task, accident, faults>>
  /\ UNCHANGED <<env, latest, bin, old, image, run, point, want, files>>
checkUpgradeResult ==
  /\ phase = "check"
  /\ phase' = IF file = NoFile THEN "up" ELSE "clean"
  /\ IF file.exec
     THEN AnswerTask(IF file.fresh /\ run = file.target THEN "success" ELSE "failed")
     ELSE UNCHANGED <<task, accident, faults>>
  /\ UNCHANGED <<env, latest, bin, old, image, run, point, want, files>>

RemoveUpgradeState ==
  /\ phase = "clean" /\ phase' = "up" /\ file' = NoFile
  /\ UNCHANGED <<env, latest, bin, old, image, run, point, want, tmp, task,
                 accident, faults>>

\* the task's goroutine dies with the process: a file of its own is left, or
\* nothing
AgentEnds ==
  /\ run' = 0 /\ phase' = "down" /\ point' = [a \in Actors |-> "idle"]
  /\ accident' = (accident \/ (point["task"] # "idle" /\ ~file.exec))
  /\ UNCHANGED <<env, latest, bin, old, image, want, files, task>>

Crash ==
  /\ phase # "down" /\ faults < MaxFaults /\ faults' = faults + 1
  /\ AgentEnds

-----------------------------------------------------------------------------
(* One upgrade, by execUpgrade or by AutoUpdater.check                     *)

At(a, from, to) == point[a] = from /\ point' = [point EXCEPT ![a] = to]

\* the backend lists the task as long as it has no final status of it
AcceptTask ==
  /\ phase = "up" /\ task \in {"asked", "started"} /\ At("task", "idle", "query")
  /\ task' = "started"
  /\ UNCHANGED <<env, latest, bin, old, image, run, phase, want, files,
                 accident, faults>>

AutoCheckEarly ==   \* mutation: automatic updates start before the boot check
  /\ phase # "down" /\ env.autoUpdate /\ At("auto", "idle", "query")
  /\ UNCHANGED <<env, latest, bin, old, image, run, phase, want, files, task, accident, faults>>
AutoCheck ==
  /\ phase = "up" /\ env.autoUpdate /\ At("auto", "idle", "query")
  /\ UNCHANGED <<env, latest, bin, old, image, run, phase, want, files, task, accident, faults>>

\* an upgrade that fails: the task's answer is "failed", if it gets through
Fail(a, from) ==
  /\ faults < MaxFaults /\ faults' = faults + 1
  /\ At(a, from, "idle")
  /\ task' \in IF a = "task" THEN {task, "failed"} ELSE {task}

CheckGitHubLatest(a) ==
  /\ \/ /\ At(a, "query", "write") /\ latest # run
        /\ want' = [want EXCEPT ![a] = latest]
        /\ UNCHANGED <<task, accident, faults>>
     \/ /\ At(a, "query", "idle") /\ latest = run
        /\ IF a = "task" THEN AnswerTask("success") ELSE UNCHANGED <<task, accident, faults>>
        /\ UNCHANGED want
     \/ /\ Fail(a, "query")
        /\ accident' = (accident \/ (a = "task" /\ task' = task))
        /\ UNCHANGED want
  /\ UNCHANGED <<env, latest, bin, old, image, run, phase, files>>

\* both upgrades write the same temporary file
WriteTemporary(a) ==
  /\ \/ /\ At(a, "write", "rename")
        /\ tmp' = [exec |-> a = "task", target |-> want[a], fresh |-> TRUE]
        /\ UNCHANGED <<task, accident, faults>>
     \/ /\ Fail(a, "write")
        /\ accident' = (accident \/ (a = "task" /\ task' = task))
        /\ UNCHANGED tmp
  /\ UNCHANGED <<env, latest, bin, old, image, run, phase, want, file>>

\* what is renamed may be the other's, or gone
RenameTemporary(a) ==
  /\ \/ /\ At(a, "rename", "replace") /\ tmp # NoFile
        /\ file' = tmp /\ tmp' = NoFile
        /\ accident' = (accident \/ (~tmp.exec /\ (file.exec \/ a = "task")))
        /\ UNCHANGED <<task, faults>>
     \/ /\ At(a, "rename", "idle") /\ tmp = NoFile
        /\ IF a = "task" THEN AnswerTask("failed") ELSE UNCHANGED <<task, accident, faults>>
        /\ UNCHANGED files
     \/ /\ Fail(a, "rename") /\ tmp' = NoFile
        /\ accident' = (accident \/ (a = "task" /\ task' = task))
        /\ UNCHANGED file
  /\ UNCHANGED <<env, latest, bin, old, image, run, phase, want>>

\* Upgrade returned an error; both callers remove the file, whoever wrote it
UpgradeFails(a, from) ==
  /\ Fail(a, from)
  /\ file' = NoFile /\ UNCHANGED tmp
  /\ accident' = (accident \/ (IF a = "task" THEN task' = task ELSE file.exec))

\* Unix: rename, then chmod, which may fail too
Rename(a) ==
  /\ ~env.windows
  /\ \/ /\ At(a, "replace", "restart") /\ bin' = want[a]
        /\ UNCHANGED <<files, task, accident, faults>>
     \/ UpgradeFails(a, "replace") /\ bin' \in {bin, want[a]}
  /\ UNCHANGED <<env, latest, old, image, run, phase, want>>

\* Windows: the running binary is moved away, unless ".old" is already the
\* running one, which can be neither removed nor replaced
MoveAway(a) ==
  /\ env.windows
  /\ \/ /\ At(a, "replace", "moveIn") /\ image = "bin"
        /\ old' = bin /\ bin' = 0 /\ image' = "old"
        /\ UNCHANGED <<files, task, accident, faults>>
     \/ UpgradeFails(a, "replace") /\ UNCHANGED <<bin, old, image>>
  /\ UNCHANGED <<env, latest, run, phase, want>>

\* MoveAway can but fail while the process runs from ".old"
MoveBlocked(a) ==
  /\ env.windows /\ image # "bin" /\ At(a, "replace", "idle")
  /\ file' = NoFile
  /\ IF a = "task" THEN AnswerTask("failed")
     ELSE accident' = (accident \/ file.exec) /\ UNCHANGED <<task, faults>>
  /\ UNCHANGED <<env, latest, bin, old, image, run, phase, want, tmp>>

MoveInWithoutRollback(a) ==   \* mutation: a failed second rename is not undone
  /\ \/ /\ At(a, "moveIn", "restart") /\ bin' = want[a]
        /\ UNCHANGED <<old, image, files, task, accident, faults>>
     \/ UpgradeFails(a, "moveIn") /\ UNCHANGED <<bin, old, image>>
  /\ UNCHANGED <<env, latest, run, phase, want>>
\* a failed rename is undone, which may fail as well; chmod may, too
MoveIn(a) ==
  /\ \/ /\ At(a, "moveIn", "restart") /\ bin' = want[a]
        /\ UNCHANGED <<old, image, files, task, accident, faults>>
     \/ UpgradeFails(a, "moveIn") /\ bin' = old /\ old' = 0 /\ image' = "bin"
     \/ UpgradeFails(a, "moveIn") /\ image' = "stranded" /\ UNCHANGED <<bin, old>>
     \/ UpgradeFails(a, "moveIn") /\ bin' = want[a] /\ UNCHANGED <<old, image>>
  /\ UNCHANGED <<env, latest, run, phase, want>>

TriggerNothing(a) ==   \* mutation: the old process is left running
  /\ At(a, "restart", "idle")
  /\ UNCHANGED <<env, latest, bin, old, image, run, phase, want, files, task, accident, faults>>
\* without root or systemd, or when systemctl cannot be started, it returns:
\* somebody has to restart the agent
TriggerRestart(a) ==
  \/ /\ point[a] = "restart" /\ env.canRestart
     /\ AgentEnds /\ UNCHANGED faults
  \/ /\ env.canRestart /\ faults < MaxFaults /\ faults' = faults + 1
     /\ At(a, "restart", "idle")
     /\ UNCHANGED <<env, latest, bin, old, image, run, phase, want, files, task, accident>>
  \/ /\ ~env.canRestart /\ At(a, "restart", "idle")
     /\ UNCHANGED <<env, latest, bin, old, image, run, phase, want, files, task, accident, faults>>

-----------------------------------------------------------------------------
(* The world                                                               *)

AskTask ==
  /\ task = "none" /\ task' = "asked"
  /\ UNCHANGED <<env, latest, bin, old, image, run, phase, point, want, files, accident, faults>>

NewRelease ==
  /\ latest < MaxVersion /\ latest' = latest + 1
  /\ UNCHANGED <<env, bin, old, image, run, phase, point, want, files, task, accident, faults>>

\* ten minutes pass
FileExpires ==
  /\ file.fresh /\ file' = [file EXCEPT !.fresh = FALSE]
  /\ UNCHANGED <<env, latest, bin, old, image, run, phase, point, want, tmp, task, accident, faults>>

-----------------------------------------------------------------------------
Step(a) ==
  \/ CheckGitHubLatest(a) \/ WriteTemporary(a) \/ RenameTemporary(a) \/ Rename(a) \/ MoveAway(a)
  \/ MoveBlocked(a) \/ MoveIn(a) \/ TriggerRestart(a)

Boot == Start \/ checkUpgradeResult \/ RemoveUpgradeState

UpgradeNext ==
  \/ Boot \/ Crash \/ AcceptTask \/ AutoCheck
  \/ (\E a \in Actors : Step(a))
  \/ AskTask \/ NewRelease \/ FileExpires

\* systemd starts what has ended; requests and downloads time out; the next
\* automatic check comes after six hours
UpgradeFairness ==
  /\ WF_upgradeVars(Boot) /\ WF_upgradeVars(AutoCheck) /\ \A a \in Actors : WF_upgradeVars(Step(a))

UpgradeSpec == UpgradeInit /\ [][UpgradeNext]_upgradeVars
FairUpgradeSpec == UpgradeSpec /\ UpgradeFairness

-----------------------------------------------------------------------------
(* Types.                                                                  *)
Versions == 0..MaxVersion
UpgradeTypeOK ==
  /\ env \in [windows : BOOLEAN, canRestart : BOOLEAN, autoUpdate : BOOLEAN]
  /\ latest \in Versions \ {0} /\ bin \in Versions /\ old \in Versions
  /\ image \in {"bin", "old", "stranded"} /\ run \in Versions
  /\ phase \in {"down", "check", "clean", "up"}
  /\ point \in [Actors -> {"idle", "query", "write", "rename", "replace", "moveIn", "restart"}]
  /\ phase # "up" => \A a \in Actors : point[a] = "idle"
  /\ want \in [Actors -> Versions]
  /\ {file, tmp} \subseteq [exec : BOOLEAN, target : Versions, fresh : BOOLEAN]
  /\ task \in {"none", "asked", "started", "success", "failed"}
  /\ accident \in BOOLEAN /\ faults \in 0..MaxFaults

(* An upgrade that fails leaves a binary to start: there is none only      *)
(* while one upgrade is between its two renames, after a crash there, or   *)
(* when the second rename and its rollback have both failed.               *)
BinaryUnlessSwapped ==
  bin = 0 => phase = "down" \/ image = "stranded" \/ \E a \in Actors : point[a] = "moveIn"

(* A task that was started is being worked on, or will be answered by the  *)
(* next process, or one of the known accidents befell it: an answer that   *)
(* did not get through, the end of the process, the other upgrade's use of *)
(* the two files.                                                          *)
AnswerAccounted ==
  task = "started" => point["task"] # "idle" \/ file.exec \/ accident

(* An agent that updates itself, and that systemd restarts, comes to run   *)
(* the latest release, whatever fails on the way.                          *)
ConvergesToLatest ==
  env.autoUpdate /\ env.canRestart => <>[](run = latest)
=============================================================================
