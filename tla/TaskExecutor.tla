---------------------------- MODULE TaskExecutor ----------------------------
(***************************************************************************)
(* internal/task/executor.go: the tasks that come with the answer to a     *)
(* report, the goroutine each of them is given, the semaphore of the       *)
(* worker pool, the processes that run them with their timeout, and the    *)
(* status reports, whose errors are only logged.                           *)
(*                                                                         *)
(* Every accepted task makes a goroutine, g; a task that comes again makes *)
(* another.  The backend is "known", the tasks it has a final status of:   *)
(* it lists any of the others, those that are being executed too.          *)
(* A process whose end was seen, or that was killed, may leave a           *)
(* descendant that holds its output open ("held").  Output and exit codes  *)
(* are left out, and an upgrade_agent task is one that fails or finds      *)
(* nothing to do.                                                          *)
(***************************************************************************)
EXTENDS Naturals, Sequences, FiniteSets

CONSTANTS
  Tasks,
  MaxWorkers,    \* DefaultMaxWorkers, 4
  MaxRuns,       \* bound: goroutines started
  MaxLost,       \* bound: final reports lost
  MaxToggles     \* bound: changes of ssh.enabled in the configuration file

ASSUME ExecutorAssumption ==
  /\ IsFiniteSet(Tasks)
  /\ MaxWorkers \in Nat \ {0}
  /\ MaxRuns \in Nat /\ MaxLost \in Nat /\ MaxToggles \in Nat

Runs == 1..MaxRuns

VARIABLES
  enabled,   \* e.enabled
  accepting, \* isEnabled, read once for an answer
  todo,      \* the tasks of the answer that are still to be handled
  active,    \* e.activeTasks
  job,       \* job[g]: the task goroutine g was started for
  pc,        \* pc[g]: where it is
  sem,       \* len(e.sem)
  proc,      \* proc[g]: "none", "alive", "held" or "ended"
  expired,   \* goroutines whose timeout has passed
  known,     \* tasks the backend has a final status of
  excused,   \* history: tasks that may rightly be executed again
  lost, toggles

backend == <<known, excused, lost>>
vars == <<enabled, accepting, todo, active, job, pc, sem, proc,
          expired, backend, toggles>>

\* the points at which a goroutine holds a slot, and a task is active
Slot   == {"begin", "announce", "exec", "process", "final", "finish", "release"}
Active == {"queued", "begin", "announce", "exec", "process", "final", "finish"}
Points == Slot \cup {"none", "queued", "gone"}

Init ==
  /\ enabled \in BOOLEAN /\ accepting = FALSE /\ todo = {} /\ active = {}
  /\ sem = 0 /\ expired = {}
  /\ job = <<>> /\ pc = [g \in Runs |-> "none"]
  /\ proc = [g \in Runs |-> "none"]
  /\ known = {} /\ excused = {} /\ lost = 0 /\ toggles = 0

-----------------------------------------------------------------------------
(* HandlePendingTasks, on the agent's main goroutine                       *)

\* an answer is made from what the backend knows at that moment
Answer ==
  /\ todo = {}
  /\ todo' \in SUBSET (Tasks \ known) \ {{}}
  /\ accepting' = enabled
  /\ UNCHANGED <<enabled, active, job, pc, sem, proc, expired, backend,
                 toggles>>

\* reportStatus of a final status: it may not get through, and nobody tries
\* again.  An answer that is being handled was made before.
ReportFinal(t) ==
  \/ /\ known' = known \cup {t}
     /\ excused' = IF t \in todo' THEN excused \cup {t} ELSE excused
     /\ UNCHANGED lost
  \/ /\ lost < MaxLost /\ lost' = lost + 1
     /\ excused' = excused \cup {t}
     /\ UNCHANGED known

Reject(t) ==
  /\ t \in todo /\ ~accepting /\ todo' = todo \ {t}
  /\ ReportFinal(t)
  /\ UNCHANGED <<enabled, accepting, active, job, pc, sem, proc,
                 expired, toggles>>

Acceptable(t) == t \notin active

Skip(t) ==
  /\ t \in todo /\ accepting /\ ~Acceptable(t) /\ todo' = todo \ {t}
  /\ UNCHANGED <<enabled, accepting, active, job, pc, sem, proc,
                 expired, backend, toggles>>

Accept(t) ==
  /\ t \in todo /\ accepting /\ Acceptable(t) /\ todo' = todo \ {t}
  /\ Len(job) < MaxRuns                                         \* bound
  /\ job' = Append(job, t)
  /\ active' = active \cup {t}
  /\ pc' = [pc EXCEPT ![Len(job')] = "queued"]
  /\ UNCHANGED <<enabled, accepting, sem, proc, expired, backend, toggles>>

\* nothing calls it today; whoever will may do so at any time
SetEnabled ==
  /\ toggles < MaxToggles /\ toggles' = toggles + 1
  /\ enabled' = ~enabled
  /\ UNCHANGED <<accepting, todo, active, job, pc, sem, proc, expired,
                 backend>>

-----------------------------------------------------------------------------
(* The goroutine of a task: the semaphore, executeTask, finishTask         *)

Goto(g, from, to) == pc[g] = from /\ pc' = [pc EXCEPT ![g] = to]

Acquire(g) ==
  /\ sem < MaxWorkers /\ sem' = sem + 1
  /\ Goto(g, "queued", "begin")
  /\ UNCHANGED <<enabled, accepting, todo, active, job, proc, expired,
                 backend, toggles>>

\* the payload is parsed, "running" is reported, the type is looked at; a
\* task that cannot be started goes on to its final report
Prepare(g) ==
  /\ \/ Goto(g, "begin", "announce") \/ Goto(g, "begin", "final")
     \/ Goto(g, "announce", "exec") \/ Goto(g, "exec", "final")
  /\ UNCHANGED <<enabled, accepting, todo, active, job, sem, proc,
                 expired, backend, toggles>>

StartProcess(g) ==
  /\ Goto(g, "exec", "process")
  /\ proc' = [proc EXCEPT ![g] = "alive"]
  /\ UNCHANGED <<enabled, accepting, todo, active, job, sem, expired,
                 backend, toggles>>

\* stdout.Read fails: every writer has gone; Wait returns
OutputEnds(g) ==
  /\ proc[g] = "ended" /\ Goto(g, "process", "final")
  /\ UNCHANGED <<enabled, accepting, todo, active, job, sem, proc,
                 expired, backend, toggles>>

FinalSilent(g) ==     \* mutation: a return without a final report
  /\ Goto(g, "final", "finish")
  /\ UNCHANGED <<enabled, accepting, todo, active, job, sem, proc, expired,
                 backend, toggles>>
Final(g) ==
  /\ Goto(g, "final", "finish")
  /\ UNCHANGED todo /\ ReportFinal(job[g])
  /\ UNCHANGED <<enabled, accepting, active, job, sem, proc, expired,
                 toggles>>

finishTaskSkipped(g) ==    \* mutation: not deferred, missing on a return
  /\ Goto(g, "finish", "release")
  /\ active' \in {active, active \ {job[g]}}
  /\ UNCHANGED <<enabled, accepting, todo, job, sem, proc, expired,
                 backend, toggles>>
finishTask(g) ==
  /\ Goto(g, "finish", "release")
  /\ active' = active \ {job[g]}
  /\ UNCHANGED <<enabled, accepting, todo, job, sem, proc, expired,
                 backend, toggles>>

Release(g) ==
  /\ Goto(g, "release", "gone") /\ sem' = sem - 1
  /\ UNCHANGED <<enabled, accepting, todo, active, job, proc, expired,
                 backend, toggles>>

-----------------------------------------------------------------------------
(* Processes                                                               *)

\* it ends by itself
ProcessEnds(g) ==
  /\ proc[g] = "alive"
  /\ \E p \in {"held", "ended"} : proc' = [proc EXCEPT ![g] = p]
  /\ UNCHANGED <<enabled, accepting, todo, active, job, pc, sem,
                 expired, backend, toggles>>

HolderEnds(g) ==
  /\ proc[g] = "held" /\ proc' = [proc EXCEPT ![g] = "ended"]
  /\ UNCHANGED <<enabled, accepting, todo, active, job, pc, sem,
                 expired, backend, toggles>>

\* the context's deadline: CommandContext kills the process, and only it
TimeoutSpares(g) ==   \* mutation: exec.Command for exec.CommandContext
  /\ pc[g] = "process" /\ g \notin expired /\ expired' = expired \cup {g}
  /\ UNCHANGED <<enabled, accepting, todo, active, job, pc, sem, proc,
                 backend, toggles>>
Timeout(g) ==
  /\ pc[g] = "process" /\ g \notin expired /\ expired' = expired \cup {g}
  /\ \E p \in IF proc[g] = "alive" THEN {"held", "ended"} ELSE {proc[g]} :
       proc' = [proc EXCEPT ![g] = p]
  /\ UNCHANGED <<enabled, accepting, todo, active, job, pc, sem,
                 backend, toggles>>

-----------------------------------------------------------------------------
RunStep(g) ==
  \/ Acquire(g) \/ Prepare(g) \/ StartProcess(g) \/ OutputEnds(g) \/ Final(g)
  \/ finishTask(g) \/ Release(g) \/ Timeout(g)

Next ==
  \/ Answer \/ SetEnabled
  \/ \E t \in Tasks : Reject(t) \/ Skip(t) \/ Accept(t)
  \/ \E g \in Runs : RunStep(g) \/ ProcessEnds(g) \/ HolderEnds(g)

\* goroutines run, requests time out after 15 seconds, deadlines pass;
\* a process need not end by itself, nor a descendant let go of its output
Fairness == \A g \in Runs : WF_vars(RunStep(g))

Spec == Init /\ [][Next]_vars
FairSpec == Spec /\ Fairness

-----------------------------------------------------------------------------
(* Types; the semaphore counts the goroutines that hold a slot, and they   *)
(* never are more than MaxWorkers.                                         *)
TypeOK ==
  /\ enabled \in BOOLEAN /\ accepting \in BOOLEAN
  /\ todo \subseteq Tasks /\ active \subseteq Tasks /\ known \subseteq Tasks
  /\ excused \subseteq Tasks
  /\ job \in Seq(Tasks) /\ Len(job) <= MaxRuns
  /\ pc \in [Runs -> Points] /\ \A g \in Runs : pc[g] = "none" <=> g > Len(job)
  /\ proc \in [Runs -> {"none", "alive", "held", "ended"}]
  /\ expired \subseteq Runs
  /\ sem \in 0..MaxWorkers /\ sem = Cardinality({g \in Runs : pc[g] \in Slot})
  /\ lost \in 0..MaxLost /\ toggles \in 0..MaxToggles

(* A task has one execution at a time, however often it is listed.         *)
OneExecution ==
  \A g, h \in DOMAIN job :
    pc[g] \in Active /\ pc[h] \in Active /\ job[g] = job[h] => g = h

(* activeTasks holds the tasks that are queued or executed and no others:  *)
(* an entry that stayed behind would bar its task for ever.                *)
ActiveIsExact == active = {job[g] : g \in {h \in DOMAIN job : pc[h] \in Active}}

(* A task is executed a second time only if the backend could not know     *)
(* better: a final report was lost, or the answer that lists it was made   *)
(* before its final report arrived.                                        *)
RunsAgainOnlyIfExcused ==
  \A g, h \in DOMAIN job : job[g] = job[h] => g = h \/ job[g] \in excused

(* A task waits in the queue for ever only if every slot of the pool is    *)
(* taken by a task whose timeout has passed and whose output is held open. *)
HeldUp == Cardinality({g \in expired : pc[g] = "process" /\ proc[g] = "held"})
QueueStarvesOnlyIfHeldUp ==
  (\E g \in Runs : <>[](pc[g] = "queued")) => <>[](HeldUp = MaxWorkers)
=============================================================================
