-------------------------- MODULE Executor_proofs ---------------------------
(***************************************************************************)
(* What is proved of the task executor, for any tasks, any size of pool    *)
(* and any number of executions; and, below, of the upgrades, which share  *)
(* the binary and the two state files, for any releases and any failures.  *)
(***************************************************************************)
EXTENDS TaskExecutor, Upgrade, FiniteSetTheorems, TLAPS

Flags == enabled \in BOOLEAN /\ accepting \in BOOLEAN
Sets ==
  /\ todo \subseteq Tasks /\ active \subseteq Tasks /\ known \subseteq Tasks
  /\ excused \subseteq Tasks
Jobs ==
  /\ job \in Seq(Tasks) /\ Len(job) <= MaxRuns
  /\ pc \in [Runs -> Points] /\ \A g \in Runs : pc[g] = "none" <=> g > Len(job)
Procs ==
  /\ proc \in [Runs -> {"none", "alive", "held", "ended"}]
  /\ expired \subseteq Runs
Holders == {g \in Runs : pc[g] \in Slot}
Pool == sem \in 0..MaxWorkers /\ sem = Cardinality(Holders)
Counts == lost \in 0..MaxLost /\ toggles \in 0..MaxToggles
Types == Flags /\ Sets /\ Jobs /\ Procs /\ Pool /\ Counts

\* An execution that has made its final report is known to the backend, which
\* lists its task no more, or the task is excused.
Reported ==
  \A g \in DOMAIN job :
    pc[g] \in {"finish", "release", "gone"} =>
      job[g] \in excused \/ (job[g] \in known /\ job[g] \notin todo)

Inv == Types /\ ActiveIsExact /\ OneExecution /\ Reported /\ RunsAgainOnlyIfExcused

-----------------------------------------------------------------------------
\* A goroutine that moves on has a task, and the others stay where they are.
LEMMA GotoKeeps ==
  ASSUME Jobs, NEW g \in Runs, NEW from \in Points \ {"none"},
         NEW to \in Points \ {"none"}, Goto(g, from, to), UNCHANGED job
  PROVE  /\ Jobs' /\ g \in DOMAIN job /\ job[g] \in Tasks
         /\ pc[g] = from /\ pc'[g] = to
         /\ \A h \in Runs \ {g} : pc'[h] = pc[h]
<1>1. pc[g] = from /\ pc'[g] = to /\ \A h \in Runs \ {g} : pc'[h] = pc[h]
  BY DEF Jobs, Goto
<1>2. pc' \in [Runs -> Points]
  BY DEF Jobs, Goto
<1>3. g \in DOMAIN job /\ job[g] \in Tasks
  BY <1>1, ExecutorAssumption DEF Jobs, Runs
<1>4. \A h \in Runs : pc'[h] = "none" <=> h > Len(job)
  BY <1>1 DEF Jobs
<1> QED
  BY <1>1, <1>2, <1>3, <1>4 DEF Jobs

LEMMA DomainIsRuns ==
  ASSUME Jobs
  PROVE  /\ DOMAIN job = 1..Len(job) /\ DOMAIN job \subseteq Runs
         /\ \A g \in DOMAIN job : job[g] \in Tasks /\ pc[g] # "none"
  BY ExecutorAssumption DEF Jobs, Runs

LEMMA HoldersFinite == IsFiniteSet(Holders) /\ IsFiniteSet(Holders')
<1>1. IsFiniteSet(Runs)
  BY FS_Interval, ExecutorAssumption DEF Runs
<1> QED
  BY <1>1, FS_Subset DEF Holders

\* Goroutines that move between points on the same side of the semaphore.
LEMMA PoolStays ==
  ASSUME Pool, UNCHANGED sem, \A g \in Runs : pc'[g] \in Slot <=> pc[g] \in Slot
  PROVE  Pool'
<1>1. Holders' = Holders
  BY DEF Holders
<1> QED
  BY <1>1 DEF Pool

LEMMA PoolGrows ==
  ASSUME Pool, sem < MaxWorkers, sem' = sem + 1, NEW g \in Runs,
         pc[g] \notin Slot, pc'[g] \in Slot, \A h \in Runs \ {g} : pc'[h] = pc[h]
  PROVE  Pool'
<1>1. Holders' = Holders \cup {g} /\ g \notin Holders
  BY DEF Holders
<1>2. Cardinality(Holders') = Cardinality(Holders) + 1
  BY <1>1, HoldersFinite, FS_AddElement
<1> QED
  BY <1>2, ExecutorAssumption DEF Pool

LEMMA PoolShrinks ==
  ASSUME Pool, sem' = sem - 1, NEW g \in Runs,
         pc[g] \in Slot, pc'[g] \notin Slot, \A h \in Runs \ {g} : pc'[h] = pc[h]
  PROVE  Pool'
<1>1. Holders' = Holders \ {g} /\ g \in Holders
  BY DEF Holders
<1>2. Cardinality(Holders') = Cardinality(Holders) - 1
  BY <1>1, HoldersFinite, FS_RemoveElement
<1>3. Cardinality(Holders') \in Nat
  BY HoldersFinite, FS_CardinalityType
<1> QED
  BY <1>2, <1>3, ExecutorAssumption DEF Pool

\* The sets that speak of executions do not see a goroutine move, as long as it
\* stays active, or inactive.
LEMMA ActiveStays ==
  ASSUME Jobs, ActiveIsExact, OneExecution, UNCHANGED <<active, job>>,
         \A g \in Runs : pc'[g] \in Active <=> pc[g] \in Active
  PROVE  ActiveIsExact' /\ OneExecution'
  BY DomainIsRuns DEF ActiveIsExact, OneExecution

\* Final reports only add to what the backend knows, and excuses.
LEMMA ReportsGrow ==
  ASSUME Types, NEW t \in Tasks, ReportFinal(t)
  PROVE  /\ known \subseteq known' /\ excused \subseteq excused'
         /\ known' \subseteq Tasks /\ excused' \subseteq Tasks
         /\ lost' \in 0..MaxLost
         /\ t \in excused' \/ (t \in known' /\ t \notin todo')
<1>1. known' \subseteq Tasks /\ excused' \subseteq Tasks /\ known \subseteq known'
      /\ excused \subseteq excused'
  BY DEF Types, Sets, ReportFinal
<1>2. lost' \in 0..MaxLost
  BY ExecutorAssumption DEF Types, Counts, ReportFinal
<1>3. t \in excused' \/ (t \in known' /\ t \notin todo')
  BY DEF ReportFinal
<1> QED
  BY <1>1, <1>2, <1>3

\* A goroutine that moves between points of the same kinds, and reports nothing,
\* keeps the invariant.
LEMMA PlainStep ==
  ASSUME Inv, NEW g \in Runs, NEW from \in Points \ {"none"}, NEW to \in Points \ {"none"},
         Goto(g, from, to), from \in Slot <=> to \in Slot, from \in Active, to \in Active,
         to # "finish",
         UNCHANGED <<enabled, accepting, todo, active, job, sem, backend, toggles>>, Procs'
  PROVE  Inv'
<1> USE DEF Inv, Types
<1>1. /\ Jobs' /\ pc[g] = from /\ pc'[g] = to
      /\ \A h \in Runs \ {g} : pc'[h] = pc[h]
  BY GotoKeeps
<1>2. Pool'
  <2>1. \A h \in Runs : pc'[h] \in Slot <=> pc[h] \in Slot
    BY <1>1
  <2> QED
    BY <2>1, PoolStays
<1>3. ActiveIsExact' /\ OneExecution'
  <2>1. \A h \in Runs : pc'[h] \in Active <=> pc[h] \in Active
    BY <1>1
  <2> QED
    BY <2>1, ActiveStays
<1>4. Reported'
  <2>1. to \notin {"finish", "release", "gone"}
    BY DEF Active
  <2> QED
    BY <1>1, <2>1, DomainIsRuns DEF Reported, backend
<1>5. RunsAgainOnlyIfExcused'
  BY DEF RunsAgainOnlyIfExcused, backend
<1>6. Flags' /\ Sets' /\ Counts'
  BY DEF Flags, Sets, Counts, backend
<1> QED
  BY <1>1, <1>2, <1>3, <1>4, <1>5, <1>6

\* Nothing that Inv speaks of changes, but for answers, flags and processes.
LEMMA Aside ==
  ASSUME Inv, UNCHANGED <<active, job, pc, sem, backend>>,
         Flags', Procs', toggles' \in 0..MaxToggles,
         todo' \subseteq todo \/ todo' \subseteq Tasks \ known
  PROVE  Inv'
<1> USE DEF Inv, Types
<1>1. Jobs' /\ Pool'
  BY DEF Jobs, Pool, Holders
<1>2. Sets' /\ Counts'
  BY DEF Sets, Counts, backend
<1>3. ActiveIsExact' /\ OneExecution' /\ RunsAgainOnlyIfExcused'
  BY DEF ActiveIsExact, OneExecution, RunsAgainOnlyIfExcused, backend
<1>4. Reported'
  BY DEF Reported, backend
<1> QED
  BY <1>1, <1>2, <1>3, <1>4

LEMMA RejectKeeps == ASSUME Inv, NEW t \in Tasks, Reject(t) PROVE Inv'
<1> USE DEF Inv, Types
<1>1. /\ known \subseteq known' /\ excused \subseteq excused' /\ todo' \subseteq todo
      /\ known' \subseteq Tasks /\ excused' \subseteq Tasks /\ lost' \in 0..MaxLost
      /\ UNCHANGED <<enabled, accepting, active, job, pc, sem, proc, expired, toggles>>
  BY ReportsGrow DEF Reject
<1>2. Flags' /\ Sets' /\ Jobs' /\ Procs' /\ Pool' /\ Counts'
  BY <1>1 DEF Flags, Sets, Jobs, Procs, Pool, Holders, Counts
<1>3. ActiveIsExact' /\ OneExecution' /\ RunsAgainOnlyIfExcused' /\ Reported'
  BY <1>1 DEF ActiveIsExact, OneExecution, RunsAgainOnlyIfExcused, Reported
<1> QED
  BY <1>2, <1>3

LEMMA AcceptKeeps == ASSUME Inv, NEW t \in Tasks, Accept(t) PROVE Inv'
<1> USE DEF Inv, Types
<1> DEFINE n == Len(job) + 1
<1>1. /\ t \in todo /\ t \notin active /\ todo' = todo \ {t} /\ Len(job) < MaxRuns
      /\ job' = Append(job, t) /\ active' = active \cup {t}
      /\ UNCHANGED <<enabled, accepting, sem, proc, expired, backend, toggles>>
  BY DEF Accept, Acceptable
<1>2. /\ n \in Runs /\ Len(job') = n /\ job' \in Seq(Tasks) /\ job'[n] = t
      /\ DOMAIN job' = 1..n /\ \A g \in 1..Len(job) : job'[g] = job[g]
  BY <1>1, ExecutorAssumption DEF Jobs, Runs
<1>3. pc' = [pc EXCEPT ![n] = "queued"]
  BY <1>2 DEF Accept
<1>4. pc' \in [Runs -> Points] /\ pc'[n] = "queued" /\ \A g \in Runs \ {n} : pc'[g] = pc[g]
  BY <1>2, <1>3 DEF Jobs, Points
<1>5. pc[n] = "none"
  BY <1>2 DEF Jobs
<1>6. Jobs'
  <2>1. \A g \in Runs : pc'[g] = "none" <=> g > n
    BY <1>2, <1>4, <1>5, ExecutorAssumption DEF Jobs, Runs
  <2> QED
    BY <1>1, <1>2, <1>4, <2>1, ExecutorAssumption DEF Jobs
<1>7. Pool'
  <2>1. \A g \in Runs : pc'[g] \in Slot <=> pc[g] \in Slot
    BY <1>4, <1>5 DEF Slot
  <2> QED
    BY <1>1, <2>1, PoolStays
<1>8. DOMAIN job = 1..Len(job) /\ DOMAIN job \subseteq Runs \ {n}
      /\ DOMAIN job' = DOMAIN job \cup {n}
  BY <1>2, DomainIsRuns, ExecutorAssumption DEF Jobs
<1>9. {g \in DOMAIN job' : pc'[g] \in Active} = {g \in DOMAIN job : pc[g] \in Active} \cup {n}
  BY <1>4, <1>8 DEF Active
<1>10. \A g \in DOMAIN job : job'[g] = job[g]
  BY <1>2, <1>8
<1>11. ActiveIsExact'
  BY <1>1, <1>2, <1>8, <1>9, <1>10 DEF ActiveIsExact
<1>12. OneExecution'
  <2>1. \A g \in DOMAIN job : pc[g] \in Active => job[g] # t
    BY <1>1 DEF ActiveIsExact
  <2> QED
    BY <2>1, <1>2, <1>4, <1>8, <1>10 DEF OneExecution
<1>13. Reported'
  BY <1>1, <1>4, <1>8, <1>10 DEF Reported, backend
<1>14. \A g \in DOMAIN job : job[g] = t => t \in excused
  <2> SUFFICES ASSUME NEW g \in DOMAIN job, job[g] = t PROVE t \in excused
    OBVIOUS
  <2>1. pc[g] \notin Active
    BY <1>1 DEF ActiveIsExact
  <2>2. pc[g] \in {"release", "gone"}
    BY <2>1, DomainIsRuns DEF Points, Slot, Active, Jobs
  <2> QED
    BY <1>1, <2>2 DEF Reported
<1>15. RunsAgainOnlyIfExcused'
  BY <1>1, <1>2, <1>8, <1>10, <1>14 DEF RunsAgainOnlyIfExcused, backend
<1>16. Flags' /\ Sets' /\ Procs' /\ Counts'
  BY <1>1 DEF Flags, Sets, Procs, Counts, backend
<1> QED
  BY <1>6, <1>7, <1>11, <1>12, <1>13, <1>15, <1>16

LEMMA FinalKeeps == ASSUME Inv, NEW g \in Runs, Final(g) PROVE Inv'
<1> USE DEF Inv, Types
<1>0. "final" \in Points \ {"none"} /\ "finish" \in Points \ {"none"}
  BY DEF Points, Slot
<1>1. /\ Goto(g, "final", "finish") /\ todo' = todo /\ ReportFinal(job[g])
      /\ UNCHANGED <<enabled, accepting, active, job, sem, proc, expired, toggles>>
  BY DEF Final
<1>2. /\ Jobs' /\ g \in DOMAIN job /\ job[g] \in Tasks /\ pc[g] = "final"
      /\ pc'[g] = "finish" /\ \A h \in Runs \ {g} : pc'[h] = pc[h]
  BY <1>0, <1>1, GotoKeeps
<1>3. /\ known \subseteq known' /\ excused \subseteq excused'
      /\ known' \subseteq Tasks /\ excused' \subseteq Tasks /\ lost' \in 0..MaxLost
      /\ job[g] \in excused' \/ (job[g] \in known' /\ job[g] \notin todo')
  BY <1>1, <1>2, ReportsGrow
<1>4. Pool'
  <2>1. \A h \in Runs : pc'[h] \in Slot <=> pc[h] \in Slot
    BY <1>2 DEF Slot
  <2> QED
    BY <1>1, <2>1, PoolStays
<1>5. ActiveIsExact' /\ OneExecution'
  <2>1. \A h \in Runs : pc'[h] \in Active <=> pc[h] \in Active
    BY <1>2 DEF Active
  <2> QED
    BY <1>1, <2>1, ActiveStays
<1>6. Reported'
  BY <1>1, <1>2, <1>3, DomainIsRuns DEF Reported
<1>7. RunsAgainOnlyIfExcused'
  BY <1>1, <1>3 DEF RunsAgainOnlyIfExcused
<1>8. Flags' /\ Sets' /\ Procs' /\ Counts'
  BY <1>1, <1>3 DEF Flags, Sets, Procs, Counts
<1> QED
  BY <1>2, <1>4, <1>5, <1>6, <1>7, <1>8

LEMMA finishTaskKeeps == ASSUME Inv, NEW g \in Runs, finishTask(g) PROVE Inv'
<1> USE DEF Inv, Types
<1>0. "finish" \in Points \ {"none"} /\ "release" \in Points \ {"none"}
  BY DEF Points, Slot
<1>1. /\ Goto(g, "finish", "release") /\ active' = active \ {job[g]}
      /\ UNCHANGED <<enabled, accepting, todo, job, sem, proc, expired, backend, toggles>>
  BY DEF finishTask
<1>2. /\ Jobs' /\ g \in DOMAIN job /\ job[g] \in Tasks /\ pc[g] = "finish"
      /\ pc'[g] = "release" /\ \A h \in Runs \ {g} : pc'[h] = pc[h]
  BY <1>0, <1>1, GotoKeeps
<1>3. Pool'
  <2>1. \A h \in Runs : pc'[h] \in Slot <=> pc[h] \in Slot
    BY <1>2 DEF Slot
  <2> QED
    BY <1>1, <2>1, PoolStays
<1>4. pc[g] \in Active /\ pc'[g] \notin Active
  BY <1>2 DEF Active
<1>5. \A h \in DOMAIN job \ {g} : pc[h] \in Active => job[h] # job[g]
  BY <1>2, <1>4 DEF OneExecution
<1>6. {h \in DOMAIN job : pc'[h] \in Active} = {h \in DOMAIN job : pc[h] \in Active} \ {g}
  BY <1>2, <1>4, DomainIsRuns
<1>7. ActiveIsExact'
  BY <1>1, <1>2, <1>4, <1>5, <1>6 DEF ActiveIsExact
<1>8. OneExecution'
  BY <1>1, <1>2, <1>4, DomainIsRuns DEF OneExecution
<1>9. Reported'
  BY <1>1, <1>2, DomainIsRuns DEF Reported, backend
<1>10. RunsAgainOnlyIfExcused' /\ Flags' /\ Sets' /\ Procs' /\ Counts'
  BY <1>1 DEF RunsAgainOnlyIfExcused, Flags, Sets, Procs, Counts, backend
<1> QED
  BY <1>2, <1>3, <1>7, <1>8, <1>9, <1>10

LEMMA AcquireKeeps == ASSUME Inv, NEW g \in Runs, Acquire(g) PROVE Inv'
<1> USE DEF Inv, Types
<1>0. "queued" \in Points \ {"none"} /\ "begin" \in Points \ {"none"}
  BY DEF Points, Slot
<1>1. /\ Goto(g, "queued", "begin") /\ sem < MaxWorkers /\ sem' = sem + 1
      /\ UNCHANGED <<enabled, accepting, todo, active, job, proc, expired, backend, toggles>>
  BY DEF Acquire
<1>2. /\ Jobs' /\ pc[g] = "queued" /\ pc'[g] = "begin"
      /\ \A h \in Runs \ {g} : pc'[h] = pc[h]
  BY <1>0, <1>1, GotoKeeps
<1>3. Pool'
  BY <1>1, <1>2, PoolGrows DEF Slot
<1>4. ActiveIsExact' /\ OneExecution'
  <2>1. \A h \in Runs : pc'[h] \in Active <=> pc[h] \in Active
    BY <1>2 DEF Active
  <2> QED
    BY <1>1, <2>1, ActiveStays
<1>5. Reported'
  BY <1>1, <1>2, DomainIsRuns DEF Reported, backend
<1>6. RunsAgainOnlyIfExcused' /\ Flags' /\ Sets' /\ Procs' /\ Counts'
  BY <1>1 DEF RunsAgainOnlyIfExcused, Flags, Sets, Procs, Counts, backend
<1> QED
  BY <1>2, <1>3, <1>4, <1>5, <1>6

LEMMA ReleaseKeeps == ASSUME Inv, NEW g \in Runs, Release(g) PROVE Inv'
<1> USE DEF Inv, Types
<1>0. "release" \in Points \ {"none"} /\ "gone" \in Points \ {"none"}
  BY DEF Points, Slot
<1>1. /\ Goto(g, "release", "gone") /\ sem' = sem - 1
      /\ UNCHANGED <<enabled, accepting, todo, active, job, proc, expired, backend, toggles>>
  BY DEF Release
<1>2. /\ Jobs' /\ pc[g] = "release" /\ pc'[g] = "gone"
      /\ \A h \in Runs \ {g} : pc'[h] = pc[h]
  BY <1>0, <1>1, GotoKeeps
<1>3. Pool'
  BY <1>1, <1>2, PoolShrinks DEF Slot
<1>4. ActiveIsExact' /\ OneExecution'
  <2>1. \A h \in Runs : pc'[h] \in Active <=> pc[h] \in Active
    BY <1>2 DEF Active
  <2> QED
    BY <1>1, <2>1, ActiveStays
<1>5. Reported'
  BY <1>1, <1>2, DomainIsRuns DEF Reported, backend
<1>6. RunsAgainOnlyIfExcused' /\ Flags' /\ Sets' /\ Procs' /\ Counts'
  BY <1>1 DEF RunsAgainOnlyIfExcused, Flags, Sets, Procs, Counts, backend
<1> QED
  BY <1>2, <1>3, <1>4, <1>5, <1>6

-----------------------------------------------------------------------------
LEMMA Inductive == Inv /\ [Next]_vars => Inv'
<1> SUFFICES ASSUME Inv, [Next]_vars PROVE Inv'
  OBVIOUS
<1>0. Types
  BY DEF Inv
<1>1. CASE Answer
  <2>1. todo' \subseteq Tasks \ known /\ Flags' /\ Procs' /\ toggles' \in 0..MaxToggles
    BY <1>0, <1>1 DEF Answer, Types, Flags, Procs, Counts
  <2> QED
    BY <1>1, <2>1, Aside DEF Answer
<1>2. CASE SetEnabled
  <2>1. Flags' /\ Procs'
    BY <1>0, <1>2 DEF SetEnabled, Types, Flags, Procs
  <2>2. toggles' \in 0..MaxToggles
    BY <1>0, <1>2, ExecutorAssumption DEF SetEnabled, Types, Counts
  <2> QED
    BY <1>2, <2>1, <2>2, Aside DEF SetEnabled
<1>3. ASSUME NEW t \in Tasks, Reject(t) PROVE Inv'
  BY <1>3, RejectKeeps
<1>4. ASSUME NEW t \in Tasks, Skip(t) PROVE Inv'
  <2>1. Flags' /\ Procs' /\ toggles' \in 0..MaxToggles
    BY <1>0, <1>4 DEF Skip, Types, Flags, Procs, Counts
  <2> QED
    BY <1>4, <2>1, Aside DEF Skip
<1>5. ASSUME NEW t \in Tasks, Accept(t) PROVE Inv'
  BY <1>5, AcceptKeeps
<1>6. ASSUME NEW g \in Runs, Acquire(g) PROVE Inv'
  BY <1>6, AcquireKeeps
<1>7. ASSUME NEW g \in Runs, Prepare(g) PROVE Inv'
  <2>1. Procs'
    BY <1>0, <1>7 DEF Prepare, Types, Procs
  <2>2. CASE Goto(g, "begin", "announce")
    BY <1>7, <2>1, <2>2, PlainStep DEF Prepare, Points, Slot, Active
  <2>3. CASE Goto(g, "begin", "final")
    BY <1>7, <2>1, <2>3, PlainStep DEF Prepare, Points, Slot, Active
  <2>4. CASE Goto(g, "announce", "exec")
    BY <1>7, <2>1, <2>4, PlainStep DEF Prepare, Points, Slot, Active
  <2>5. CASE Goto(g, "exec", "final")
    BY <1>7, <2>1, <2>5, PlainStep DEF Prepare, Points, Slot, Active
  <2> QED
    BY <1>7, <2>2, <2>3, <2>4, <2>5 DEF Prepare
<1>8. ASSUME NEW g \in Runs, StartProcess(g) PROVE Inv'
  <2>1. Procs'
    BY <1>0, <1>8 DEF StartProcess, Types, Procs
  <2> QED
    BY <1>8, <2>1, PlainStep DEF StartProcess, Points, Slot, Active
<1>9. ASSUME NEW g \in Runs, OutputEnds(g) PROVE Inv'
  <2>1. Procs'
    BY <1>0, <1>9 DEF OutputEnds, Types, Procs
  <2> QED
    BY <1>9, <2>1, PlainStep DEF OutputEnds, Points, Slot, Active
<1>10. ASSUME NEW g \in Runs, Final(g) PROVE Inv'
  BY <1>10, FinalKeeps
<1>11. ASSUME NEW g \in Runs, finishTask(g) PROVE Inv'
  BY <1>11, finishTaskKeeps
<1>12. ASSUME NEW g \in Runs, Release(g) PROVE Inv'
  BY <1>12, ReleaseKeeps
<1>13. ASSUME NEW g \in Runs, Timeout(g) \/ ProcessEnds(g) \/ HolderEnds(g) PROVE Inv'
  <2>1. Procs' /\ Flags' /\ toggles' \in 0..MaxToggles
    BY <1>0, <1>13 DEF Timeout, ProcessEnds, HolderEnds, Types, Procs, Flags, Counts
  <2> QED
    BY <1>13, <2>1, Aside DEF Timeout, ProcessEnds, HolderEnds
<1>14. CASE UNCHANGED vars
  <2>1. Procs' /\ Flags' /\ toggles' \in 0..MaxToggles
    BY <1>0, <1>14 DEF vars, Types, Procs, Flags, Counts
  <2> QED
    BY <1>14, <2>1, Aside DEF vars
<1> QED
  BY <1>1, <1>2, <1>3, <1>4, <1>5, <1>6, <1>7, <1>8, <1>9, <1>10, <1>11, <1>12, <1>13,
     <1>14 DEF Next, RunStep

LEMMA InvAlways == Spec => []Inv
<1>1. Init => Inv
  <2> SUFFICES ASSUME Init PROVE Inv
    OBVIOUS
  <2>1. Flags /\ Sets /\ Procs
    BY DEF Init, Flags, Sets, Procs
  <2>2. Counts
    BY ExecutorAssumption DEF Init, Counts
  <2>3. job = <<>> /\ Len(job) = 0 /\ DOMAIN job = {} /\ job \in Seq(Tasks)
    BY DEF Init
  <2>4. Jobs
    BY <2>3, ExecutorAssumption DEF Init, Jobs, Points, Runs
  <2>5. Holders = {}
    BY DEF Init, Holders, Slot
  <2>6. Pool
    BY <2>5, FS_EmptySet, ExecutorAssumption DEF Init, Pool
  <2>7. ActiveIsExact /\ OneExecution /\ Reported /\ RunsAgainOnlyIfExcused
    BY <2>3 DEF Init, ActiveIsExact, OneExecution, Reported, RunsAgainOnlyIfExcused
  <2> QED
    BY <2>1, <2>2, <2>4, <2>6, <2>7 DEF Inv, Types
<1> QED
  BY <1>1, Inductive, PTL DEF Spec

\* The types, and a semaphore that counts the goroutines which hold a slot, of
\* which there never are more than MaxWorkers.
THEOREM Typing == Spec => []TypeOK
<1>1. Inv => TypeOK
  BY DEF Inv, Types, Flags, Sets, Jobs, Procs, Pool, Holders, Counts, TypeOK
<1> QED
  BY <1>1, InvAlways, PTL

\* However often the backend lists a task, it is executed once at a time.
THEOREM Single == Spec => []OneExecution
<1>1. Inv => OneExecution
  BY DEF Inv
<1> QED
  BY <1>1, InvAlways, PTL

\* activeTasks has an entry for each task under way, and leaves none behind.
THEOREM Exact == Spec => []ActiveIsExact
<1>1. Inv => ActiveIsExact
  BY DEF Inv
<1> QED
  BY <1>1, InvAlways, PTL

\* A second execution is one the backend could not know to be needless.
THEOREM Again == Spec => []RunsAgainOnlyIfExcused
<1>1. Inv => RunsAgainOnlyIfExcused
  BY DEF Inv
<1> QED
  BY <1>1, InvAlways, PTL

-----------------------------------------------------------------------------
(* Upgrades: types                                                         *)

Stages == {"idle", "query", "write", "rename", "replace", "moveIn", "restart"}
States == [exec : BOOLEAN, target : Versions, fresh : BOOLEAN]
Host ==
  /\ env \in [windows : BOOLEAN, canRestart : BOOLEAN, autoUpdate : BOOLEAN]
  /\ latest \in Versions \ {0}
Disk  == bin \in Versions /\ old \in Versions
Image == image \in {"bin", "old", "stranded"} /\ run \in Versions
Phase == phase \in {"down", "check", "clean", "up"}
Upgrades ==
  /\ point \in [Actors -> Stages] /\ want \in [Actors -> Versions]
  /\ phase # "up" => \A a \in Actors : point[a] = "idle"
StateFiles == file \in States /\ tmp \in States
Answered ==
  /\ task \in {"none", "asked", "started", "success", "failed"}
  /\ accident \in BOOLEAN /\ faults \in 0..MaxFaults

UpgradeTypes == Host /\ Disk /\ Image /\ Phase /\ Upgrades /\ StateFiles /\ Answered

LEMMA UpgradeTypeParts == UpgradeTypeOK <=> UpgradeTypes
  BY DEF UpgradeTypes, UpgradeTypeOK, Host, Disk, Image, Phase, Upgrades, StateFiles, Answered,
         Stages, States

LEMMA NoFileIsState == NoFile \in States
  BY UpgradeAssumption DEF NoFile, States, Versions

LEMMA AtMoves ==
  ASSUME Upgrades, NEW a \in Actors, NEW from \in Stages, NEW to \in Stages,
         from # "idle", At(a, from, to), UNCHANGED phase, want' \in [Actors -> Versions]
  PROVE  /\ Upgrades' /\ phase = "up" /\ point[a] = from
         /\ \A b \in Actors : point'[b] = IF b = a THEN to ELSE point[b]
<1>1. phase = "up" /\ point[a] = from
  BY DEF Upgrades, At
<1>2. /\ point' \in [Actors -> Stages]
      /\ \A b \in Actors : point'[b] = IF b = a THEN to ELSE point[b]
  BY DEF Upgrades, At
<1> QED
  BY <1>1, <1>2 DEF Upgrades

\* The answer gets through, or an accident has befallen the task.
LEMMA AnswerIsOne ==
  ASSUME Answered, NEW result \in {"success", "failed"}, AnswerTask(result)
  PROVE  /\ Answered' /\ (accident => accident')
         /\ task' = result \/ (accident' /\ UNCHANGED task)
<1>1. CASE task' = result /\ UNCHANGED <<accident, faults>>
  BY <1>1 DEF Answered
<1>2. CASE faults < MaxFaults /\ faults' = faults + 1 /\ accident' = TRUE /\ UNCHANGED task
  BY <1>2, UpgradeAssumption DEF Answered
<1> QED
  BY <1>1, <1>2 DEF AnswerTask

LEMMA FailIsOne ==
  ASSUME Answered, Upgrades, NEW a \in Actors, NEW from \in Stages, from # "idle",
         Fail(a, from), UNCHANGED <<phase, want>>, NEW c \in BOOLEAN,
         accident' = (accident \/ c)
  PROVE  /\ Answered' /\ Upgrades' /\ phase = "up" /\ point[a] = from
         /\ \A b \in Actors : point'[b] = IF b = a THEN "idle" ELSE point[b]
         /\ accident => accident'
         /\ a = "auto" => UNCHANGED task
         /\ task' = "failed" \/ UNCHANGED task
<1>1. "idle" \in Stages /\ At(a, from, "idle") /\ want' \in [Actors -> Versions]
  BY DEF Stages, Fail, Upgrades
<1>2. accident' \in BOOLEAN /\ (accident => accident')
  BY Zenon DEF Answered
<1>3. task' \in IF a = "task" THEN {task, "failed"} ELSE {task}
  BY DEF Fail
<1>4. faults' \in 0..MaxFaults
  BY UpgradeAssumption DEF Fail, Answered
<1> QED
  BY <1>1, <1>2, <1>3, <1>4, AtMoves DEF Answered

LEMMA AgentEndsTypes ==
  ASSUME UpgradeTypes, AgentEnds
  PROVE  /\ Image' /\ Phase' /\ Upgrades' /\ Host' /\ Disk' /\ StateFiles'
         /\ accident' \in BOOLEAN /\ UNCHANGED task
<1> USE DEF UpgradeTypes
<1>1. accident' \in BOOLEAN
  BY Zenon DEF AgentEnds, Answered
<1>2. Image'
  BY UpgradeAssumption DEF AgentEnds, Image, Versions
<1>3. Upgrades'
  BY DEF AgentEnds, Upgrades, Stages
<1> QED
  BY <1>1, <1>2, <1>3 DEF AgentEnds, Phase, Host, Disk, StateFiles, files

(* Every variable keeps its type, and nobody upgrades before the boot check is over. *)
THEOREM UpgradeTyping == UpgradeSpec => []UpgradeTypeOK
<1> USE DEF UpgradeTypes
<1>1. UpgradeInit => UpgradeTypes
  <2> SUFFICES ASSUME UpgradeInit PROVE UpgradeTypes
    OBVIOUS
  <2>1. 0 \in Versions /\ 1 \in Versions \ {0} /\ 1..MaxVersion \subseteq Versions \ {0}
        /\ 0 \in 0..MaxFaults /\ "idle" \in Stages
    BY UpgradeAssumption DEF Versions, Stages
  <2>2. Host /\ Disk /\ Image /\ Phase /\ StateFiles
    BY <2>1, NoFileIsState DEF UpgradeInit, Host, Disk, Image, Phase, StateFiles
  <2>3. Upgrades
    BY <2>1 DEF UpgradeInit, Upgrades
  <2>4. accident \in BOOLEAN
    BY Zenon DEF UpgradeInit
  <2>5. Answered
    BY <2>1, <2>4 DEF UpgradeInit, Answered
  <2> QED
    BY <2>2, <2>3, <2>5
<1>2. UpgradeTypes /\ [UpgradeNext]_upgradeVars => UpgradeTypes'
  <2> SUFFICES ASSUME UpgradeTypes, [UpgradeNext]_upgradeVars PROVE UpgradeTypes'
    OBVIOUS
  <2>0. /\ Host /\ Disk /\ Image /\ Phase /\ Upgrades /\ StateFiles /\ Answered
        /\ \A a \in Actors : want[a] \in Versions
        /\ Stages = {"idle", "query", "write", "rename", "replace", "moveIn", "restart"}
    BY DEF Upgrades, Stages
  <2>1. CASE Start
    BY <2>0, <2>1 DEF Start, Host, Disk, Image, Phase, Upgrades, StateFiles, Answered, files
  <2>2. CASE checkUpgradeResult
    <3>1. Answered'
      BY <2>0, <2>2, AnswerIsOne DEF checkUpgradeResult, Answered
    <3>2. Host' /\ Disk' /\ Image' /\ Phase' /\ Upgrades' /\ StateFiles'
      BY <2>0, <2>2 DEF checkUpgradeResult, Host, Disk, Image, Phase, Upgrades, StateFiles, files
    <3> QED
      BY <3>1, <3>2
  <2>3. CASE RemoveUpgradeState
    BY <2>0, <2>3, NoFileIsState
    DEF RemoveUpgradeState, Host, Disk, Image, Phase, Upgrades, StateFiles, Answered
  <2>4. CASE Crash
    <3>1. faults' \in 0..MaxFaults
      BY <2>0, <2>4, UpgradeAssumption DEF Crash, Answered
    <3> QED
      BY <2>0, <2>4, <3>1, AgentEndsTypes DEF Crash, Answered
  <2>5. CASE AcceptTask
    <3>1. Upgrades'
      BY <2>0, <2>5 DEF AcceptTask, At, Upgrades, Actors
    <3> QED
      BY <2>0, <2>5, <3>1
      DEF AcceptTask, Host, Disk, Image, Phase, StateFiles, Answered, files
  <2>6. CASE AutoCheck
    <3>1. Upgrades'
      BY <2>0, <2>6 DEF AutoCheck, At, Upgrades, Actors
    <3> QED
      BY <2>0, <2>6, <3>1
      DEF AutoCheck, Host, Disk, Image, Phase, StateFiles, Answered, files
  <2>7. ASSUME NEW a \in Actors, Step(a) PROVE UpgradeTypes'
    <3>1. CASE CheckGitHubLatest(a)
      <4>1. Host' /\ Disk' /\ Image' /\ Phase' /\ StateFiles' /\ UNCHANGED phase
        BY <2>0, <3>1 DEF CheckGitHubLatest, Host, Disk, Image, Phase, StateFiles, files
      <4>2. CASE /\ At(a, "query", "write") /\ want' = [want EXCEPT ![a] = latest]
                 /\ UNCHANGED <<task, accident, faults>>
        <5>1. want' \in [Actors -> Versions]
          BY <2>0, <4>2 DEF Upgrades, Host
        <5> QED
          BY <2>0, <4>1, <4>2, <5>1, AtMoves DEF Answered
      <4>3. CASE /\ At(a, "query", "idle") /\ UNCHANGED want
                 /\ IF a = "task" THEN AnswerTask("success")
                    ELSE UNCHANGED <<task, accident, faults>>
        <5>1. Answered'
          BY <2>0, <4>3, AnswerIsOne DEF Answered
        <5>2. Upgrades'
          BY <2>0, <4>1, <4>3, AtMoves DEF Upgrades
        <5> QED
          BY <4>1, <5>1, <5>2
      <4>4. CASE /\ Fail(a, "query") /\ UNCHANGED want
                 /\ accident' = (accident \/ (a = "task" /\ task' = task))
        BY <2>0, <4>1, <4>4, FailIsOne
      <4> QED
        BY <3>1, <4>2, <4>3, <4>4 DEF CheckGitHubLatest
    <3>2. CASE WriteTemporary(a)
      <4>1. /\ Host' /\ Disk' /\ Image' /\ Phase' /\ UNCHANGED <<phase, want, file>>
            /\ want' \in [Actors -> Versions]
        BY <2>0, <3>2 DEF WriteTemporary, Host, Disk, Image, Phase, Upgrades
      <4>2. CASE /\ At(a, "write", "rename") /\ UNCHANGED <<task, accident, faults>>
                 /\ tmp' = [exec |-> a = "task", target |-> want[a], fresh |-> TRUE]
        <5>1. StateFiles'
          BY <2>0, <4>1, <4>2 DEF StateFiles, States
        <5> QED
          BY <2>0, <4>1, <4>2, <5>1, AtMoves DEF Answered
      <4>3. CASE /\ Fail(a, "write") /\ UNCHANGED tmp
                 /\ accident' = (accident \/ (a = "task" /\ task' = task))
        BY <2>0, <4>1, <4>3, FailIsOne DEF StateFiles
      <4> QED
        BY <3>2, <4>2, <4>3 DEF WriteTemporary
    <3>3. CASE RenameTemporary(a)
      <4>1. /\ Host' /\ Disk' /\ Image' /\ Phase' /\ UNCHANGED <<phase, want>>
            /\ want' \in [Actors -> Versions]
        BY <2>0, <3>3 DEF RenameTemporary, Host, Disk, Image, Phase, Upgrades
      <4>2. CASE /\ At(a, "rename", "replace") /\ file' = tmp /\ tmp' = NoFile
                 /\ accident' = (accident \/ (~tmp.exec /\ (file.exec \/ a = "task")))
                 /\ UNCHANGED <<task, faults>>
        <5>1. StateFiles'
          BY <2>0, <4>2, NoFileIsState DEF StateFiles
        <5>2. accident' \in BOOLEAN
          BY <2>0, <4>2, Zenon DEF Answered
        <5> QED
          BY <2>0, <4>1, <4>2, <5>1, <5>2, AtMoves DEF Answered
      <4>3. CASE /\ At(a, "rename", "idle") /\ UNCHANGED files
                 /\ IF a = "task" THEN AnswerTask("failed")
                    ELSE UNCHANGED <<task, accident, faults>>
        <5>1. Answered'
          BY <2>0, <4>3, AnswerIsOne DEF Answered
        <5>2. Upgrades' /\ StateFiles'
          BY <2>0, <4>1, <4>3, AtMoves DEF Upgrades, StateFiles, files
        <5> QED
          BY <4>1, <5>1, <5>2
      <4>4. CASE /\ Fail(a, "rename") /\ tmp' = NoFile /\ UNCHANGED file
                 /\ accident' = (accident \/ (a = "task" /\ task' = task))
        BY <2>0, <4>1, <4>4, FailIsOne, NoFileIsState DEF StateFiles
      <4> QED
        BY <3>3, <4>2, <4>3, <4>4 DEF RenameTemporary
    <3>4. ASSUME NEW from \in {"replace", "moveIn"}, UpgradeFails(a, from),
                 UNCHANGED <<phase, want>>
          PROVE  Answered' /\ Upgrades' /\ StateFiles'
      <4>1. Fail(a, from) /\ from \in Stages /\ from # "idle"
        BY <2>0, <3>4 DEF UpgradeFails
      <4>2. /\ (IF a = "task" THEN task' = task ELSE file.exec) \in BOOLEAN
            /\ accident' = (accident \/ (IF a = "task" THEN task' = task ELSE file.exec))
        BY <2>0, <3>4 DEF UpgradeFails, StateFiles, States
      <4> QED
        BY <2>0, <3>4, <4>1, <4>2, FailIsOne, NoFileIsState DEF UpgradeFails, StateFiles
    <3>5. CASE Rename(a)
      <4>1. /\ Host' /\ Image' /\ Phase' /\ UNCHANGED <<phase, want, old>>
            /\ want' \in [Actors -> Versions]
        BY <2>0, <3>5 DEF Rename, Host, Image, Phase, Upgrades
      <4>2. Disk'
        BY <2>0, <3>5 DEF Rename, Disk
      <4>3. CASE At(a, "replace", "restart") /\ UNCHANGED <<files, task, accident, faults>>
        BY <2>0, <4>1, <4>2, <4>3, AtMoves DEF Answered, StateFiles, files
      <4> QED
        BY <3>4, <3>5, <4>1, <4>2, <4>3 DEF Rename
    <3>6. CASE MoveAway(a)
      <4>1. /\ Host' /\ Phase' /\ UNCHANGED <<phase, want, run>>
            /\ want' \in [Actors -> Versions]
        BY <2>0, <3>6 DEF MoveAway, Host, Phase, Upgrades
      <4>2. Disk' /\ Image'
        BY <2>0, <3>6, UpgradeAssumption DEF MoveAway, Disk, Image, Versions
      <4>3. CASE At(a, "replace", "moveIn") /\ UNCHANGED <<files, task, accident, faults>>
        BY <2>0, <4>1, <4>2, <4>3, AtMoves DEF Answered, StateFiles, files
      <4> QED
        BY <3>4, <3>6, <4>1, <4>2, <4>3 DEF MoveAway
    <3>7. CASE MoveBlocked(a)
      <4>1. /\ Host' /\ Phase' /\ Disk' /\ Image' /\ UNCHANGED <<phase, want, tmp>>
            /\ want' \in [Actors -> Versions]
        BY <2>0, <3>7 DEF MoveBlocked, Host, Phase, Disk, Image, Upgrades
      <4>2. Upgrades' /\ StateFiles'
        BY <2>0, <3>7, <4>1, AtMoves, NoFileIsState DEF MoveBlocked, StateFiles
      <4>3. CASE a = "task"
        BY <2>0, <3>7, <4>1, <4>2, <4>3, AnswerIsOne DEF MoveBlocked
      <4>4. CASE a # "task"
        <5>1. accident' \in BOOLEAN
          BY <2>0, <3>7, <4>4, Zenon DEF MoveBlocked, Answered
        <5> QED
          BY <2>0, <3>7, <4>1, <4>2, <4>4, <5>1 DEF MoveBlocked, Answered
      <4> QED
        BY <4>3, <4>4
    <3>8. CASE MoveIn(a)
      <4>1. /\ Host' /\ Phase' /\ UNCHANGED <<phase, want, run>>
            /\ want' \in [Actors -> Versions]
        BY <2>0, <3>8 DEF MoveIn, Host, Phase, Upgrades
      <4>2. Disk' /\ Image'
        BY <2>0, <3>8, UpgradeAssumption DEF MoveIn, Disk, Image, Versions
      <4>3. CASE At(a, "moveIn", "restart") /\ UNCHANGED <<files, task, accident, faults>>
        BY <2>0, <4>1, <4>2, <4>3, AtMoves DEF Answered, StateFiles, files
      <4>4. CASE UpgradeFails(a, "moveIn")
        BY <3>4, <4>1, <4>2, <4>4
      <4> QED
        BY <3>8, <4>3, <4>4 DEF MoveIn
    <3>9. CASE TriggerRestart(a)
      <4>1. CASE AgentEnds /\ UNCHANGED faults
        BY <2>0, <4>1, AgentEndsTypes DEF Answered
      <4>2. CASE /\ At(a, "restart", "idle")
                 /\ UNCHANGED <<env, latest, bin, old, image, run, phase, want, files,
                                task, accident>>
                 /\ faults' = faults \/ (faults < MaxFaults /\ faults' = faults + 1)
        <5>1. Upgrades' /\ faults' \in 0..MaxFaults
          BY <2>0, <4>2, AtMoves, UpgradeAssumption DEF Upgrades, Answered
        <5> QED
          BY <2>0, <4>2, <5>1 DEF Host, Disk, Image, Phase, StateFiles, Answered, files
      <4> QED
        BY <3>9, <4>1, <4>2 DEF TriggerRestart
    <3> QED
      BY <2>7, <3>1, <3>2, <3>3, <3>5, <3>6, <3>7, <3>8, <3>9 DEF Step
  <2>8. CASE AskTask
    BY <2>0, <2>8 DEF AskTask, Host, Disk, Image, Phase, Upgrades, StateFiles, Answered, files
  <2>9. CASE NewRelease
    <3>1. latest' \in Versions \ {0}
      BY <2>0, <2>9, UpgradeAssumption DEF NewRelease, Host, Versions
    <3> QED
      BY <2>0, <2>9, <3>1
      DEF NewRelease, Host, Disk, Image, Phase, Upgrades, StateFiles, Answered, files
  <2>10. CASE FileExpires
    <3>1. file' \in States
      BY <2>0, <2>10 DEF FileExpires, StateFiles, States
    <3> QED
      BY <2>0, <2>10, <3>1
      DEF FileExpires, Host, Disk, Image, Phase, Upgrades, StateFiles, Answered
  <2>11. CASE UNCHANGED upgradeVars
    BY <2>0, <2>11
    DEF upgradeVars, Host, Disk, Image, Phase, Upgrades, StateFiles, Answered, files
  <2> QED
    BY <2>1, <2>2, <2>3, <2>4, <2>5, <2>6, <2>7, <2>8, <2>9, <2>10, <2>11
    DEF UpgradeNext, Boot
<1> QED
  BY <1>1, <1>2, UpgradeTypeParts, PTL DEF UpgradeSpec

-----------------------------------------------------------------------------
(* Upgrades: the binary                                                    *)

\* an upgrade that knows what to install
Chosen == {"write", "rename", "replace", "moveIn", "restart"}

\* Only one upgrade is between its two renames, and ".old" is what it can go
\* back to.
Swapping ==
  /\ \A a \in Actors : point[a] \in Chosen => want[a] # 0
  /\ \A a \in Actors : point[a] = "moveIn" =>
       image = "old" /\ old # 0 /\ \A b \in Actors \ {a} : point[b] # "moveIn"

\* A step that touches neither the binaries nor what is being swapped.
LEMMA SwapKept ==
  ASSUME Swapping, BinaryUnlessSwapped, UNCHANGED <<bin, old, image, want>>,
         \A b \in Actors : /\ point'[b] = "moveIn" <=> point[b] = "moveIn"
                           /\ point'[b] \in Chosen => point[b] \in Chosen,
         phase # "down" \/ phase' = "down" \/ bin # 0
  PROVE  Swapping' /\ BinaryUnlessSwapped'
<1>1. \A a \in Actors : point'[a] \in Chosen => want'[a] # 0
  BY DEF Swapping
<1>2. \A a \in Actors : point'[a] = "moveIn" =>
        image' = "old" /\ old' # 0 /\ \A b \in Actors \ {a} : point'[b] # "moveIn"
  BY DEF Swapping
<1>3. BinaryUnlessSwapped'
  BY DEF BinaryUnlessSwapped
<1> QED
  BY <1>1, <1>2, <1>3 DEF Swapping

\* An upgrade moves on, or fails, before or after the swap.
LEMMA SwapMoves ==
  ASSUME UpgradeTypes, Swapping, BinaryUnlessSwapped, NEW a \in Actors,
         NEW from \in Stages \ {"idle", "moveIn"}, NEW to \in Stages \ {"moveIn"},
         At(a, from, to), from \in Chosen \/ to \notin Chosen,
         UNCHANGED <<phase, bin, old, image, want>>
  PROVE  Swapping' /\ BinaryUnlessSwapped'
<1>1. /\ phase = "up" /\ point[a] = from
      /\ \A b \in Actors : point'[b] = IF b = a THEN to ELSE point[b]
  BY AtMoves DEF UpgradeTypes, Upgrades
<1> QED
  BY <1>1, SwapKept

LEMMA SwapEnds ==
  ASSUME Swapping, AgentEnds
  PROVE  Swapping' /\ BinaryUnlessSwapped'
  BY DEF AgentEnds, Swapping, BinaryUnlessSwapped, Chosen

LEMMA SwapStep ==
  ASSUME UpgradeTypes, Swapping, BinaryUnlessSwapped, NEW a \in Actors, Step(a)
  PROVE  Swapping' /\ BinaryUnlessSwapped'
<1>0. /\ Stages = {"idle", "query", "write", "rename", "replace", "moveIn", "restart"}
      /\ Upgrades /\ Host /\ latest # 0
  BY DEF UpgradeTypes, Host, Stages
<1>1. CASE CheckGitHubLatest(a)
  <2>1. CASE At(a, "query", "write") /\ want' = [want EXCEPT ![a] = latest]
    <3>1. /\ want' \in [Actors -> Versions] /\ UNCHANGED <<phase, bin, old, image>>
          /\ \A b \in Actors : want'[b] = IF b = a THEN latest ELSE want[b]
      BY <1>0, <1>1, <2>1 DEF CheckGitHubLatest, Upgrades, Host
    <3>2. /\ phase = "up" /\ point[a] = "query"
          /\ \A b \in Actors : point'[b] = IF b = a THEN "write" ELSE point[b]
      BY <1>0, <2>1, <3>1, AtMoves
    <3> QED
      BY <1>0, <3>1, <3>2 DEF Swapping, BinaryUnlessSwapped
  <2>2. CASE At(a, "query", "idle") /\ UNCHANGED want
    BY <1>0, <1>1, <2>2, SwapMoves DEF CheckGitHubLatest, Chosen
  <2> QED
    BY <1>1, <2>1, <2>2 DEF CheckGitHubLatest, Fail
<1>2. CASE WriteTemporary(a)
  BY <1>0, <1>2, SwapMoves DEF WriteTemporary, Fail, Chosen
<1>3. CASE RenameTemporary(a)
  BY <1>0, <1>3, SwapMoves DEF RenameTemporary, Fail, Chosen
<1>4. CASE Rename(a)
  <2>1. PICK to \in {"restart", "idle"} : At(a, "replace", to)
    BY <1>4 DEF Rename, UpgradeFails, Fail
  <2>2. UNCHANGED <<old, image, phase, want>> /\ bin' \in {bin, want[a]}
    BY <1>4 DEF Rename
  <2>3. /\ phase = "up" /\ point[a] = "replace"
        /\ \A b \in Actors : point'[b] = IF b = a THEN to ELSE point[b]
    BY <1>0, <2>1, <2>2, AtMoves DEF Upgrades
  <2>4. want[a] # 0
    BY <2>3 DEF Swapping, Chosen
  <2> QED
    BY <2>2, <2>3, <2>4 DEF Swapping, BinaryUnlessSwapped, Chosen
<1>5. CASE MoveAway(a)
  <2>1. CASE /\ At(a, "replace", "moveIn") /\ image = "bin"
             /\ old' = bin /\ bin' = 0 /\ image' = "old"
    <3>1. /\ phase = "up" /\ point[a] = "replace" /\ UNCHANGED <<phase, want>>
          /\ \A b \in Actors : point'[b] = IF b = a THEN "moveIn" ELSE point[b]
      BY <1>0, <1>5, <2>1, AtMoves DEF MoveAway, Upgrades
    <3>2. (\A b \in Actors : point[b] # "moveIn") /\ bin # 0
      BY <2>1, <3>1 DEF Swapping, BinaryUnlessSwapped
    <3> QED
      BY <2>1, <3>1, <3>2 DEF Swapping, BinaryUnlessSwapped, Chosen
  <2>2. CASE UpgradeFails(a, "replace") /\ UNCHANGED <<bin, old, image>>
    BY <1>0, <1>5, <2>2, SwapMoves DEF MoveAway, UpgradeFails, Fail, Chosen
  <2> QED
    BY <1>5, <2>1, <2>2 DEF MoveAway
<1>6. CASE MoveBlocked(a)
  BY <1>0, <1>6, SwapMoves DEF MoveBlocked, Chosen
<1>7. CASE MoveIn(a)
  <2>1. PICK to \in {"restart", "idle"} : At(a, "moveIn", to)
    BY <1>7 DEF MoveIn, UpgradeFails, Fail
  <2>2. UNCHANGED <<phase, want>>
    BY <1>7 DEF MoveIn
  <2>3. /\ phase = "up" /\ point[a] = "moveIn"
        /\ \A b \in Actors : point'[b] = IF b = a THEN to ELSE point[b]
    BY <1>0, <2>1, <2>2, AtMoves DEF Upgrades
  <2>4. /\ want[a] # 0 /\ old # 0 /\ \A b \in Actors : point'[b] # "moveIn"
        /\ \A b \in Actors : point'[b] \in Chosen => want'[b] # 0
    BY <2>2, <2>3 DEF Swapping, Chosen
  <2>5. bin' \in {want[a], old} \/ image' = "stranded"
    BY <1>7 DEF MoveIn
  <2> QED
    BY <2>4, <2>5 DEF Swapping, BinaryUnlessSwapped
<1>8. CASE TriggerRestart(a)
  BY <1>0, <1>8, SwapMoves, SwapEnds DEF TriggerRestart, Chosen
<1> QED
  BY <1>1, <1>2, <1>3, <1>4, <1>5, <1>6, <1>7, <1>8 DEF Step

LEMMA UpgradeTypesKept == UpgradeSpec => []UpgradeTypes
  BY UpgradeTyping, UpgradeTypeParts, PTL

(* Whatever fails, there is a binary to start again, but while a swap is   *)
(* under way, after a crash there, or when a rollback has failed.          *)
THEOREM BinaryStays == UpgradeSpec => []BinaryUnlessSwapped
<1>1. UpgradeInit => Swapping /\ BinaryUnlessSwapped
  BY DEF UpgradeInit, Swapping, BinaryUnlessSwapped, Chosen
<1>2. UpgradeTypes /\ Swapping /\ BinaryUnlessSwapped /\ [UpgradeNext]_upgradeVars
        => Swapping' /\ BinaryUnlessSwapped'
  <2> SUFFICES ASSUME UpgradeTypes, Swapping, BinaryUnlessSwapped,
                      [UpgradeNext]_upgradeVars
               PROVE  Swapping' /\ BinaryUnlessSwapped'
    OBVIOUS
  <2>1. CASE Start
    BY <2>1 DEF Start, Swapping, BinaryUnlessSwapped, UpgradeTypes, Upgrades, Chosen
  <2>2. CASE checkUpgradeResult \/ RemoveUpgradeState
    BY <2>2, SwapKept DEF checkUpgradeResult, RemoveUpgradeState
  <2>3. CASE Crash
    BY <2>3, SwapEnds DEF Crash
  <2>4. ASSUME NEW a \in Actors, At(a, "idle", "query"),
               UNCHANGED <<bin, old, image, phase, want>>, phase = "up"
        PROVE  Swapping' /\ BinaryUnlessSwapped'
    <3>1. \A b \in Actors : point'[b] = IF b = a THEN "query" ELSE point[b]
      BY <2>4 DEF At, UpgradeTypes, Upgrades
    <3> QED
      BY <2>4, <3>1, SwapKept DEF At, Chosen
  <2>5. CASE AcceptTask
    BY <2>4, <2>5 DEF AcceptTask, Actors
  <2>6. CASE AutoCheck
    BY <2>4, <2>6 DEF AutoCheck, Actors
  <2>7. ASSUME NEW a \in Actors, Step(a) PROVE Swapping' /\ BinaryUnlessSwapped'
    BY <2>7, SwapStep
  <2>8. CASE AskTask \/ NewRelease \/ FileExpires \/ UNCHANGED upgradeVars
    <3>1. UNCHANGED <<bin, old, image, want, point, phase>>
      BY <2>8 DEF AskTask, NewRelease, FileExpires, upgradeVars
    <3> QED
      BY <3>1 DEF Swapping, BinaryUnlessSwapped
  <2> QED
    BY <2>1, <2>2, <2>3, <2>5, <2>6, <2>7, <2>8 DEF UpgradeNext, Boot
<1> QED
  BY <1>1, <1>2, UpgradeTypesKept, PTL DEF UpgradeSpec

-----------------------------------------------------------------------------
(* Upgrades: the answer to the task                                        *)

Replacing == {"replace", "moveIn", "restart"}

\* AnswerAccounted looks at the file only when nobody works on the task; that
\* it can, takes that the file is the task's own from its rename on, and that
\* a file about to be removed has been answered.
Owed ==
  /\ AnswerAccounted
  /\ point["task"] \in Replacing => file.exec \/ accident
  /\ phase = "clean" /\ file.exec => task # "started" \/ accident

LEMMA OwedSettled ==
  ASSUME accident' \/ (point'["task"] = "idle" /\ task' # "started")
  PROVE  Owed'
  BY DEF Owed, AnswerAccounted, Replacing

LEMMA OwedWorkedOn ==
  ASSUME point'["task"] # "idle", phase' = "up",
         point'["task"] \in Replacing => file'.exec \/ accident'
  PROVE  Owed'
  BY DEF Owed, AnswerAccounted

LEMMA OwedAside ==
  ASSUME Owed, UNCHANGED <<task, point["task"]>>, accident => accident',
         file.exec => file'.exec \/ accident', phase' # "clean"
  PROVE  Owed'
  BY DEF Owed, AnswerAccounted

LEMMA OwedEnds ==
  ASSUME Owed, AgentEnds
  PROVE  Owed'
<1>1. point'["task"] = "idle" /\ phase' = "down" /\ UNCHANGED <<file, task>>
  BY DEF AgentEnds, files, Actors
<1>2. accident \/ (point["task"] # "idle" /\ ~file.exec) => accident'
  BY Zenon DEF AgentEnds
<1> QED
  BY <1>1, <1>2 DEF Owed, AnswerAccounted, Replacing

\* A failure of the task's upgrade is answered or an accident; one of the
\* other's leaves the task alone.
LEMMA OwedFails ==
  ASSUME UpgradeTypes, Owed, NEW a \in Actors, NEW from \in Stages \ {"idle"},
         Fail(a, from), UNCHANGED <<phase, want>>, NEW c \in BOOLEAN,
         accident' = (accident \/ c), a = "task" /\ task' = task => c,
         a = "auto" => c \/ (file.exec => file'.exec)
  PROVE  Owed'
<1>1. /\ phase = "up" /\ (accident => accident') /\ (a = "auto" => UNCHANGED task)
      /\ task' = "failed" \/ UNCHANGED task
      /\ \A b \in Actors : point'[b] = IF b = a THEN "idle" ELSE point[b]
  BY FailIsOne DEF UpgradeTypes
<1>2. c => accident'
  OBVIOUS
<1>3. CASE a = "task"
  BY <1>1, <1>2, <1>3, OwedSettled DEF Actors
<1>4. CASE a = "auto"
  BY <1>1, <1>2, <1>4, OwedAside DEF Actors
<1> QED
  BY <1>3, <1>4 DEF Actors

\* An answer to the task, and nothing but its own upgrade moves.
LEMMA OwedAnswered ==
  ASSUME UpgradeTypes, NEW from \in Stages \ {"idle"}, NEW result \in {"success", "failed"},
         At("task", from, "idle"), AnswerTask(result), UNCHANGED <<phase, want>>
  PROVE  Owed'
<1>1. "task" \in Actors /\ "idle" \in Stages /\ want' \in [Actors -> Versions]
  BY DEF Actors, Stages, UpgradeTypes, Upgrades
<1>2. point'["task"] = "idle"
  BY <1>1, AtMoves DEF UpgradeTypes
<1>3. task' = result \/ accident'
  BY AnswerIsOne DEF UpgradeTypes
<1> QED
  BY <1>2, <1>3, OwedSettled

\* A move that answers nothing.
LEMMA OwedMoves ==
  ASSUME UpgradeTypes, Owed, NEW a \in Actors, NEW from \in Stages \ {"idle"},
         NEW to \in Stages, a = "task" => to # "idle", At(a, from, to),
         UNCHANGED <<phase, task>>, want' \in [Actors -> Versions],
         accident => accident', file.exec => file'.exec \/ accident',
         a = "task" /\ to \in Replacing /\ from \notin Replacing => file'.exec \/ accident'
  PROVE  Owed'
<1>1. /\ phase = "up" /\ point[a] = from
      /\ \A b \in Actors : point'[b] = IF b = a THEN to ELSE point[b]
  BY AtMoves DEF UpgradeTypes
<1>2. CASE a = "task"
  BY <1>1, <1>2, OwedWorkedOn DEF Owed
<1>3. CASE a = "auto"
  BY <1>1, <1>3, OwedAside DEF Actors
<1> QED
  BY <1>2, <1>3 DEF Actors

LEMMA OwedStep ==
  ASSUME UpgradeTypes, Owed, NEW a \in Actors, Step(a)
  PROVE  Owed'
<1>0. /\ Stages = {"idle", "query", "write", "rename", "replace", "moveIn", "restart"}
      /\ want \in [Actors -> Versions] /\ latest \in Versions
      /\ file.exec \in BOOLEAN /\ tmp.exec \in BOOLEAN /\ accident \in BOOLEAN
  BY DEF UpgradeTypes, Upgrades, Host, Stages, StateFiles, States, Answered
<1>1. CASE CheckGitHubLatest(a)
  <2>1. CASE /\ At(a, "query", "write") /\ want' = [want EXCEPT ![a] = latest]
             /\ UNCHANGED <<task, accident, faults>>
    BY <1>0, <1>1, <2>1, OwedMoves DEF CheckGitHubLatest, Replacing, files
  <2>2. CASE /\ At(a, "query", "idle") /\ UNCHANGED want
             /\ IF a = "task" THEN AnswerTask("success") ELSE UNCHANGED <<task, accident, faults>>
    <3>1. CASE a = "task"
      BY <1>0, <1>1, <2>2, <3>1, OwedAnswered DEF CheckGitHubLatest
    <3>2. CASE a # "task"
      BY <1>0, <1>1, <2>2, <3>2, OwedMoves DEF CheckGitHubLatest, Replacing, files
    <3> QED
      BY <3>1, <3>2
  <2>3. CASE /\ Fail(a, "query") /\ UNCHANGED want
             /\ accident' = (accident \/ (a = "task" /\ task' = task))
    BY <1>0, <1>1, <2>3, OwedFails DEF CheckGitHubLatest, files
  <2> QED
    BY <1>1, <2>1, <2>2, <2>3 DEF CheckGitHubLatest
<1>2. CASE WriteTemporary(a)
  <2>1. CASE At(a, "write", "rename") /\ UNCHANGED <<task, accident, faults>>
    BY <1>0, <1>2, <2>1, OwedMoves DEF WriteTemporary, Replacing
  <2>2. CASE Fail(a, "write") /\ accident' = (accident \/ (a = "task" /\ task' = task))
    BY <1>0, <1>2, <2>2, OwedFails DEF WriteTemporary
  <2> QED
    BY <1>2, <2>1, <2>2 DEF WriteTemporary
<1>3. CASE RenameTemporary(a)
  <2>1. CASE /\ At(a, "rename", "replace") /\ file' = tmp
             /\ accident' = (accident \/ (~tmp.exec /\ (file.exec \/ a = "task")))
             /\ UNCHANGED <<task, faults>>
    BY <1>0, <1>3, <2>1, OwedMoves DEF RenameTemporary, Replacing
  <2>2. CASE /\ At(a, "rename", "idle") /\ UNCHANGED files
             /\ IF a = "task" THEN AnswerTask("failed") ELSE UNCHANGED <<task, accident, faults>>
    <3>1. CASE a = "task"
      BY <1>0, <1>3, <2>2, <3>1, OwedAnswered DEF RenameTemporary
    <3>2. CASE a # "task"
      BY <1>0, <1>3, <2>2, <3>2, OwedMoves DEF RenameTemporary, Replacing, files
    <3> QED
      BY <3>1, <3>2
  <2>3. CASE /\ Fail(a, "rename") /\ UNCHANGED file
             /\ accident' = (accident \/ (a = "task" /\ task' = task))
    BY <1>0, <1>3, <2>3, OwedFails DEF RenameTemporary
  <2> QED
    BY <1>3, <2>1, <2>2, <2>3 DEF RenameTemporary
<1>4. ASSUME NEW from \in {"replace", "moveIn"}, UpgradeFails(a, from),
             UNCHANGED <<phase, want>>
      PROVE  Owed'
  <2>1. /\ (IF a = "task" THEN task' = task ELSE file.exec) \in BOOLEAN
        /\ accident' = (accident \/ (IF a = "task" THEN task' = task ELSE file.exec))
        /\ Fail(a, from) /\ from \in Stages \ {"idle"}
    BY <1>0, <1>4 DEF UpgradeFails
  <2>2. a = "auto" => a # "task"
    OBVIOUS
  <2> DEFINE c == IF a = "task" THEN task' = task ELSE file.exec
  <2>3. c \in BOOLEAN /\ accident' = (accident \/ c)
    BY <2>1
  <2>4. (a = "task" /\ task' = task => c) /\ (a = "auto" => c \/ (file.exec => file'.exec))
    BY <2>2
  <2> HIDE DEF c
  <2> QED
    BY <1>4, <2>1, <2>3, <2>4, OwedFails
<1>5. CASE Rename(a)
  <2>1. CASE At(a, "replace", "restart") /\ UNCHANGED <<files, task, accident, faults>>
    BY <1>0, <1>5, <2>1, OwedMoves DEF Rename, Replacing, files
  <2> QED
    BY <1>4, <1>5, <2>1 DEF Rename
<1>6. CASE MoveAway(a)
  <2>1. CASE At(a, "replace", "moveIn") /\ UNCHANGED <<files, task, accident, faults>>
    BY <1>0, <1>6, <2>1, OwedMoves DEF MoveAway, Replacing, files
  <2> QED
    BY <1>4, <1>6, <2>1 DEF MoveAway
<1>7. CASE MoveBlocked(a)
  <2>1. CASE a = "task"
    BY <1>0, <1>7, <2>1, OwedAnswered DEF MoveBlocked
  <2>2. CASE a # "task"
    <3>1. (accident => accident') /\ (file.exec => accident')
      BY <1>7, <2>2, Zenon DEF MoveBlocked
    <3> QED
      BY <1>0, <1>7, <2>2, <3>1, OwedMoves DEF MoveBlocked, Replacing
  <2> QED
    BY <2>1, <2>2
<1>8. CASE MoveIn(a)
  <2>1. CASE At(a, "moveIn", "restart") /\ UNCHANGED <<files, task, accident, faults>>
    BY <1>0, <1>8, <2>1, OwedMoves DEF MoveIn, Replacing, files
  <2> QED
    BY <1>4, <1>8, <2>1 DEF MoveIn
<1>9. CASE TriggerRestart(a)
  <2>1. CASE AgentEnds
    BY <2>1, OwedEnds
  <2>2. CASE At(a, "restart", "idle") /\ UNCHANGED <<phase, want, files, task, accident>>
    <3>1. /\ phase = "up" /\ point[a] = "restart"
          /\ \A b \in Actors : point'[b] = IF b = a THEN "idle" ELSE point[b]
      BY <1>0, <2>2, AtMoves DEF UpgradeTypes
    <3>2. "task" \in Actors /\ UNCHANGED <<file, task, accident, phase>>
      BY <2>2 DEF Actors, files
    <3> QED
      BY <3>1, <3>2 DEF Owed, AnswerAccounted, Replacing
  <2> QED
    BY <1>9, <2>1, <2>2 DEF TriggerRestart
<1> QED
  BY <1>1, <1>2, <1>3, <1>5, <1>6, <1>7, <1>8, <1>9 DEF Step

(* The task whose upgrade was started gets an answer, is worked on, or has *)
(* its state file for the next process, unless one of the known accidents  *)
(* befell it.                                                              *)
THEOREM AnswerOwed == UpgradeSpec => []AnswerAccounted
<1>1. UpgradeInit => Owed
  BY DEF UpgradeInit, Owed, AnswerAccounted, Replacing, Actors
<1>2. UpgradeTypes /\ Owed /\ [UpgradeNext]_upgradeVars => Owed'
  <2> SUFFICES ASSUME UpgradeTypes, Owed, [UpgradeNext]_upgradeVars PROVE Owed'
    OBVIOUS
  <2>0. "task" \in Actors /\ phase \in {"down", "check", "clean", "up"} /\ NoFile.exec = FALSE
    BY DEF Actors, UpgradeTypes, Phase, NoFile
  <2>1. CASE Start
    BY <2>1, OwedAside DEF Start, files
  <2>2. CASE checkUpgradeResult
    <3>1. point'["task"] = "idle" /\ UNCHANGED <<file, point>> /\ phase' \in {"up", "clean"}
      BY <2>0, <2>2 DEF checkUpgradeResult, UpgradeTypes, Upgrades, files
    <3>2. CASE file.exec
      BY <2>2, <3>1, <3>2, AnswerIsOne, OwedSettled DEF checkUpgradeResult, UpgradeTypes
    <3>3. CASE ~file.exec
      BY <2>2, <3>1, <3>3 DEF checkUpgradeResult, Owed, AnswerAccounted, Replacing
    <3> QED
      BY <3>2, <3>3
  <2>3. CASE RemoveUpgradeState
    <3>1. point'["task"] = "idle"
      BY <2>0, <2>3 DEF RemoveUpgradeState, UpgradeTypes, Upgrades
    <3> QED
      BY <2>0, <2>3, <3>1
      DEF RemoveUpgradeState, Owed, AnswerAccounted, Replacing, UpgradeTypes, Upgrades
  <2>4. CASE Crash
    BY <2>4, OwedEnds DEF Crash
  <2>5. CASE AcceptTask
    <3>1. point'["task"] = "query" /\ phase' = "up"
      BY <2>0, <2>5 DEF AcceptTask, At, UpgradeTypes, Upgrades
    <3> QED
      BY <3>1, OwedWorkedOn DEF Replacing
  <2>6. CASE AutoCheck
    <3>1. UNCHANGED point["task"]
      BY <2>0, <2>6 DEF AutoCheck, At, UpgradeTypes, Upgrades
    <3> QED
      BY <2>6, <3>1, OwedAside DEF AutoCheck, files
  <2>7. ASSUME NEW a \in Actors, Step(a) PROVE Owed'
    BY <2>7, OwedStep
  <2>8. CASE AskTask
    BY <2>8 DEF AskTask, Owed, AnswerAccounted, files
  <2>9. CASE FileExpires
    <3>1. file'.exec = file.exec
      BY <2>9 DEF FileExpires, UpgradeTypes, StateFiles, States
    <3> QED
      BY <2>9, <3>1 DEF FileExpires, Owed, AnswerAccounted
  <2>10. CASE NewRelease \/ UNCHANGED upgradeVars
    BY <2>10 DEF NewRelease, upgradeVars, Owed, AnswerAccounted, files
  <2> QED
    BY <2>1, <2>2, <2>3, <2>4, <2>5, <2>6, <2>7, <2>8, <2>9, <2>10 DEF UpgradeNext, Boot
<1>3. Owed => AnswerAccounted
  BY DEF Owed
<1> QED
  BY <1>1, <1>2, <1>3, UpgradeTypesKept, PTL DEF UpgradeSpec
=============================================================================
