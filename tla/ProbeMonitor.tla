---------------------------- MODULE ProbeMonitor ----------------------------
(***************************************************************************)
(* The probe scheduler, internal/network/monitor.go: the lists of targets  *)
(* the backend dispatches, one goroutine (intervalLoop) per group of       *)
(* targets with the same interval, its aligned ticks, and the probes in    *)
(* flight when a new list arrives.                                         *)
(*                                                                         *)
(* Time is the second of a cycle that is a multiple of every aligned       *)
(* interval; a sleeping loop counts the seconds it has left.  Timers may   *)
(* be late and probes may take any time.  A goroutine is named by the      *)
(* reschedule that started it and by its interval; what its probes measure *)
(* is left out, and the buffer they fill is in module Agent.               *)
(***************************************************************************)
EXTENDS Integers, FiniteSets, Sequences

CONSTANTS
  Targets,         \* target ids
  Lists,           \* target lists: functions from targets to intervals
  Minute,          \* the 60 of the code: the default interval, and the grid
  Cycle,           \* length of the cycle the clock counts
  PoolSize,        \* probePoolSize
  MaxVersions,     \* bound: lists the backend has
  MaxReschedules   \* bound: lists received

ASSUME ProbeMonitorAssumption ==
  /\ IsFiniteSet(Targets)
  /\ \A list \in Lists : list \in [DOMAIN list -> Int] /\ DOMAIN list \subseteq Targets
  /\ Minute \in Nat \ {0} /\ Cycle \in Nat \ {0} /\ PoolSize \in Nat \ {0}
  /\ MaxVersions \in Nat /\ MaxReschedules \in Nat

\* an interval that is not positive counts as a minute
GroupOf(interval) == IF interval <= 0 THEN Minute ELSE interval
Groups == UNION {{GroupOf(list[t]) : t \in DOMAIN list} : list \in Lists}
Members(list, g) == {t \in DOMAIN list : GroupOf(list[t]) = g}

Gens  == 1..MaxReschedules
Loops == Gens \X Groups

VARIABLES
  clock,     \* seconds, modulo Cycle
  service,   \* started by RunWithContext, which cancels the monitor's context
  stopped,   \* the agent was stopped
  lists,     \* the backend's lists so far; a version is a position in it
  version, targets,   \* Monitor.version (0 for ""), Monitor.targets
  gen,       \* calls of stopAllGroups so far: only loops of this one live
  pc,        \* of each intervalLoop; "round" is fireProbes
  members,   \* the targets it was started with
  wait,      \* seconds until its timer fires
  todo, flying    \* targets of its round: not launched, being probed

world   == <<clock, service, stopped, lists>>
config  == <<version, targets, gen>>
control == <<pc, members, wait>>
round   == <<todo, flying>>
vars == <<world, config, control, round>>

NoTargets == [t \in {} |-> 0]
Points == {"none", "round", "wait", "ended"}

Init ==
  /\ clock = 0 /\ service \in BOOLEAN /\ stopped = FALSE /\ lists = <<>>
  /\ version = 0 /\ targets = NoTargets /\ gen = 0
  /\ pc = [k \in Loops |-> "none"] /\ members = [k \in Loops |-> {}]
  /\ wait = [k \in Loops |-> 0]
  /\ todo = [k \in Loops |-> {}] /\ flying = todo

-----------------------------------------------------------------------------
(* The environment: time, the backend's lists, the agent's end.            *)

Tick ==
  /\ clock' = (clock + 1) % Cycle
  /\ wait' = [k \in Loops |-> IF wait[k] > 0 THEN wait[k] - 1 ELSE 0]
  /\ UNCHANGED <<service, stopped, lists, config, pc, members, round>>

NewList(list) ==
  /\ Len(lists) < MaxVersions /\ lists' = Append(lists, list)
  /\ UNCHANGED <<clock, service, stopped, config, control, round>>

Stop ==
  /\ ~stopped /\ stopped' = TRUE
  /\ UNCHANGED <<clock, service, lists, config, control, round>>

-----------------------------------------------------------------------------
(* HandleDispatch, on the agent's goroutine: after a verify or a report.   *)

\* m.ctx is the context of New, which RunWithContext cancels at once
ctxDone == service \/ stopped

CancelledByInterval(k) ==   \* mutation: stopAllGroups spares intervals the
  ctxDone \/ (k[1] # gen /\ Members(targets, k[2]) = {})   \* new list has
Cancelled(k) == ctxDone \/ k[1] # gen

\* stopAllGroups, then one goroutine for each of these intervals
Regroup(list, intervals) ==
  LET starts(k) == k[1] = gen' /\ k[2] \in intervals
  IN  /\ gen < MaxReschedules /\ gen' = gen + 1
      /\ pc' = [k \in Loops |-> IF starts(k) THEN "round" ELSE pc[k]]
      /\ members' = [k \in Loops |-> IF starts(k) THEN Members(list, k[2]) ELSE members[k]]
      /\ UNCHANGED wait

Needed(list) == {g \in Groups : Members(list, g) # {}}

RescheduleMissing(list) ==   \* mutation: an interval that has run is skipped
  Regroup(list, {g \in Needed(list) : \A i \in Gens : pc[<<i, g>>] = "none"})
Reschedule(list) == Regroup(list, Needed(list))

NewestVersion == Len(lists)
Newest == lists[NewestVersion]

\* an answer with targets: to another version, and at times to the same, as
\* long as that leaves (bound) a reschedule for every list to come
TakeTargets ==
  /\ version = NewestVersion => gen + MaxVersions - NewestVersion < MaxReschedules
  /\ version' = NewestVersion /\ targets' = Newest /\ Reschedule(Newest)

\* an answer with the version alone, if that of the agent has the same targets
KeepTargets ==
  /\ version > 0 /\ lists[version] = Newest
  /\ version' = NewestVersion /\ UNCHANGED <<targets, gen, control>>

HandleDispatch ==
  /\ lists # <<>>
  /\ TakeTargets \/ KeepTargets
  /\ UNCHANGED <<world, round>>

-----------------------------------------------------------------------------
(* intervalLoop and fireProbes, one goroutine per group.                   *)

IsAlignable(i) == i > 0 /\ (Minute % i = 0 \/ i % Minute = 0)

\* on a tick this is the present second (its comment says the next tick)
NextAlignedTick(i, now) ==
  IF IsAlignable(i) THEN ((now + i - 1) \div i) * i ELSE now + i

\* before the first round, and when all probes of a round have returned, with
\* a result or an error; there is no wait if the tick is now
Align(k) ==
  /\ pc[k] = "round" /\ todo[k] = {} /\ flying[k] = {}
  /\ pc' = [pc EXCEPT ![k] = "wait"]
  /\ wait' = [wait EXCEPT ![k] = NextAlignedTick(k[2], clock) - clock]
  /\ UNCHANGED <<world, config, members, round>>

\* the locals are gone
Leave(k) ==
  /\ pc[k] = "wait" /\ Cancelled(k)
  /\ pc' = [pc EXCEPT ![k] = "ended"]
  /\ members' = [members EXCEPT ![k] = {}]
  /\ wait' = [wait EXCEPT ![k] = 0]
  /\ UNCHANGED <<world, config, round>>

\* the timer has fired, and ctx is looked at for the last time
Fire(k) ==
  /\ pc[k] = "wait" /\ wait[k] <= 0 /\ ~Cancelled(k)
  /\ pc' = [pc EXCEPT ![k] = "round"]
  /\ todo' = [todo EXCEPT ![k] = members[k]]
  /\ UNCHANGED <<world, config, members, wait, flying>>

\* sem <- struct{}{} and go
Launch(k, t) ==
  /\ t \in todo[k] /\ Cardinality(flying[k]) < PoolSize
  /\ todo' = [todo EXCEPT ![k] = @ \ {t}]
  /\ flying' = [flying EXCEPT ![k] = @ \cup {t}]
  /\ UNCHANGED <<world, config, control>>

\* probeTarget returns; fireProbes takes a result into the buffer, ctx or not
Probed(k, t) ==
  /\ t \in flying[k]
  /\ flying' = [flying EXCEPT ![k] = @ \ {t}]
  /\ UNCHANGED <<world, config, control, todo>>

LoopStep(k) ==
  \/ Align(k) \/ Leave(k) \/ Fire(k)
  \/ \E t \in Targets : Launch(k, t) \/ Probed(k, t)

Next ==
  \/ Tick \/ Stop \/ HandleDispatch
  \/ \E list \in Lists : NewList(list)
  \/ \E k \in Loops : LoopStep(k)

CatchUp == version # NewestVersion /\ HandleDispatch

\* time passes, reports are answered, probes return and goroutines run
Fairness ==
  /\ WF_vars(Tick) /\ WF_vars(CatchUp)
  /\ \A k \in Loops : WF_vars(LoopStep(k))

Spec == Init /\ [][Next]_vars /\ Fairness

-----------------------------------------------------------------------------
\* The state is well-formed; a pool never runs more probes than it has slots.
TypeOK ==
  /\ clock \in 0..(Cycle - 1) /\ service \in BOOLEAN /\ stopped \in BOOLEAN
  /\ lists \in Seq(Lists) /\ Len(lists) <= MaxVersions
  /\ version \in 0..Len(lists) /\ targets \in Lists \cup {NoTargets} /\ gen \in 0..MaxReschedules
  /\ pc \in [Loops -> Points] /\ members \in [Loops -> SUBSET Targets]
  /\ wait \in [Loops -> Int]
  /\ todo \in [Loops -> SUBSET Targets] /\ flying \in [Loops -> SUBSET Targets]
  /\ \A k \in Loops : Cardinality(flying[k]) <= PoolSize

\* The version the agent reports names the list it has: the backend leaves the
\* targets out of its answers on the strength of it, and would otherwise never
\* send them again.
VersionTells == version > 0 => targets = lists[version]

\* The loops that are not cancelled are the list, group by group: each target
\* of the list is in the loop of its interval, no loop has any other target,
\* and there is a loop for each interval of the list.
LoopsAreTheList ==
  \A k \in Loops :
    ~Cancelled(k) => /\ members[k] = Members(targets, k[2])
                     /\ pc[k] \in {"none", "ended"} <=> members[k] = {}

\* No round begins with a target that is not in the list any more, or for an
\* agent that was stopped, whatever the loops of earlier lists are doing.
RoundsAreCurrent ==
  [][\A k \in Loops :
       todo[k] = {} /\ todo'[k] # {} =>
         todo'[k] = Members(targets, k[2]) /\ ~stopped]_vars

\* Every loop of an earlier list ends, asleep or in the middle of a round as
\* it was, and with it the probes of targets that are gone; so does every loop
\* of an agent that was stopped.
EarlierLoopsEnd ==
  \A k \in Loops :
    (pc[k] \in {"round", "wait"} /\ (k[1] # gen \/ ctxDone)) ~> pc[k] = "ended"

\* A target that stays in the backend's list is probed again and again, while
\* the agent is neither stopped nor a service (whose monitor is cancelled
\* before it starts).
KeepsProbing ==
  \A t \in Targets :
    <>[](lists # <<>> /\ t \in DOMAIN Newest /\ ~stopped) =>
      service \/ []<>(\E k \in Loops : k[1] = gen /\ t \in flying[k])
=============================================================================
