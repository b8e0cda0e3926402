------------------------- MODULE ProbeMonitor_proofs -------------------------
(***************************************************************************)
(* What is proved of the probe scheduler, for any targets, lists, pool and *)
(* grid, and any number of lists.                                          *)
(***************************************************************************)
EXTENDS ProbeMonitor, FiniteSetTheorems, TLAPS

WorldTypes ==
  /\ clock \in 0..(Cycle - 1)
  /\ lists \in Seq(Lists) /\ Len(lists) <= MaxVersions
  /\ version \in 0..Len(lists) /\ targets \in Lists \cup {NoTargets}
  /\ gen \in 0..MaxReschedules

LoopTypes ==
  /\ pc \in [Loops -> Points] /\ members \in [Loops -> SUBSET Targets]
  /\ wait \in [Loops -> Int]

RoundTypes ==
  /\ todo \in [Loops -> SUBSET Targets] /\ flying \in [Loops -> SUBSET Targets]
  /\ \A k \in Loops : Cardinality(flying[k]) <= PoolSize

Flags == service \in BOOLEAN /\ stopped \in BOOLEAN

Types == WorldTypes /\ LoopTypes /\ RoundTypes /\ Flags

\* the loops of reschedules to come have not been started
NotYet == \A k \in Loops : k[1] > gen => pc[k] = "none" /\ members[k] = {}

\* a loop has its targets exactly while it lives
LiveHasMembers == \A k \in Loops : pc[k] \in {"none", "ended"} <=> members[k] = {}

\* those of the present one have the targets of their group in the list
Current == \A k \in Loops : k[1] = gen /\ ~ctxDone => members[k] = Members(targets, k[2])

Inv == Types /\ VersionTells /\ NotYet /\ LiveHasMembers /\ Current

-----------------------------------------------------------------------------
LEMMA InLoops ==
  ASSUME NEW k \in Loops
  PROVE  k[1] \in Nat /\ k[1] \in 1..MaxReschedules /\ k[2] \in Groups
  BY ProbeMonitorAssumption DEF Loops, Gens

LEMMA GroupsPositive == Groups \subseteq Nat \ {0}
<1> SUFFICES ASSUME NEW list \in Lists, NEW t \in DOMAIN list
             PROVE  GroupOf(list[t]) \in Nat \ {0}
  BY DEF Groups
<1>1. list[t] \in Int BY ProbeMonitorAssumption
<1>2. Minute \in Nat \ {0} BY ProbeMonitorAssumption
<1> QED BY <1>1, <1>2 DEF GroupOf

LEMMA MembersAreTargets ==
  ASSUME NEW list \in Lists \cup {NoTargets}, NEW g
  PROVE  Members(list, g) \subseteq Targets
  BY ProbeMonitorAssumption DEF Members, NoTargets

\* The next tick of a positive interval is a number.
LEMMA TickIsNumber ==
  ASSUME NEW i \in Nat \ {0}, NEW now \in Nat
  PROVE  NextAlignedTick(i, now) \in Int
<1>1. (now + i - 1) \div i \in Int OBVIOUS
<1> QED BY <1>1 DEF NextAlignedTick

-----------------------------------------------------------------------------
LEMMA WorldStep ==
  ASSUME WorldTypes, [Next]_vars
  PROVE  WorldTypes'
<1> USE ProbeMonitorAssumption DEF WorldTypes
<1>1. CASE Tick
  <2>1. clock' \in 0..(Cycle - 1) BY <1>1 DEF Tick
  <2> QED BY <1>1, <2>1 DEF Tick, config
<1>2. ASSUME NEW list \in Lists, NewList(list) PROVE WorldTypes'
  BY <1>2 DEF NewList, config
<1>3. CASE Stop BY <1>3 DEF Stop, config
<1>4. CASE HandleDispatch
  <2>1. UNCHANGED <<clock, lists>> /\ lists # <<>> BY <1>4 DEF HandleDispatch, world
  <2>2. Newest \in Lists /\ NewestVersion \in 0..Len(lists)
    BY <2>1 DEF Newest, NewestVersion
  <2>3. CASE TakeTargets
    BY <2>1, <2>2, <2>3 DEF TakeTargets, Reschedule, Regroup
  <2>4. CASE KeepTargets BY <2>1, <2>2, <2>4 DEF KeepTargets
  <2> QED BY <1>4, <2>3, <2>4 DEF HandleDispatch
<1>5. ASSUME NEW k \in Loops, LoopStep(k) PROVE UNCHANGED <<clock, lists, config>>
  BY <1>5 DEF LoopStep, Align, Leave, Fire, Launch, Probed, world
<1>6. CASE UNCHANGED vars BY <1>6 DEF vars, world, config
<1> QED BY <1>1, <1>2, <1>3, <1>4, <1>5, <1>6 DEF Next, config

LEMMA RegroupTypes ==
  ASSUME LoopTypes, NEW list \in Lists, Reschedule(list)
  PROVE  LoopTypes'
  BY MembersAreTargets DEF LoopTypes, Reschedule, Regroup, Points

LEMMA LoopTypesStep ==
  ASSUME WorldTypes, LoopTypes, [Next]_vars
  PROVE  LoopTypes'
<1> USE DEF LoopTypes
<1>1. CASE Tick BY <1>1 DEF Tick
<1>2. ASSUME NEW list \in Lists, NewList(list) PROVE LoopTypes'
  BY <1>2 DEF NewList, control
<1>3. CASE Stop BY <1>3 DEF Stop, control
<1>4. CASE HandleDispatch
  <2>1. Newest \in Lists BY <1>4 DEF HandleDispatch, WorldTypes, Newest, NewestVersion
  <2> QED BY <1>4, <2>1, RegroupTypes DEF HandleDispatch, TakeTargets, KeepTargets, control
<1>5. ASSUME NEW k \in Loops, Align(k) PROVE LoopTypes'
  <2>1. clock \in Nat BY ProbeMonitorAssumption DEF WorldTypes
  <2>3. k[2] \in Nat \ {0} BY InLoops, GroupsPositive
  <2>4. NextAlignedTick(k[2], clock) \in Int BY <2>1, <2>3, TickIsNumber
  <2>2. NextAlignedTick(k[2], clock) - clock \in Int BY <2>1, <2>4
  <2> QED BY <1>5, <2>2 DEF Align, Points
<1>6. ASSUME NEW k \in Loops, Leave(k) PROVE LoopTypes' BY <1>6 DEF Leave, Points
<1>7. ASSUME NEW k \in Loops, Fire(k) PROVE LoopTypes' BY <1>7 DEF Fire, Points
<1>8. ASSUME NEW k \in Loops, NEW t \in Targets, Launch(k, t) \/ Probed(k, t)
      PROVE  UNCHANGED control
  BY <1>8 DEF Launch, Probed
<1>9. CASE UNCHANGED control BY <1>9 DEF control
<1>10. CASE UNCHANGED vars BY <1>10 DEF vars, control
<1> QED BY <1>1, <1>2, <1>3, <1>4, <1>5, <1>6, <1>7, <1>8, <1>9, <1>10 DEF Next, LoopStep

\* The pool: a probe is launched into a free slot, and ends in it.
LEMMA Slots ==
  ASSUME NEW F, F \subseteq Targets, NEW t
  PROVE  /\ IsFiniteSet(F) /\ Cardinality(F) \in Nat
         /\ Cardinality(F \cup {t}) <= Cardinality(F) + 1
         /\ Cardinality(F \ {t}) <= Cardinality(F)
<1>1. IsFiniteSet(F) BY ProbeMonitorAssumption, FS_Subset
<1> QED BY <1>1, FS_CardinalityType, FS_AddElement, FS_RemoveElement, FS_Subset

LEMMA RoundStep ==
  ASSUME RoundTypes, LoopTypes, [Next]_vars
  PROVE  RoundTypes'
<1> USE ProbeMonitorAssumption DEF RoundTypes
<1>1. CASE UNCHANGED round BY <1>1 DEF round
<1>2. ASSUME NEW k \in Loops, Fire(k) PROVE RoundTypes'
  BY <1>2 DEF Fire, LoopTypes
<1>3. ASSUME NEW k \in Loops, NEW t \in Targets, Launch(k, t) PROVE RoundTypes'
  <2>1. /\ flying' = [flying EXCEPT ![k] = @ \cup {t}] /\ todo' = [todo EXCEPT ![k] = @ \ {t}]
        /\ Cardinality(flying[k]) < PoolSize
    BY <1>3 DEF Launch
  <2>2. Cardinality(flying[k] \cup {t}) <= PoolSize
    <3>1. Cardinality(flying[k]) \in Nat
            /\ Cardinality(flying[k] \cup {t}) <= Cardinality(flying[k]) + 1
            /\ Cardinality(flying[k] \cup {t}) \in Nat
      BY Slots
    <3> QED BY <2>1, <3>1
  <2> QED BY <2>1, <2>2
<1>4. ASSUME NEW k \in Loops, NEW t \in Targets, Probed(k, t) PROVE RoundTypes'
  <2>1. flying' = [flying EXCEPT ![k] = @ \ {t}] /\ todo' = todo
    BY <1>4 DEF Probed
  <2>2. Cardinality(flying[k] \ {t}) <= PoolSize
    <3>1. /\ Cardinality(flying[k]) \in Nat /\ Cardinality(flying[k] \ {t}) \in Nat
          /\ Cardinality(flying[k] \ {t}) <= Cardinality(flying[k])
      BY Slots
    <3> QED BY <3>1
  <2> QED BY <2>1, <2>2
<1>5. ASSUME [Next]_vars, \A k \in Loops : ~Fire(k),
             \A k \in Loops : \A t \in Targets : ~Launch(k, t) /\ ~Probed(k, t)
      PROVE  UNCHANGED round
  BY <1>5 DEF Next, Tick, Stop, HandleDispatch, NewList, LoopStep, Align, Leave, vars
<1> QED BY <1>1, <1>2, <1>3, <1>4, <1>5

LEMMA FlagsStep ==
  ASSUME Flags, [Next]_vars
  PROVE  Flags'
  BY DEF Flags, Next, Tick, Stop, HandleDispatch, NewList, LoopStep, Align, Leave,
         Fire, Launch, Probed, vars, world

-----------------------------------------------------------------------------
\* The backend's lists are only added to, and the version moves with the list.
LEMMA VersionStep ==
  ASSUME WorldTypes, VersionTells, [Next]_vars
  PROVE  VersionTells'
<1> USE DEF VersionTells, WorldTypes
<1>1. ASSUME NEW list \in Lists, NewList(list) PROVE VersionTells'
  BY <1>1 DEF NewList, config
<1>2. CASE HandleDispatch
  BY <1>2 DEF HandleDispatch, TakeTargets, KeepTargets, Newest, NewestVersion, world
<1>3. CASE UNCHANGED <<lists, version, targets>> BY <1>3
<1> QED BY <1>1, <1>2, <1>3
        DEF Next, Tick, Stop, LoopStep, Align, Leave, Fire, Launch, Probed, vars, world, config

\* A reschedule starts the loops of the next generation, and only those.
LEMMA RegroupStep ==
  ASSUME WorldTypes, LoopTypes, NotYet, LiveHasMembers, Current,
         NEW list \in Lists, Reschedule(list), targets' = list, UNCHANGED world
  PROVE  NotYet' /\ LiveHasMembers' /\ Current'
<1> DEFINE starts(k) == k[1] = gen + 1 /\ k[2] \in Needed(list)
<1>1. /\ gen \in Nat /\ gen' = gen + 1
      /\ pc' = [k \in Loops |-> IF starts(k) THEN "round" ELSE pc[k]]
      /\ members' = [k \in Loops |-> IF starts(k) THEN Members(list, k[2]) ELSE members[k]]
  BY ProbeMonitorAssumption DEF Reschedule, Regroup, WorldTypes
<1>2. \A k \in Loops : k[1] \in Nat /\ k[2] \in Groups BY InLoops
<1>3. NotYet' BY <1>1, <1>2 DEF NotYet
<1>4. LiveHasMembers'
  <2> SUFFICES ASSUME NEW k \in Loops
               PROVE  pc'[k] \in {"none", "ended"} <=> members'[k] = {}
    BY DEF LiveHasMembers
  <2>1. CASE starts(k) BY <1>1, <2>1 DEF Needed
  <2>2. CASE ~starts(k) BY <1>1, <2>2 DEF LiveHasMembers
  <2> QED BY <2>1, <2>2
<1>5. Current'
  <2> SUFFICES ASSUME NEW k \in Loops, k[1] = gen + 1
               PROVE  members'[k] = Members(list, k[2])
    BY <1>1 DEF Current
  <2>1. CASE starts(k) BY <1>1, <2>1
  <2>2. CASE ~starts(k)
    <3>1. Members(list, k[2]) = {} BY <1>2, <2>2 DEF Needed
    <3>2. members[k] = {} BY <1>1, <1>2 DEF NotYet
    <3> QED BY <1>1, <2>2, <3>1, <3>2
  <2> QED BY <2>1, <2>2
<1> QED BY <1>3, <1>4, <1>5

LEMMA LoopsStep ==
  ASSUME WorldTypes, LoopTypes, NotYet, LiveHasMembers, Current, [Next]_vars
  PROVE  NotYet' /\ LiveHasMembers' /\ Current'
<1> USE DEF NotYet, LiveHasMembers, Current, LoopTypes
<1>1. CASE HandleDispatch
  <2>1. Newest \in Lists BY <1>1 DEF HandleDispatch, WorldTypes, Newest, NewestVersion
  <2>2. CASE TakeTargets BY <1>1, <2>1, <2>2, RegroupStep DEF HandleDispatch, TakeTargets
  <2>3. CASE KeepTargets
    BY <1>1, <2>3 DEF HandleDispatch, KeepTargets, control, world, ctxDone
  <2> QED BY <1>1, <2>2, <2>3 DEF HandleDispatch
<1>2. ASSUME NEW k \in Loops, Align(k) \/ Fire(k) PROVE NotYet' /\ LiveHasMembers' /\ Current'
  <2>1. /\ UNCHANGED <<members, gen, targets, service, stopped>>
        /\ pc[k] \in {"round", "wait"}
        /\ \E p \in {"round", "wait"} : pc' = [pc EXCEPT ![k] = p]
    BY <1>2 DEF Align, Fire, config, world
  <2>2. ~(k[1] > gen) BY <2>1
  <2> QED BY <2>1, <2>2 DEF ctxDone
<1>3. ASSUME NEW k \in Loops, Leave(k) PROVE NotYet' /\ LiveHasMembers' /\ Current'
  <2>1. /\ UNCHANGED <<gen, targets, service, stopped>> /\ pc[k] = "wait"
        /\ pc' = [pc EXCEPT ![k] = "ended"] /\ members' = [members EXCEPT ![k] = {}]
        /\ ctxDone \/ k[1] # gen
    BY <1>3 DEF Leave, Cancelled, config, world
  <2>2. ~(k[1] > gen) BY <2>1
  <2> QED BY <2>1, <2>2 DEF ctxDone
<1>4. CASE UNCHANGED <<pc, members, gen, targets, service>> /\ (stopped => stopped')
  BY <1>4 DEF ctxDone
<1>5. ASSUME [Next]_vars, ~HandleDispatch, \A k \in Loops : ~Align(k) /\ ~Fire(k) /\ ~Leave(k)
      PROVE  UNCHANGED <<pc, members, gen, targets, service>> /\ (stopped => stopped')
  BY <1>5 DEF Next, Tick, Stop, NewList, LoopStep, Launch, Probed, vars, world, config, control
<1> QED BY <1>1, <1>2, <1>3, <1>4, <1>5

-----------------------------------------------------------------------------
LEMMA InvInit == Init => Inv
<1> SUFFICES ASSUME Init PROVE Inv OBVIOUS
<1> USE ProbeMonitorAssumption DEF Init
<1>1. WorldTypes BY DEF WorldTypes
<1>2. LoopTypes BY DEF LoopTypes, Points
<1>3. RoundTypes
  <2>1. Cardinality({}) = 0 BY FS_EmptySet
  <2> QED BY <2>1 DEF RoundTypes
<1>4. Flags BY Zenon DEF Flags
<1>5. VersionTells BY DEF VersionTells
<1>6. NotYet /\ LiveHasMembers /\ Current
  BY InLoops DEF NotYet, LiveHasMembers, Current
<1> QED BY <1>1, <1>2, <1>3, <1>4, <1>5, <1>6 DEF Inv, Types

LEMMA InvStep == Inv /\ [Next]_vars => Inv'
  BY WorldStep, LoopTypesStep, RoundStep, FlagsStep, VersionStep, LoopsStep DEF Inv, Types

LEMMA Invariance == Spec => []Inv
  BY InvInit, InvStep, PTL DEF Spec

\* Types of the scheduler; no pool has more probes than slots.
THEOREM Typing == Spec => []TypeOK
<1>1. Inv => TypeOK
  BY DEF Inv, Types, WorldTypes, LoopTypes, RoundTypes, Flags, TypeOK
<1> QED BY Invariance, <1>1, PTL

\* The version the agent reports names the list it has.
THEOREM Versions == Spec => []VersionTells
<1>1. Inv => VersionTells BY DEF Inv
<1> QED BY Invariance, <1>1, PTL

\* The loops that are not cancelled are the list, group by group.
THEOREM LoopsMatch == Spec => []LoopsAreTheList
<1>1. Inv => LoopsAreTheList
  BY DEF Inv, LoopsAreTheList, Cancelled, Current, LiveHasMembers
<1> QED BY Invariance, <1>1, PTL

\* Only the timer begins a round.
LEMMA OnlyFire ==
  ASSUME RoundTypes, [Next]_vars, NEW k \in Loops, todo[k] = {}, todo'[k] # {}
  PROVE  Fire(k)
<1>1. \A j \in Loops, t \in Targets : Launch(j, t) => t \in todo[j]
  BY DEF Launch
<1> QED BY <1>1 DEF Next, Tick, Stop, NewList, HandleDispatch, LoopStep, Align, Leave, Fire,
                    Launch, Probed, vars, round, RoundTypes

\* Rounds begin with the targets of the present list only.
THEOREM Rounds == Spec => RoundsAreCurrent
<1>1. ASSUME Inv, [Next]_vars, NEW k \in Loops, todo[k] = {}, todo'[k] # {}
      PROVE  todo'[k] = Members(targets, k[2]) /\ ~stopped
  <2>1. Fire(k) BY <1>1, OnlyFire DEF Inv, Types
  <2>2. todo'[k] = members[k] /\ ~Cancelled(k)
    BY <1>1, <2>1 DEF Fire, Inv, Types, RoundTypes
  <2> QED BY <1>1, <2>2 DEF Cancelled, ctxDone, Inv, Current
<1>2. Inv /\ [Next]_vars =>
        [\A k \in Loops : todo[k] = {} /\ todo'[k] # {} =>
           todo'[k] = Members(targets, k[2]) /\ ~stopped]_vars
  BY <1>1
<1> QED BY Invariance, <1>2, PTL DEF Spec, RoundsAreCurrent

=============================================================================
