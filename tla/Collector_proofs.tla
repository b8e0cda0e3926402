-------------------------- MODULE Collector_proofs --------------------------
(***************************************************************************)
(* What is proved of the collector: of the counters that are reported, for *)
(* any hardware, any traffic and any number of failures; and, below, of the *)
(* filter that a reload of the configuration file gives it.                *)
(***************************************************************************)
EXTENDS Reporting, ConfigReload, TLAPS

Machine ==
  /\ hw \in Hardware /\ rx \in 0..MaxBytes /\ present \in BOOLEAN
  /\ changes \in 0..MaxChanges
Net ==
  /\ prevNet \in Nat /\ currentNet \in Nat /\ saved \in Nat
  /\ timed \in BOOLEAN /\ back \in BOOLEAN
Cache ==
  /\ cachedHW \in Hardware \cup {Nil} /\ expired \in BOOLEAN
  /\ lastHW \in Hardware \cup {Nil}
Loop ==
  /\ pc \in {"verify", "handshake", "wait", "enter", "report", "sent"}
  /\ sent \in [hw : Hardware \cup {Nil}, bytes : Nat, back : BOOLEAN,
              stray : BOOLEAN]
Backend ==
  /\ known \in Hardware \cup {Nil} /\ unheard \in BOOLEAN /\ contradicted \in BOOLEAN
Troubles == troubles \in 0..MaxTroubles
Flow == told \in Nat /\ moved \in Nat /\ odd \in BOOLEAN /\ strayed \in BOOLEAN

-----------------------------------------------------------------------------
LEMMA CountersAreNat ==
  ASSUME Machine, Net, NEW n \in Samples
  PROVE  n \in Nat /\ Bytes(n) \in Nat
  BY ReportingAssumption DEF Machine, Net, Samples, Bytes

LEMMA SampleTypes ==
  ASSUME Machine, Net, Flow, Troubles, NEW n \in Samples, calcNetSpeed(n)
  PROVE  Net' /\ Flow' /\ Troubles'
<1>1. n \in Nat
  BY CountersAreNat
<1>2. strayed' \in BOOLEAN
  BY Zenon DEF calcNetSpeed, Flow
<1>3. odd' \in BOOLEAN /\ timed' \in BOOLEAN /\ back' \in BOOLEAN
  BY Zenon DEF calcNetSpeed, Flow, Net
<1>4. moved' \in Nat /\ prevNet' \in Nat /\ saved' \in Nat /\ currentNet' \in Nat
      /\ told' \in Nat
  BY <1>1 DEF calcNetSpeed, Flow, Net
<1>5. Troubles'
  BY ReportingAssumption DEF calcNetSpeed, getNetCounters, Trouble, Troubles
<1> QED
  BY <1>2, <1>3, <1>4, <1>5 DEF Net, Flow

LEMMA CacheTypes ==
  ASSUME NEW found \in Hardware, CollectHardware(found)
  PROVE  cachedHW' \in Hardware \cup {Nil} /\ expired' \in BOOLEAN
  BY DEF CollectHardware

\* A step keeps the type of what it does not touch.
LEMMA Untouched ==
  /\ Machine /\ UNCHANGED machine => Machine'
  /\ Net /\ UNCHANGED net => Net'
  /\ Cache /\ UNCHANGED cache => Cache'
  /\ Loop /\ UNCHANGED <<pc, sent>> => Loop'
  /\ Backend /\ UNCHANGED backend => Backend'
  /\ Flow /\ UNCHANGED flow => Flow'
  /\ Troubles /\ (UNCHANGED troubles \/ Trouble) => Troubles'
<1>1. Machine /\ UNCHANGED machine => Machine'
  BY DEF Machine, machine
<1>2. Net /\ UNCHANGED net => Net'
  BY DEF Net, net
<1>3. Cache /\ UNCHANGED cache => Cache'
  BY DEF Cache, cache
<1>4. Loop /\ UNCHANGED <<pc, sent>> => Loop'
  BY DEF Loop
<1>5. Backend /\ UNCHANGED backend => Backend'
  BY DEF Backend, backend
<1>6. Flow /\ UNCHANGED flow => Flow'
  BY DEF Flow, flow
<1>7. Troubles /\ (UNCHANGED troubles \/ Trouble) => Troubles'
  BY ReportingAssumption DEF Troubles, Trouble
<1> QED
  BY <1>1, <1>2, <1>3, <1>4, <1>5, <1>6, <1>7

Types == Machine /\ Net /\ Cache /\ Loop /\ Backend /\ Flow /\ Troubles

LEMMA TypesAlways == Spec => []Types
<1>0. NoRequest \in [hw : Hardware \cup {Nil}, bytes : Nat, back : BOOLEAN,
                      stray : BOOLEAN]
  BY DEF NoRequest
<1>1. Init => Types
  <2> SUFFICES ASSUME Init PROVE Types
    OBVIOUS
  <2>1. Machine /\ Troubles
    BY ReportingAssumption DEF Init, Machine, Troubles
  <2>2. Net /\ Cache /\ Backend /\ Flow
    BY DEF Init, Net, Cache, Backend, Flow
  <2>3. Loop
    BY <1>0 DEF Init, Loop
  <2> QED
    BY <2>1, <2>2, <2>3 DEF Types
<1>2. Types /\ [Next]_vars => Types'
  <2> SUFFICES ASSUME Machine, Net, Cache, Loop, Backend, Flow, Troubles, [Next]_vars
               PROVE  Types'
    BY DEF Types
  <2>1. CASE HardwareChanges
    <3>1. Machine'
      BY <2>1, ReportingAssumption DEF HardwareChanges, Machine
    <3> QED
      BY <2>1, <3>1, Untouched DEF HardwareChanges, Types
  <2>2. CASE Traffic
    <3>1. Machine'
      BY <2>2, ReportingAssumption DEF Traffic, Machine
    <3>2. Flow'
      BY <2>2 DEF Traffic, Flow
    <3> QED
      BY <2>2, <3>1, <3>2, Untouched DEF Traffic, Types
  <2>3. CASE Vanish
    <3>1. Machine'
      <4>1. rx' = 0 /\ present' = FALSE /\ hw' = hw /\ changes' = changes
        BY <2>3 DEF Vanish
      <4>2. 0 \in 0..MaxBytes
        BY ReportingAssumption
      <4>3. present' \in BOOLEAN
        BY <4>1
      <4> QED
        BY <4>1, <4>2, <4>3 DEF Machine
    <3>2. Flow'
      BY <2>3 DEF Vanish, Flow
    <3> QED
      BY <2>3, <3>1, <3>2, Untouched DEF Vanish, Types
  <2>4. CASE Reappear
    <3>1. Machine'
      BY <2>4 DEF Reappear, Machine
    <3> QED
      BY <2>4, <3>1, Untouched DEF Reappear, Types
  <2>5. CASE ClockSetBack
    <3>1. Net'
      BY <2>5 DEF ClockSetBack, Net
    <3> QED
      BY <2>5, <3>1, Untouched DEF ClockSetBack, Types
  <2>6. CASE Expire
    <3>1. Cache'
      BY <2>6 DEF Expire, Cache
    <3> QED
      BY <2>6, <3>1, Untouched DEF Expire, Types
  <2>7. CASE Restart
    <3>1. Net' /\ Cache' /\ Flow'
      BY <2>7 DEF Restart, Net, Cache, Flow
    <3>2. Loop'
      BY <2>7, <1>0 DEF Restart, Loop
    <3> QED
      BY <2>7, <3>1, <3>2, Untouched DEF Restart, Types
  <2>8. CASE Verify
    <3>1. PICK found \in Hardware :
            CollectHardware(found) /\ sent' = [NoRequest EXCEPT !.hw = found]
      BY <2>8 DEF Verify
    <3>2. Loop'
      BY <2>8, <3>1 DEF Verify, Loop, NoRequest
    <3>3. Cache'
      BY <2>8, <3>1, CacheTypes DEF Verify, Cache
    <3> QED
      BY <2>8, <3>2, <3>3, Untouched DEF Verify, Types
  <2>9. CASE Verified
    <3>1. contradicted' \in BOOLEAN
      BY <2>9, Zenon DEF Verified
    <3>2. Backend'
      BY <2>9, <3>1 DEF Verified, Backend, Loop
    <3>3. Loop'
      BY <2>9, <1>0 DEF Verified, Loop
    <3> QED
      BY <2>9, <3>2, <3>3, Untouched DEF Verified, Types
  <2>10. CASE VerifyFails
    <3>1. Backend'
      BY <2>10 DEF VerifyFails, Backend, Loop
    <3>2. Loop'
      BY <2>10, <1>0 DEF VerifyFails, Loop
    <3> QED
      BY <2>10, <3>1, <3>2, Untouched DEF VerifyFails, Types
  <2>11. CASE Approved
    <3>1. Loop'
      BY <2>11 DEF Approved, Loop
    <3> QED
      BY <2>11, <3>1, Untouched DEF Approved, Types
  <2>12. CASE Enter
    <3>1. Loop'
      BY <2>12 DEF Enter, Loop
    <3> QED
      BY <2>12, <3>1, SampleTypes, Untouched DEF Enter, Types
  <2>13. CASE Report
    <3>1. PICK n \in Samples, result \in Hardware \cup {Nil} :
            /\ calcNetSpeed(n) /\ CollectHardwareIfChanged(result)
            /\ sent' = [hw |-> result, bytes |-> Bytes(n), back |-> back, stray |-> n # rx]
      BY <2>13 DEF Report
    <3>2. PICK found \in Hardware : CollectHardware(found) /\ lastHW' = found
      BY <3>1 DEF CollectHardwareIfChanged
    <3>3. Loop'
      <4>1. Bytes(n) \in Nat /\ (n # rx) \in BOOLEAN /\ back \in BOOLEAN
        BY CountersAreNat DEF Net
      <4>2. sent' \in [hw : Hardware \cup {Nil}, bytes : Nat, back : BOOLEAN,
                       stray : BOOLEAN]
        BY <3>1, <4>1
      <4> QED
        BY <2>13, <4>2 DEF Report, Loop
    <3>4. Cache'
      BY <3>2, CacheTypes DEF Cache
    <3> QED
      BY <2>13, <3>1, <3>3, <3>4, SampleTypes, Untouched DEF Report, Types
  <2>14. CASE Received
    <3>1. unheard' \in BOOLEAN /\ contradicted' \in BOOLEAN
      BY <2>14, Zenon DEF Received
    <3>2. Backend'
      BY <2>14, <3>1 DEF Received, Heard, Backend, Loop
    <3>3. Loop'
      BY <2>14, <1>0 DEF Received, Loop
    <3>4. Net'
      BY <2>14 DEF Received, ConfirmNetReported, Net
    <3>5. odd' \in BOOLEAN /\ strayed' \in BOOLEAN
      BY <2>14, Zenon DEF Received
    <3>6. Flow'
      BY <2>14, <3>5 DEF Received, Flow, Loop
    <3> QED
      BY <2>14, <3>2, <3>3, <3>4, <3>6, Untouched DEF Received, Types
  <2>15. CASE ReportFails
    <3>1. unheard' \in BOOLEAN
      BY <2>15, Zenon DEF ReportFails
    <3>2. Backend'
      BY <2>15, <3>1 DEF ReportFails, Heard, Backend, Loop
    <3>3. Loop'
      BY <2>15, <1>0 DEF ReportFails, Loop
    <3> QED
      BY <2>15, <3>2, <3>3, Untouched DEF ReportFails, Types
  <2>16. CASE UNCHANGED vars
    BY <2>16, Untouched DEF vars, Types
  <2> QED
    BY <2>1, <2>2, <2>3, <2>4, <2>5, <2>6, <2>7, <2>8, <2>9, <2>10, <2>11, <2>12,
       <2>13, <2>14, <2>15, <2>16 DEF Next
<1> QED
  BY <1>1, <1>2, PTL DEF Spec

\* Spec keeps every variable in its type.
THEOREM Typing == Spec => []TypeOK
<1>1. Types => TypeOK
  BY DEF Types, TypeOK, Machine, Net, Cache, Loop, Backend, Flow, Troubles
<1> QED
  BY <1>1, TypesAlways, PTL

-----------------------------------------------------------------------------
\* Until the interface is made anew, a baseline is no further than its counter,
\* and a report under way carries what lies between the baseline and its sample.
Tiled ==
  timed /\ ~odd /\ ~strayed =>
    /\ prevNet <= rx
    /\ told + (rx - prevNet) = moved
    /\ pc = "sent" /\ ~sent.stray =>
         /\ prevNet <= currentNet /\ currentNet <= rx
         /\ sent.back \/ sent.bytes = currentNet - prevNet

\* Samples begin with the report loop; before them nothing has been told.
Begun ==
  /\ pc \in {"report", "sent"} => timed
  /\ ~timed => told = 0

LEMMA BegunSteps == Types /\ Begun /\ [Next]_vars => Begun'
  BY DEF Types, Loop, Net, Begun, Next, vars, machine, net, flow, HardwareChanges, Traffic, Vanish,
         Reappear, ClockSetBack, Expire, Restart, Verify, Verified, VerifyFails, Approved,
         Enter, Report, Received, ReportFails, calcNetSpeed, ConfirmNetReported

\* No byte is left out of the confirmed reports, and none is in two of them.
THEOREM BytesOnce == Spec => []EachByteOnce
<1>1. Init => Begun /\ Tiled
  BY DEF Init, Begun, Tiled
<1>2. Types /\ Begun /\ Tiled /\ [Next]_vars => Tiled'
  <2> SUFFICES ASSUME Types, Begun, Tiled, [Next]_vars PROVE Tiled'
    OBVIOUS
  <2> USE DEF Types, Machine, Net, Flow, Loop, Begun, Tiled
  <2>1. CASE HardwareChanges
    BY <2>1 DEF HardwareChanges, net, flow
  <2>2. CASE Traffic
    BY <2>2 DEF Traffic, net
  <2>3. CASE Vanish
    BY <2>3 DEF Vanish
  <2>4. CASE Reappear
    BY <2>4 DEF Reappear, net, flow
  <2>5. CASE ClockSetBack
    BY <2>5 DEF ClockSetBack, machine, flow
  <2>6. CASE Expire
    BY <2>6 DEF Expire, machine, net, flow
  <2>7. CASE Restart
    BY <2>7 DEF Restart
  <2>8. CASE Verify
    BY <2>8 DEF Verify, machine, net, flow
  <2>9. CASE Verified
    BY <2>9 DEF Verified, machine, net, flow
  <2>10. CASE VerifyFails
    BY <2>10 DEF VerifyFails, machine, net, flow
  <2>11. CASE Approved
    BY <2>11 DEF Approved, machine, net, flow
  <2>12. CASE Enter
    <3>1. PICK n \in Samples : calcNetSpeed(n)
      BY <2>12 DEF Enter
    <3>2. pc' = "report" /\ rx' = rx /\ told' = told
      BY <2>12, <3>1 DEF Enter, machine, calcNetSpeed
    <3>3. CASE timed
      <4>1. UNCHANGED <<prevNet, timed, moved, odd, strayed>>
        BY <3>1, <3>3 DEF calcNetSpeed
      <4> QED
        BY <3>2, <3>3, <4>1
    <3>4. CASE ~timed
      <4>1. prevNet' = n /\ moved' = 0
        BY <3>1, <3>4 DEF calcNetSpeed
      <4>2. ~strayed' => n = rx
        BY <3>1, <3>4, Zenon DEF calcNetSpeed
      <4> QED
        BY <3>2, <3>4, <4>1, <4>2
    <3> QED
      BY <3>3, <3>4
  <2>13. CASE Report
    <3>1. PICK n \in Samples, result \in Hardware \cup {Nil} :
            /\ calcNetSpeed(n)
            /\ sent' = [hw |-> result, bytes |-> Bytes(n), back |-> back, stray |-> n # rx]
      BY <2>13 DEF Report
    <3>2. timed /\ rx' = rx /\ told' = told
      BY <2>13, <3>1 DEF Report, machine, calcNetSpeed
    <3>3. UNCHANGED <<prevNet, timed, moved, odd, strayed>> /\ currentNet' = n
      BY <3>1, <3>2 DEF calcNetSpeed
    <3>4. sent'.back = back /\ sent'.bytes = Bytes(n) /\ sent'.stray = (n # rx)
      BY <3>1
    <3>5. n \in Nat
      BY CountersAreNat
    <3>6. SUFFICES ASSUME ~odd, ~strayed, n = rx
                   PROVE  prevNet <= n /\ n <= rx /\ (back \/ Bytes(n) = n - prevNet)
      BY <3>2, <3>3, <3>4
    <3> QED
      BY <3>2, <3>5, <3>6 DEF Bytes
  <2>14. CASE Received
    BY <2>14 DEF Received, ConfirmNetReported, machine
  <2>15. CASE ReportFails
    BY <2>15 DEF ReportFails, machine, net, flow
  <2>16. CASE UNCHANGED vars
    BY <2>16 DEF vars, machine, net, flow
  <2> QED
    BY <2>1, <2>2, <2>3, <2>4, <2>5, <2>6, <2>7, <2>8, <2>9, <2>10, <2>11, <2>12,
       <2>13, <2>14, <2>15, <2>16 DEF Next
<1>3. Tiled => EachByteOnce
  BY DEF Tiled, EachByteOnce
<1> QED
  BY <1>1, <1>2, <1>3, TypesAlways, BegunSteps, PTL DEF Spec

-----------------------------------------------------------------------------
\* What a sample of the interface would show over a baseline.
Ahead(baseline) == IF rx < baseline THEN rx ELSE rx - baseline

\* What has been told, is being told and could be told was carried.
Carried ==
  timed /\ ~strayed =>
    /\ told + Ahead(prevNet) <= moved
    /\ pc = "sent" /\ ~sent.stray => told + sent.bytes + Ahead(currentNet) <= moved

\* Every byte reported was carried, as long as what became a baseline was the
\* interface's counter, whatever the samples of failed reports were.
THEOREM NoPhantoms == Spec => []NoPhantomBytes
<1>1. Init => Begun /\ Carried
  BY DEF Init, Begun, Carried
<1>2. Types /\ Begun /\ Carried /\ [Next]_vars => Carried'
  <2> SUFFICES ASSUME Types, Begun, Carried, [Next]_vars PROVE Carried'
    OBVIOUS
  <2> USE DEF Types, Machine, Net, Flow, Loop, Begun, Carried, Ahead
  <2>1. CASE HardwareChanges
    BY <2>1 DEF HardwareChanges, net, flow
  <2>2. CASE Traffic
    BY <2>2 DEF Traffic, net
  <2>3. CASE Vanish
    BY <2>3 DEF Vanish, net
  <2>4. CASE Reappear
    BY <2>4 DEF Reappear, net, flow
  <2>5. CASE ClockSetBack
    BY <2>5 DEF ClockSetBack, machine, flow
  <2>6. CASE Expire
    BY <2>6 DEF Expire, machine, net, flow
  <2>7. CASE Restart
    BY <2>7 DEF Restart
  <2>8. CASE Verify
    BY <2>8 DEF Verify, machine, net, flow
  <2>9. CASE Verified
    BY <2>9 DEF Verified, machine, net, flow
  <2>10. CASE VerifyFails
    BY <2>10 DEF VerifyFails, machine, net, flow
  <2>11. CASE Approved
    BY <2>11 DEF Approved, machine, net, flow
  <2>12. CASE Enter
    <3>1. PICK n \in Samples : calcNetSpeed(n)
      BY <2>12 DEF Enter
    <3>2. pc' = "report" /\ rx' = rx /\ told' = told
      BY <2>12, <3>1 DEF Enter, machine, calcNetSpeed
    <3>3. CASE timed
      <4>1. UNCHANGED <<prevNet, timed, moved, strayed>>
        BY <3>1, <3>3 DEF calcNetSpeed
      <4> QED
        BY <3>2, <3>3, <4>1
    <3>4. CASE ~timed
      <4>1. prevNet' = n /\ moved' = 0
        BY <3>1, <3>4 DEF calcNetSpeed
      <4>2. ~strayed' => n = rx
        BY <3>1, <3>4, Zenon DEF calcNetSpeed
      <4> QED
        BY <3>2, <3>4, <4>1, <4>2
    <3> QED
      BY <3>3, <3>4
  <2>13. CASE Report
    <3>1. PICK n \in Samples, result \in Hardware \cup {Nil} :
            /\ calcNetSpeed(n)
            /\ sent' = [hw |-> result, bytes |-> Bytes(n), back |-> back, stray |-> n # rx]
      BY <2>13 DEF Report
    <3>2. timed /\ rx' = rx /\ told' = told
      BY <2>13, <3>1 DEF Report, machine, calcNetSpeed
    <3>3. UNCHANGED <<prevNet, timed, moved, strayed>> /\ currentNet' = n
      BY <3>1, <3>2 DEF calcNetSpeed
    <3>4. sent'.bytes = Bytes(n) /\ sent'.stray = (n # rx)
      BY <3>1
    <3>5. n \in Nat
      BY CountersAreNat
    <3>6. SUFFICES ASSUME ~strayed, n = rx
                   PROVE  told + Bytes(n) + (IF rx < n THEN rx ELSE rx - n) <= moved
      BY <3>2, <3>3, <3>4
    <3> QED
      BY <3>2, <3>5, <3>6 DEF Bytes
  <2>14. CASE Received
    BY <2>14 DEF Received, ConfirmNetReported, machine
  <2>15. CASE ReportFails
    BY <2>15 DEF ReportFails, machine, net, flow
  <2>16. CASE UNCHANGED vars
    BY <2>16 DEF vars, machine, net, flow
  <2> QED
    BY <2>1, <2>2, <2>3, <2>4, <2>5, <2>6, <2>7, <2>8, <2>9, <2>10, <2>11, <2>12,
       <2>13, <2>14, <2>15, <2>16 DEF Next
<1>3. Types /\ Carried => NoPhantomBytes
  BY DEF Types, Machine, Net, Flow, Carried, Ahead, NoPhantomBytes
<1> QED
  BY <1>1, <1>2, <1>3, TypesAlways, BegunSteps, PTL DEF Spec

-----------------------------------------------------------------------------
(* The reload of the configuration file.  QuietIsCurrent is not inductive: *)
(* it says nothing while a reload runs.  What carries it is that a reload  *)
(* which began after the last event has read the present file, and writes  *)
(* nothing else (Fresh), and that a list which is not up to date is still  *)
(* to be written by one of them (Due).                                     *)

\* Reloads are stale all together or not at all, and then the timer is armed.
StaleTogether ==
  /\ before = {} \/ (before = Running /\ armed)
  /\ ~watching => ~armed /\ Running = {}

\* What a reload that began after the last event has read and written.
Fresh ==
  before = {} =>
    \A r \in Reloaders :
      /\ at[r] = "assign" => /\ read[r] = file
                             /\ \A l \in Lists \ left[r] : mem[l] = file[l]
      /\ at[r] = "update" => /\ read[r] = file /\ mem = file
                             /\ \A l \in Lists \ left[r] : collector[l] = file[l]

\* A list of memory, or of the collector, is up to date or still to be written.
MemDue(l) == mem[l] = file[l] \/ \E r \in Running : at[r] = "assign" /\ l \in left[r]
CollectorDue(l) ==
  collector[l] = file[l] \/ \E r \in Running : at[r] = "assign" \/ l \in left[r]
Due == ~armed /\ ~unread => \A l \in Lists : MemDue(l) /\ CollectorDue(l)

-----------------------------------------------------------------------------
\* ReloadSpec keeps every variable in its type.
FlagTypes ==
  /\ watching \in BOOLEAN /\ armed \in BOOLEAN /\ unread \in BOOLEAN
  /\ overwritten \in BOOLEAN

LEMMA BothIsContent == \A f \in Filters \cup {Empty} : Both(f) \in Content
  BY DEF Both, Content

THEOREM ReloadTyping == ReloadSpec => []ReloadTypeOK
<1>1. ReloadInit => ReloadTypeOK
  <2> SUFFICES ASSUME ReloadInit PROVE ReloadTypeOK
    OBVIOUS
  <2>1. Both(Shipped) \in Content /\ Both(Empty) \in Content /\ Shipped \in Filters
    BY BothIsContent, ConfigAssumption
  <2>2. FlagTypes
    BY Zenon DEF ReloadInit, FlagTypes
  <2> QED
    BY <2>1, <2>2, ConfigAssumption DEF ReloadInit, ReloadTypeOK, FlagTypes
<1>2. ReloadTypeOK /\ [ReloadNext]_reloadVars => ReloadTypeOK'
  <2> SUFFICES ASSUME ReloadTypeOK, [ReloadNext]_reloadVars PROVE ReloadTypeOK'
    OBVIOUS
  <2>0. FlagTypes /\ Running \subseteq Reloaders /\ Both(Empty) \in Content
    BY BothIsContent DEF ReloadTypeOK, FlagTypes, Running
  <2> USE ConfigAssumption DEF ReloadTypeOK
  <2>1. ASSUME NEW f \in Filters, Replace(f) PROVE ReloadTypeOK'
    <3>1. FlagTypes'
      BY ONLY <2>0, <2>1, Zenon DEF FlagTypes, Replace, Edited, Event
    <3> QED
      BY <2>0, <2>1, <3>1, BothIsContent
      DEF Replace, Edited, Event, reload, saving, FlagTypes
  <2>2. ASSUME NEW f \in Filters, Truncate(f) PROVE ReloadTypeOK'
    <3>1. FlagTypes'
      BY ONLY <2>0, <2>2, Zenon DEF FlagTypes, Truncate, Edited, Event
    <3> QED
      BY <2>0, <2>2, <3>1, BothIsContent
      DEF Truncate, Edited, Event, reload, saving, FlagTypes
  <2>3. CASE Rewrite
    <3>1. FlagTypes'
      BY ONLY <2>0, <2>3, Zenon DEF FlagTypes, Rewrite, Event
    <3> QED
      BY <2>0, <2>3, <3>1, BothIsContent DEF Rewrite, Event, reload, saving, FlagTypes
  <2>4. CASE Marshal
    BY <2>4 DEF Marshal, reload, user, watcher
  <2>5. CASE OpenTruncate
    <3>1. FlagTypes'
      BY ONLY <2>0, <2>5, Zenon DEF FlagTypes, OpenTruncate, Event
    <3> QED
      BY <2>0, <2>5, <3>1 DEF OpenTruncate, Event, reload, user, FlagTypes
  <2>6. CASE Write
    <3>1. FlagTypes'
      BY ONLY <2>0, <2>6, Zenon DEF FlagTypes, Write, Event
    <3> QED
      BY <2>0, <2>6, <3>1 DEF Write, Event, reload, user, FlagTypes
  <2>15. CASE WriteFails
    <3>1. FlagTypes'
      BY ONLY <2>0, <2>15, Zenon DEF FlagTypes, WriteFails, Event, watcher
    <3> QED
      BY <2>0, <2>15, <3>1 DEF WriteFails, Event, reload, user, watcher, FlagTypes
  <2>7. CASE StartWatching
    BY <2>7 DEF StartWatching, reload, saving, user
  <2>8. CASE TimerFires
    <3>1. FlagTypes' /\ before' = before /\ signals' = signals /\ "timer" \in Reloaders
      BY ONLY <2>0, <2>8, Zenon DEF FlagTypes, TimerFires, Begin, BeginFails, Reloaders
    <3>2. CASE Begin("timer")
      BY <3>1, <3>2 DEF Begin, saving, user, FlagTypes
    <3>3. CASE BeginFails("timer")
      BY <3>1, <3>3 DEF BeginFails, reload, saving, user, FlagTypes
    <3> QED
      BY <2>8, <3>2, <3>3 DEF TimerFires
  <2>9. CASE Hangup
    <3>1. before' \subseteq Reloaders
      BY <2>9, before \subseteq Reloaders, Zenon DEF Hangup, Reloaders
    <3>2. FlagTypes' /\ "signal" \in Reloaders
      BY ONLY <2>0, <2>9, Zenon DEF FlagTypes, Hangup, Begin, BeginFails, Reloaders
    <3>3. signals' \in 0..MaxSignals
      BY <2>9 DEF Hangup
    <3>4. CASE Begin("signal")
      BY <3>1, <3>2, <3>3, <3>4 DEF Begin, saving, user, FlagTypes
    <3>5. CASE BeginFails("signal")
      BY <3>1, <3>2, <3>3, <3>5 DEF BeginFails, reload, saving, user, FlagTypes
    <3> QED
      BY <2>9, <3>4, <3>5 DEF Hangup
  <2>10. ASSUME NEW r \in Reloaders, NEW l \in Lists, Assign(r, l) PROVE ReloadTypeOK'
    BY <2>10 DEF Assign, saving, user, watcher, Content
  <2>11. ASSUME NEW r \in Reloaders, NEW l \in Lists, Update(r, l) PROVE ReloadTypeOK'
    BY <2>11 DEF Update, saving, user, watcher, Content
  <2>12. ASSUME NEW r \in Reloaders, Call(r) PROVE ReloadTypeOK'
    BY <2>12 DEF Call, saving, user, watcher
  <2>13. ASSUME NEW r \in Reloaders, Return(r) PROVE ReloadTypeOK'
    BY <2>0, <2>13 DEF Return, saving, user
  <2>14. CASE UNCHANGED reloadVars
    BY <2>14 DEF reloadVars, reload, saving, user, watcher
  <2> QED
    BY <2>1, <2>2, <2>3, <2>4, <2>5, <2>6, <2>7, <2>8, <2>9, <2>10, <2>11, <2>12,
       <2>13, <2>14, <2>15 DEF ReloadNext, ReloadStep
<1> QED
  BY <1>1, <1>2, PTL DEF ReloadSpec

-----------------------------------------------------------------------------
\* An event leaves no reload fresh, and arms the timer or goes unread.
LEMMA EventKeeps ==
  ASSUME StaleTogether, NEW c, Event(c), UNCHANGED at
  PROVE  StaleTogether' /\ Fresh' /\ Due'
<1>1. Running' = Running
  BY DEF Running
<1>2. before' = Running /\ armed' = watching
  BY DEF Event
<1>3. StaleTogether'
  BY <1>1, <1>2 DEF StaleTogether, Event
<1>4. Fresh'
  <2> SUFFICES ASSUME before' = {} PROVE Fresh'
    BY DEF Fresh
  <2>1. \A r \in Reloaders : at'[r] = "idle"
    BY <1>1, <1>2 DEF Running
  <2> QED
    BY <2>1 DEF Fresh
<1>5. Due'
  BY DEF Event, Due
<1> QED
  BY <1>3, <1>4, <1>5

\* A reload that begins when none is stale has read the present file.
LEMMA BeginKeeps ==
  ASSUME ReloadTypeOK, StaleTogether, Fresh, NEW r \in Reloaders, Begin(r),
         before' = {} => before = {}
  PROVE  Fresh'
<1> SUFFICES ASSUME before = {}, NEW q \in Reloaders
    PROVE /\ at'[q] = "assign" => /\ read'[q] = file'
                                  /\ \A l \in Lists \ left'[q] : mem'[l] = file'[l]
          /\ at'[q] = "update" => /\ read'[q] = file' /\ mem' = file'
                                  /\ \A l \in Lists \ left'[q] : collector'[l] = file'[l]
  BY DEF Fresh
<1>1. file' = file /\ mem' = mem /\ collector' = collector
  BY DEF Begin
<1>2. CASE q = r
  BY <1>1, <1>2 DEF Begin, ReloadTypeOK
<1>3. CASE q # r
  <2>1. at'[q] = at[q] /\ read'[q] = read[q] /\ left'[q] = left[q]
    BY <1>3 DEF Begin, ReloadTypeOK
  <2> QED
    BY <2>1, <1>1 DEF Fresh
<1> QED
  BY <1>2, <1>3

\* Memory and the collector are up to date, or a running reload brings it.
THEOREM Quiet == ReloadSpec => []QuietIsCurrent
<1>1. ReloadInit => StaleTogether /\ Fresh /\ Due
  BY DEF ReloadInit, StaleTogether, Fresh, Due, MemDue, CollectorDue, Running
<1>2. ReloadTypeOK /\ StaleTogether /\ Fresh /\ Due /\ [ReloadNext]_reloadVars
        => StaleTogether' /\ Fresh' /\ Due'
  <2> SUFFICES ASSUME ReloadTypeOK, StaleTogether, Fresh, Due, [ReloadNext]_reloadVars
               PROVE  StaleTogether' /\ Fresh' /\ Due'
    OBVIOUS
  <2>1. ASSUME NEW f \in Filters, Replace(f) PROVE StaleTogether' /\ Fresh' /\ Due'
    BY <2>1, EventKeeps DEF Replace, reload
  <2>2. ASSUME NEW f \in Filters, Truncate(f) PROVE StaleTogether' /\ Fresh' /\ Due'
    BY <2>2, EventKeeps DEF Truncate, reload
  <2>3. CASE Rewrite
    BY <2>3, EventKeeps DEF Rewrite, reload
  <2>4. CASE Marshal
    BY <2>4 DEF Marshal, reload, watcher, StaleTogether, Fresh, Due, MemDue,
                CollectorDue, Running
  <2>5. CASE OpenTruncate
    BY <2>5, EventKeeps DEF OpenTruncate, reload
  <2>6. CASE Write
    BY <2>6, EventKeeps DEF Write, reload
  <2>15. CASE WriteFails
    <3>1. CASE UNCHANGED <<file, watcher>>
      BY <2>15, <3>1 DEF WriteFails, reload, watcher, StaleTogether, Fresh, Due, MemDue,
                         CollectorDue, Running
    <3>2. CASE Event(Both(Empty))
      BY <2>15, <3>2, EventKeeps DEF WriteFails, reload
    <3> QED
      BY <2>15, <3>1, <3>2 DEF WriteFails
  <2>7. CASE StartWatching
    BY <2>7 DEF StartWatching, reload, StaleTogether, Fresh, Due, MemDue,
                CollectorDue, Running
  <2>8. CASE TimerFires
    <3>1. before = {} /\ before' = {} /\ ~armed' /\ watching /\ watching' = watching
      BY <2>8 DEF TimerFires, Begin, BeginFails, StaleTogether
    <3>2. StaleTogether'
      BY <3>1 DEF StaleTogether
    <3>3. CASE Begin("timer")
      <4>1. Fresh'
        BY <3>1, <3>3, BeginKeeps DEF Reloaders
      <4>2. at'["timer"] = "assign" /\ left'["timer"] = Lists /\ "timer" \in Running'
        BY <3>3 DEF Begin, ReloadTypeOK, Reloaders, Running
      <4> QED
        BY <3>2, <4>1, <4>2 DEF Due, MemDue, CollectorDue
    <3>4. CASE BeginFails("timer") /\ unread' = TRUE
      <4>1. Fresh'
        BY <3>1, <3>4 DEF Fresh, BeginFails, reload
      <4>2. Due'
        BY <3>4 DEF Due
      <4> QED
        BY <3>2, <4>1, <4>2
    <3> QED
      BY <2>8, <3>3, <3>4 DEF TimerFires
  <2>9. CASE Hangup
    <3>1. CASE BeginFails("signal") /\ UNCHANGED <<before, unread>>
      BY <2>9, <3>1 DEF Hangup, BeginFails, reload, StaleTogether, Fresh, Due, MemDue,
                        CollectorDue, Running
    <3>2. CASE Begin("signal")
                 /\ before' = IF before = {} THEN {} ELSE before \cup {"signal"}
      <4>1. watching /\ watching' = watching /\ armed' = armed
        BY <2>9, <3>2 DEF Hangup, Begin
      <4>2. Running' = Running \cup {"signal"}
        BY <3>2 DEF Begin, ReloadTypeOK, Reloaders, Running
      <4>3. StaleTogether'
        BY <3>2, <4>1, <4>2 DEF StaleTogether
      <4>4. Fresh'
        BY <3>2, BeginKeeps DEF Reloaders
      <4>5. at'["signal"] = "assign" /\ left'["signal"] = Lists /\ "signal" \in Running'
        BY <3>2 DEF Begin, ReloadTypeOK, Reloaders, Running
      <4>6. Due'
        BY <4>5 DEF Due, MemDue, CollectorDue
      <4> QED
        BY <4>3, <4>4, <4>6
    <3> QED
      BY <2>9, <3>1, <3>2 DEF Hangup
  <2>10. ASSUME NEW r \in Reloaders, NEW l \in Lists, Assign(r, l)
         PROVE  StaleTogether' /\ Fresh' /\ Due'
    <3>1. Running' = Running /\ before' = before /\ armed' = armed /\ watching' = watching
          /\ unread' = unread /\ file' = file /\ collector' = collector /\ at' = at
          /\ read' = read /\ r \in Running /\ at[r] = "assign"
      BY <2>10 DEF Assign, Running, watcher
    <3>2. StaleTogether'
      BY <3>1 DEF StaleTogether
    <3>3. before = {} => mem' = [mem EXCEPT ![l] = file[l]]
      BY <2>10 DEF Assign, Fresh
    <3>4. left' = [left EXCEPT ![r] = @ \ {l}]
      BY <2>10 DEF Assign
    <3>5. Fresh'
      <4> SUFFICES ASSUME before = {} PROVE Fresh'
        BY <3>1 DEF Fresh
      <4>1. mem' \in Content /\ mem'[l] = file[l] /\ \A k \in Lists \ {l} : mem'[k] = mem[k]
        BY <3>3 DEF ReloadTypeOK, Content
      <4>2. mem = file => mem' = file
        BY <4>1 DEF ReloadTypeOK, Content
      <4>3. \A q \in Reloaders \ {r} : left'[q] = left[q]
        BY <3>4 DEF ReloadTypeOK
      <4>4. left'[r] = left[r] \ {l}
        BY <3>4 DEF ReloadTypeOK
      <4> QED
        BY <3>1, <4>1, <4>2, <4>3, <4>4 DEF Fresh
    <3>6. Due'
      <4> SUFFICES ASSUME ~armed, ~unread, NEW k \in Lists
                   PROVE  MemDue(k)' /\ CollectorDue(k)'
        BY <3>1 DEF Due
      <4>1. before = {} /\ MemDue(k)
        BY DEF StaleTogether, Due
      <4>2. MemDue(k)'
        BY <4>1, <3>1, <3>3, <3>4 DEF MemDue, ReloadTypeOK, Content, Running
      <4> QED
        BY <4>2, <3>1 DEF CollectorDue
    <3> QED
      BY <3>2, <3>5, <3>6
  <2>11. ASSUME NEW r \in Reloaders, NEW l \in Lists, Update(r, l)
         PROVE  StaleTogether' /\ Fresh' /\ Due'
    <3>1. Running' = Running /\ before' = before /\ armed' = armed /\ watching' = watching
          /\ unread' = unread /\ file' = file /\ mem' = mem /\ at' = at
          /\ read' = read /\ r \in Running /\ at[r] = "update"
      BY <2>11 DEF Update, Running, watcher
    <3>2. StaleTogether'
      BY <3>1 DEF StaleTogether
    <3>3. before = {} => collector' = [collector EXCEPT ![l] = file[l]]
      BY <2>11 DEF Update, Fresh
    <3>4. left' = [left EXCEPT ![r] = @ \ {l}]
      BY <2>11 DEF Update
    <3>5. Fresh'
      <4> SUFFICES ASSUME before = {} PROVE Fresh'
        BY <3>1 DEF Fresh
      <4>1. collector'[l] = file[l] /\ \A k \in Lists \ {l} : collector'[k] = collector[k]
        BY <3>3 DEF ReloadTypeOK, Content
      <4>2. \A q \in Reloaders \ {r} : left'[q] = left[q]
        BY <3>4 DEF ReloadTypeOK
      <4>3. left'[r] = left[r] \ {l}
        BY <3>4 DEF ReloadTypeOK
      <4> QED
        BY <3>1, <4>1, <4>2, <4>3 DEF Fresh
    <3>6. Due'
      <4> SUFFICES ASSUME ~armed, ~unread, NEW k \in Lists
                   PROVE  MemDue(k)' /\ CollectorDue(k)'
        BY <3>1 DEF Due
      <4>1. before = {} /\ MemDue(k) /\ CollectorDue(k)
        BY DEF StaleTogether, Due
      <4>2. MemDue(k)'
        BY <4>1, <3>1, <3>4 DEF MemDue, ReloadTypeOK, Running
      <4>3. CollectorDue(k)'
        BY <4>1, <3>1, <3>3, <3>4 DEF CollectorDue, ReloadTypeOK, Content, Running
      <4> QED
        BY <4>2, <4>3
    <3> QED
      BY <3>2, <3>5, <3>6
  <2>12. ASSUME NEW r \in Reloaders, Call(r) PROVE StaleTogether' /\ Fresh' /\ Due'
    <3>1. Running' = Running /\ before' = before /\ armed' = armed /\ watching' = watching
          /\ unread' = unread /\ file' = file /\ mem' = mem /\ collector' = collector
      BY <2>12 DEF Call, Running, watcher, ReloadTypeOK
    <3>2. StaleTogether'
      BY <3>1 DEF StaleTogether
    <3>3. at'[r] = "update" /\ read'[r] = mem /\ left'[r] = Lists /\ left[r] = {}
          /\ at[r] = "assign" /\ r \in Running
      BY <2>12 DEF Call, ReloadTypeOK, Running
    <3>4. \A q \in Reloaders \ {r} :
            at'[q] = at[q] /\ read'[q] = read[q] /\ left'[q] = left[q]
      BY <2>12 DEF Call, ReloadTypeOK
    <3>5. before = {} => mem = file
      BY <3>3 DEF Fresh, ReloadTypeOK, Content
    <3>6. Fresh'
      BY <3>1, <3>3, <3>4, <3>5 DEF Fresh
    <3>7. Due'
      BY <3>1, <3>3, <3>4, <3>5 DEF Due, MemDue, CollectorDue, StaleTogether, Running
    <3> QED
      BY <3>2, <3>6, <3>7
  <2>13. ASSUME NEW r \in Reloaders, Return(r) PROVE StaleTogether' /\ Fresh' /\ Due'
    <3>1. armed' = armed /\ watching' = watching /\ unread' = unread /\ file' = file
          /\ mem' = mem /\ collector' = collector /\ before' = before \ {r}
          /\ left' = left /\ left[r] = {} /\ at[r] = "update"
      BY <2>13 DEF Return
    <3>2. Running' = Running \ {r} /\ at'[r] = "idle"
      BY <2>13 DEF Return, Running, ReloadTypeOK
    <3>3. StaleTogether'
      BY <3>1, <3>2 DEF StaleTogether
    <3>4. \A q \in Reloaders \ {r} : at'[q] = at[q] /\ read'[q] = read[q]
      BY <2>13 DEF Return, ReloadTypeOK
    <3>5. Fresh'
      <4> SUFFICES ASSUME before' = {} PROVE Fresh'
        BY DEF Fresh
      <4>1. CASE before = {}
        BY <4>1, <3>1, <3>2, <3>4 DEF Fresh
      <4>2. CASE before # {}
        <5>1. Running' = {}
          BY <4>2, <3>1, <3>2 DEF StaleTogether
        <5>2. \A q \in Reloaders : at'[q] = "idle"
          BY <5>1 DEF Running
        <5> QED
          BY <5>2 DEF Fresh
      <4> QED
        BY <4>1, <4>2
    <3>6. Due'
      BY <3>1, <3>2, <3>4 DEF Due, MemDue, CollectorDue, Running
    <3> QED
      BY <3>3, <3>5, <3>6
  <2>14. CASE UNCHANGED reloadVars
    BY <2>14 DEF reloadVars, reload, saving, user, watcher, StaleTogether, Fresh, Due, MemDue,
                 CollectorDue, Running
  <2> QED
    BY <2>1, <2>2, <2>3, <2>4, <2>5, <2>6, <2>7, <2>8, <2>9, <2>10, <2>11, <2>12,
       <2>13, <2>14, <2>15 DEF ReloadNext, ReloadStep
<1>3. ReloadTypeOK /\ Due => QuietIsCurrent
  BY DEF Due, MemDue, CollectorDue, QuietIsCurrent, ReloadTypeOK, Content
<1> QED
  BY <1>1, <1>2, <1>3, ReloadTyping, PTL DEF ReloadSpec
=============================================================================
