----------------------------- MODULE Reporting -----------------------------
(***************************************************************************)
(* What the collector (internal/collector/collector.go) takes for reported *)
(* and what the backend has heard, over a report loop                      *)
(* (internal/core/agent.go) whose requests and answers get lost.  The      *)
(* hardware goes with every verification, and with a report only when it   *)
(* is not what the last report took; of the network counters a report      *)
(* gives the rate since the last confirmed one.                            *)
(*                                                                         *)
(* A rate is modelled by the bytes it stands for, one direction alone, of  *)
(* an interface that the configuration names.  The five minutes of the     *)
(* hardware cache are some time that passes.  What Report does with its    *)
(* errors is in Agent: here it goes on, verifies again, or waits.          *)
(***************************************************************************)
EXTENDS Naturals

CONSTANTS
  Hardware, Nil,  \* what a scan may find, and a nil HardwareInfo
  Other,          \* bytes counted on all the other interfaces
  MaxBytes, MaxChanges, MaxTroubles  \* bounds

ASSUME ReportingAssumption ==
  /\ Hardware # {} /\ Nil \notin Hardware /\ Other \in Nat
  /\ MaxBytes \in Nat /\ MaxChanges \in Nat /\ MaxTroubles \in Nat

VARIABLES
  hw, rx, present, \* the machine: hardware, counter of the interface, whether it exists
  prevNet,    \* the baseline's counter
  timed,      \* prevNetTime is not nil; until then prevNet is not used
  currentNet, \* the counter at the last CollectLoad
  back,       \* the wall clock has been set back since prevNetTime
  saved,      \* net_state.json
  cachedHW, expired, lastHW,
  pc,         \* the main goroutine: in verify, handshake, wait, report
  sent,       \* the request under way
  known,      \* the hardware that the backend knows
  unheard,    \* history: the last change went with a report that failed
  contradicted, \* history: a verification has told other than the last report
  told, moved,  \* history: bytes in confirmed reports, and on the interface,
              \* since the first sample of the process
  odd,        \* history: the interface was made anew, or a confirmed rate was
              \* measured with a clock that went back
  strayed,    \* history: a sample that is not the interface's counter has
              \* become the baseline, the first one or a confirmed one
  changes, troubles  \* count against the bounds

machine == <<hw, rx, present, changes>>
net     == <<prevNet, timed, currentNet, back, saved>>
cache   == <<cachedHW, expired, lastHW>>
backend == <<known, unheard, contradicted>>
flow    == <<told, moved, odd, strayed>>
vars == <<machine, net, cache, pc, sent, backend, flow, troubles>>

NoRequest == [hw |-> Nil, bytes |-> 0, back |-> FALSE, stray |-> FALSE]

Init ==
  /\ hw \in Hardware /\ rx = 0 /\ present = TRUE /\ changes = 0 /\ troubles = 0
  /\ prevNet = 0 /\ timed = FALSE /\ currentNet = 0 /\ back = FALSE /\ saved = 0
  /\ cachedHW = Nil /\ expired = FALSE /\ lastHW = Nil
  /\ pc = "verify" /\ sent = NoRequest
  /\ known = Nil /\ unheard = FALSE /\ contradicted = FALSE
  /\ told = 0 /\ moved = 0 /\ odd = FALSE /\ strayed = FALSE

Trouble == troubles < MaxTroubles /\ troubles' = troubles + 1

-----------------------------------------------------------------------------
(* The machine                                                             *)

HardwareChanges ==
  /\ changes < MaxChanges /\ changes' = changes + 1
  /\ hw' \in Hardware \ {hw}
  /\ UNCHANGED <<rx, present, net, cache, pc, sent, backend, flow, troubles>>

Traffic ==
  /\ present /\ rx < MaxBytes /\ rx' = rx + 1 /\ moved' = moved + 1
  /\ UNCHANGED <<hw, present, changes, net, cache, pc, sent, backend, told, odd,
                 strayed, troubles>>

\* a link that is taken down; a new one counts from nothing
Vanish ==
  /\ present /\ Trouble /\ present' = FALSE /\ rx' = 0 /\ odd' = TRUE
  /\ UNCHANGED <<hw, changes, net, cache, pc, sent, backend, told, moved, strayed>>

Reappear ==
  /\ ~present /\ present' = TRUE
  /\ UNCHANGED <<hw, rx, changes, net, cache, pc, sent, backend, flow, troubles>>

\* monotonicSeconds is the wall clock
ClockSetBack ==
  /\ timed /\ ~back /\ Trouble /\ back' = TRUE
  /\ UNCHANGED <<machine, prevNet, timed, currentNet, saved, cache, pc, sent, backend,
                 flow>>

\* hwCacheTTL has passed
Expire ==
  /\ cachedHW # Nil /\ ~expired /\ expired' = TRUE
  /\ UNCHANGED <<machine, net, cachedHW, lastHW, pc, sent, backend, flow, troubles>>

-----------------------------------------------------------------------------
(* The collector                                                           *)

\* an interface that is not found, or counters that cannot be read, are replaced
\* by the totals; when those cannot be read either, by nothing
getNetCounters(n) ==
  \/ n = (IF present THEN rx ELSE Other) /\ UNCHANGED troubles
  \/ n \in {rx + Other, 0} /\ Trouble

Samples == {rx, Other, rx + Other, 0}

\* the difference that calcNetSpeed divides by the time elapsed, if any has
Bytes(n) ==
  IF ~timed \/ back THEN 0 ELSE IF n < prevNet THEN n ELSE n - prevNet

CalcMovesBaseline(n) ==  \* mutation: what has been sampled is the next baseline
  /\ getNetCounters(n) /\ currentNet' = n
  /\ prevNet' = n /\ saved' = n /\ timed' = TRUE /\ strayed' = (strayed \/ n # rx)
  /\ moved' = (IF timed THEN moved ELSE 0) /\ back' = FALSE /\ UNCHANGED <<told, odd>>
\* the first sample of a process is its baseline, whatever was in the file
calcNetSpeed(n) ==
  /\ getNetCounters(n) /\ currentNet' = n
  /\ \/ timed /\ UNCHANGED <<prevNet, timed, back, saved, moved, odd, strayed>>
     \/ /\ ~timed /\ timed' = TRUE /\ back' = FALSE /\ prevNet' = n /\ saved' = n
        /\ moved' = 0 /\ odd' = FALSE /\ strayed' = (n # rx)
  /\ UNCHANGED told

ConfirmNetReported ==
  /\ prevNet' = currentNet /\ timed' = TRUE /\ back' = FALSE /\ saved' = currentNet
  /\ UNCHANGED currentNet

\* found is what CollectHardware returns
CollectHardware(found) ==
  /\ found = (IF cachedHW = Nil \/ expired THEN hw ELSE cachedHW)
  /\ cachedHW' = found /\ expired' = FALSE

FirstIsBaseline(result) ==  \* mutation: as of the counters, the first is not reported
  \E found \in Hardware :
    /\ CollectHardware(found) /\ lastHW' = found
    /\ result = IF lastHW = Nil \/ found = lastHW THEN Nil ELSE found
CollectHardwareIfChanged(result) ==
  \E found \in Hardware :
    /\ CollectHardware(found) /\ lastHW' = found
    /\ result = IF found = lastHW THEN Nil ELSE found

-----------------------------------------------------------------------------
(* The main goroutine and the backend                                      *)

\* NewSystemCollector in a new process
Restart ==
  /\ Trouble /\ pc' = "verify" /\ sent' = NoRequest
  /\ prevNet' = saved /\ timed' = FALSE /\ currentNet' = 0 /\ back' = FALSE
  /\ cachedHW' = Nil /\ expired' = FALSE /\ lastHW' = Nil
  /\ told' = 0 /\ moved' = 0 /\ odd' = FALSE /\ strayed' = FALSE
  /\ UNCHANGED <<machine, saved, backend>>

\* doRegister and doVerify
Verify ==
  /\ pc = "verify" /\ pc' = "handshake"
  /\ \E found \in Hardware :
       CollectHardware(found) /\ sent' = [NoRequest EXCEPT !.hw = found]
  /\ UNCHANGED <<machine, net, lastHW, backend, flow, troubles>>

\* a conflict is resolved within the report loop
Verified ==
  /\ pc = "handshake" /\ sent' = NoRequest
  /\ pc' \in {IF timed THEN "report" ELSE "enter", "wait"}
  /\ known' = sent.hw /\ unheard' = FALSE
  /\ contradicted' = (lastHW # Nil /\ lastHW # sent.hw)
  /\ UNCHANGED <<machine, net, cache, flow, troubles>>

\* tried again; errors other than conflicts end a process that was reporting
\* (Restart)
VerifyFails ==
  /\ pc = "handshake" /\ Trouble /\ pc' = "verify" /\ sent' = NoRequest
  /\ known' \in {known, sent.hw}
  /\ UNCHANGED <<machine, net, cache, unheard, contradicted, flow>>

\* pollApproval, whose Verify carries no hardware
Approved ==
  /\ pc = "wait" /\ pc' = "enter"
  /\ UNCHANGED <<machine, net, cache, sent, backend, flow, troubles>>

\* reportLoop: the first CollectLoad initialises the counters
Enter ==
  /\ pc = "enter" /\ pc' = "report"
  /\ \E n \in Samples : calcNetSpeed(n)
  /\ UNCHANGED <<machine, cache, sent, backend>>

Report ==
  /\ pc = "report" /\ pc' = "sent"
  /\ \E n \in Samples, result \in Hardware \cup {Nil} :
       /\ calcNetSpeed(n) /\ CollectHardwareIfChanged(result)
       /\ sent' = [hw |-> result, bytes |-> Bytes(n), back |-> back, stray |-> n # rx]
  /\ UNCHANGED <<machine, backend>>

Heard == IF sent.hw = Nil THEN known ELSE sent.hw

Received ==
  /\ pc = "sent" /\ pc' = "report" /\ sent' = NoRequest /\ ConfirmNetReported
  /\ known' = Heard
  /\ unheard' = (unheard /\ sent.hw = Nil)
  /\ contradicted' = (contradicted /\ sent.hw = Nil)
  /\ told' = told + sent.bytes /\ odd' = (odd \/ sent.back)
  /\ strayed' = (strayed \/ sent.stray)
  /\ UNCHANGED <<machine, cache, moved, troubles>>

\* the backend has taken the report or not, and the loop goes on, verifies
\* again because of a conflict, or waits for approval
ReportFails ==
  /\ pc = "sent" /\ Trouble /\ pc' \in {"report", "verify", "wait"}
  /\ sent' = NoRequest /\ known' \in {known, Heard}
  /\ unheard' = (unheard \/ sent.hw # Nil)
  /\ UNCHANGED <<machine, net, cache, contradicted, flow>>

-----------------------------------------------------------------------------
Next ==
  \/ HardwareChanges \/ Traffic \/ Vanish \/ Reappear \/ ClockSetBack \/ Expire
  \/ Restart \/ Verify \/ Verified \/ VerifyFails \/ Approved
  \/ Enter \/ Report \/ Received \/ ReportFails

\* time passes, the main goroutine runs, and outages end
Fairness ==
  /\ WF_vars(Expire) /\ WF_vars(Verify) /\ WF_vars(Enter) /\ WF_vars(Report)
  /\ WF_vars(Verified \/ VerifyFails) /\ WF_vars(Received \/ ReportFails)

Spec == Init /\ [][Next]_vars /\ Fairness

\* The type of every variable.
TypeOK ==
  /\ hw \in Hardware /\ rx \in 0..MaxBytes /\ present \in BOOLEAN
  /\ prevNet \in Nat /\ currentNet \in Nat /\ saved \in Nat
  /\ timed \in BOOLEAN /\ back \in BOOLEAN
  /\ cachedHW \in Hardware \cup {Nil} /\ expired \in BOOLEAN
  /\ lastHW \in Hardware \cup {Nil} /\ known \in Hardware \cup {Nil}
  /\ pc \in {"verify", "handshake", "wait", "enter", "report", "sent"}
  /\ sent \in [hw : Hardware \cup {Nil}, bytes : Nat, back : BOOLEAN,
              stray : BOOLEAN]
  /\ unheard \in BOOLEAN /\ contradicted \in BOOLEAN
  /\ told \in Nat /\ moved \in Nat /\ odd \in BOOLEAN /\ strayed \in BOOLEAN
  /\ changes \in 0..MaxChanges /\ troubles \in 0..MaxTroubles

\* A byte that the interface has carried since the first sample is in exactly
\* one of the reports that were confirmed, or ahead of the baseline: what a
\* failed report said is said again, what was carried while a report was under
\* way is said by the next, and a sample that could not be read does no harm if
\* its report fails.  It does if the report is confirmed (strayed).
EachByteOnce == timed /\ ~odd /\ ~strayed => told + (rx - prevNet) = moved

\* Not even an interface that is made anew, or a clock that goes back, brings
\* bytes that were never carried: only a sample that is not the interface's
\* counter does, the totals or nothing in its place, and only as a baseline.
NoPhantomBytes == timed /\ ~strayed => told <= moved

\* The backend gets to know the machine's hardware, unless the last change went
\* with a report that failed (nobody repeats it), or a verification has told
\* the backend what the machine had meanwhile and no longer has.
HardwareIsKnown ==
  <>[](pc = "wait" \/ unheard \/ contradicted \/ known = hw)
=============================================================================
