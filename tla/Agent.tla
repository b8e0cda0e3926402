------------------------------- MODULE Agent -------------------------------
(***************************************************************************)
(* The life of one agent installation, internal/core/agent.go: processes   *)
(* that boot from the configuration file, register or verify, wait for     *)
(* approval, report, and end; the conflict retries; and the probe results  *)
(* that reports carry (internal/network/monitor.go).                       *)
(*                                                                         *)
(* The main goroutine is the only writer of the agent's state, so a step   *)
(* is the code between two blocking calls.  The backend is "verdict", its  *)
(* present attitude to the token the agent shows:                          *)
(*   approved, pending   200, with or without is_approved                  *)
(*   invalid, conflict   401, 403 "another agent instance"                 *)
(*   down                no answer, or any other error (5xx, 429, 403)     *)
(* Sleeps are left out: a step that would sleep can simply be late.        *)
(* The URL and the run_id are only present or absent; a token is the       *)
(* ordinal of the identity (server record) the backend made for it, 0 if   *)
(* there is none.                                                          *)
(***************************************************************************)
EXTENDS Functions, Sequences

CONSTANTS
  MaxRetries,    \* the 5 of the two conflict loops
  MaxFaults,     \* bound: crashes, failed saves, lost registration replies
  MaxChanges,    \* bound: changes of the backend's attitude
  MaxResults     \* bound: probe results produced

ASSUME AgentAssumption ==
  /\ MaxRetries \in Nat \ {0}
  /\ MaxFaults \in Nat /\ MaxChanges \in Nat /\ MaxResults \in Nat

States == {"INIT", "REGISTERING", "VERIFYING", "WAITING_APPROVAL",
           "REPORTING", "STOPPED"}
Points == {"down", "handshake", "pause", "verify", "register", "retryPause",
           "save", "main", "poll", "report", "reporting", "rateLimited"}
Sites  == {"boot", "handshake", "handshakeRetry", "reportRetry"}
Verdicts == {"approved", "pending", "invalid", "conflict", "down"}

Options == [url : BOOLEAN, reg : {"none", "valid", "bad"}, token : BOOLEAN,
            force : BOOLEAN]

VARIABLES
  st,        \* Agent.State
  pc,        \* where the main goroutine is; "down": there is no process
  from,      \* which call of doVerify, doRegister or Save it is in
  next,      \* the state it will set once Save has returned
  tries,     \* i of the conflict loop it is in
  stop,      \* the agent was told to stop, for good
  cfg,       \* Config.ServerURL, Token and RunID in memory
  disk,      \* the same in the configuration file
  opts,      \* flags and environment: the same at every boot
  verdict,   \* the backend's attitude
  issued,    \* identities the backend has made for this machine
  probing,   \* a dispatch has scheduled probe groups in this process
  produced,  \* probe results produced so far, numbered 1, 2, ...
  pending,   \* netMonitor.pendingResults
  inflight,  \* networkResults: flushed, in the current report
  acked,     \* history: results of the reports that were answered with 200
  dropped,   \* history: results given up
  streak,    \* history: conflicts answered in a row
  excused,   \* history: an identity was lost or replaced on purpose
  faults, changes   \* bounds

identity == <<cfg, disk, issued, excused>>
results  == <<probing, produced, pending, inflight, acked, dropped>>
control  == <<st, pc, from, next, tries, streak>>
vars == <<control, stop, opts, verdict, identity, results, faults, changes>>

NoIdentity == [url |-> FALSE, token |-> 0, run |-> FALSE]
Known(token, run) == [url |-> TRUE, token |-> token, run |-> run]

\* install.sh writes URL and token into the file, the compose file passes both
\* in the environment; --reg-token and --force go with either
Init ==
  /\ st = "INIT" /\ pc = "down" /\ from = "boot" /\ next = "INIT"
  /\ tries = 0 /\ streak = 0 /\ stop = FALSE
  /\ opts \in Options
  /\ disk \in {NoIdentity, Known(0, FALSE), Known(1, FALSE), Known(1, TRUE)}
  /\ opts.token => opts.url
  /\ disk.token = 0 => disk.url # opts.url
  /\ cfg = NoIdentity
  /\ issued = IF opts.token \/ disk.token = 1 THEN 1 ELSE 0
  /\ verdict \in Verdicts
  /\ probing = FALSE /\ produced = 0 /\ pending = <<>> /\ inflight = <<>>
  /\ acked = {} /\ dropped = {} /\ excused = FALSE
  /\ faults = 0 /\ changes = 0

-----------------------------------------------------------------------------
(* Boot: main, Load, New and Run up to mainLoop.                           *)

\* flags and environment come before the file
Load == [url   |-> opts.url \/ disk.url,
         token |-> IF opts.token THEN 1 ELSE disk.token,
         run   |-> disk.run]

HasCredentialsBoth(c) == opts.reg # "none"   \* mutation: || for && in main
HasCredentials(c) == c.token # 0 \/ opts.reg # "none"

\* "missing server URL", "missing auth credentials": main exits
Bootable == Load.url /\ HasCredentials(Load)

ForceRegister == opts.force /\ opts.reg # "none"

IsRegisteredUnlessForced == cfg.token # 0 /\ ~ForceRegister   \* mutation: --force
                                       \* registers anew at every boot
\* main has seen to the URL
IsRegistered == cfg.token # 0

\* no call of doVerify, doRegister or Save is under way, no conflict loop
Returned == from' = "boot" /\ next' = "INIT" /\ tries' = 0

\* ensureRunID: --force clears the run_id, a missing one is made and saved
Boot ==
  /\ pc = "down" /\ ~stop /\ Bootable
  /\ st' = "INIT" /\ streak' = 0 /\ Returned
  /\ cfg' = Known(Load.token, ~opts.force)
  /\ pc' = IF opts.force \/ Load.run THEN "handshake" ELSE "save"
  /\ UNCHANGED <<stop, opts, verdict, disk, issued, excused, results, faults, changes>>

-----------------------------------------------------------------------------
(* initialHandshake, doVerify, doRegister, Save                            *)

isStoppedNever == FALSE    \* mutation: the context that is asked is another one
isStopped == stop

RetriesLeftEarly == tries + 1 < MaxRetries   \* mutation: one retry too few
RetriesLeft == tries < MaxRetries

EnterVerify(site)   == pc' = "verify" /\ st' = "VERIFYING" /\ from' = site
EnterRegister(site) == pc' = "register" /\ st' = "REGISTERING" /\ from' = site

\* the switch; its default branch cannot be reached with credentials
Handshake ==
  /\ pc = "handshake"
  /\ \/ isStopped /\ pc' = "main" /\ UNCHANGED <<st, from>>
     \/ ~isStopped /\ IsRegistered /\ EnterVerify("handshake")
     \/ ~isStopped /\ ~IsRegistered /\ EnterRegister("handshake")
  /\ UNCHANGED <<next, tries, streak, stop, opts, verdict, identity, results, faults, changes>>

\* "handshake failed, retrying": the sleep at the end of the loop
Pause ==
  /\ pc = "pause" /\ pc' = "handshake"
  /\ UNCHANGED <<st, from, next, tries, streak, stop, opts, verdict, identity,
                 results, faults, changes>>

\* where a verify that neither succeeded nor conflicted sends its caller
GiveUpVerify ==
  IF from = "reportRetry" THEN pc' = "report" ELSE pc' = "pause"

VerifyAccepted ==
  /\ pc = "verify" /\ verdict \in {"approved", "pending"}
  /\ pc' = "save" /\ streak' = 0
  /\ next' = IF verdict = "approved" THEN "REPORTING" ELSE "WAITING_APPROVAL"
  /\ UNCHANGED <<st, from, tries, stop, opts, verdict, identity, results, faults, changes>>

VerifyFails ==
  /\ pc = "verify" /\ verdict = "down"
  /\ GiveUpVerify /\ streak' = 0
  /\ UNCHANGED <<st, from, next, tries, stop, opts, verdict, identity, results,
                 faults, changes>>

\* 401: a forced handshake registers instead, the conflict loop of the
\* handshake goes back to the switch, everyone else stops
VerifyRejected ==
  /\ pc = "verify" /\ verdict = "invalid"
  /\ streak' = 0
  /\ CASE from = "handshake" /\ ForceRegister -> EnterRegister(from)
       [] from = "handshake" /\ ~ForceRegister ->
            pc' = "main" /\ st' = "STOPPED" /\ UNCHANGED from
       [] from = "handshakeRetry" -> pc' = "pause" /\ UNCHANGED <<st, from>>
       [] from = "reportRetry" ->
            pc' = "report" /\ st' = "STOPPED" /\ UNCHANGED from
  /\ UNCHANGED <<next, tries, stop, opts, verdict, identity, results, faults, changes>>

VerifyConflicts ==
  /\ pc = "verify" /\ verdict = "conflict"
  /\ streak' = streak + 1
  /\ \/ /\ from = "handshake"
        /\ pc' = "retryPause" /\ from' = "handshakeRetry" /\ tries' = 0
        /\ UNCHANGED st
     \/ /\ from # "handshake" /\ RetriesLeft
        /\ pc' = "retryPause" /\ UNCHANGED <<st, from, tries>>
     \/ /\ from # "handshake" /\ ~RetriesLeft
        /\ st' = "STOPPED"
        /\ pc' = IF from = "reportRetry" THEN "report" ELSE "main"
        /\ UNCHANGED <<from, tries>>
  /\ UNCHANGED <<next, stop, opts, verdict, identity, results, faults, changes>>

\* the 5 seconds between two attempts of a conflict loop
RetryPause ==
  /\ pc = "retryPause"
  /\ \/ /\ isStopped
        /\ pc' = IF from = "reportRetry" THEN "report" ELSE "main"
        /\ UNCHANGED <<st, from, tries>>
     \/ ~isStopped /\ tries' = tries + 1 /\ EnterVerify(from)
  /\ UNCHANGED <<next, streak, stop, opts, verdict, identity, results, faults, changes>>

RegisterAccepted ==
  /\ pc = "register" /\ verdict # "down" /\ opts.reg = "valid"
  /\ issued' = issued + 1
  /\ cfg' = Known(issued', TRUE)
  /\ excused' = (excused \/ IsRegistered)
  /\ verdict' = "pending"
  /\ pc' = "save" /\ next' = "WAITING_APPROVAL" /\ streak' = 0
  /\ UNCHANGED <<st, from, tries, stop, opts, disk, results, faults, changes>>

RegisterRejected ==
  /\ pc = "register" /\ verdict # "down" /\ opts.reg = "bad"
  /\ pc' = "main" /\ st' = "STOPPED"
  /\ UNCHANGED <<from, next, tries, streak, stop, opts, verdict, identity,
                 results, faults, changes>>

\* no answer; the backend may have made the record all the same
RegisterFails ==
  /\ pc = "register" /\ verdict = "down"
  /\ pc' = "pause"
  /\ \/ UNCHANGED <<issued, excused, faults>>
     \/ /\ opts.reg = "valid" /\ faults < MaxFaults
        /\ issued' = issued + 1 /\ excused' = TRUE /\ faults' = faults + 1
  /\ UNCHANGED <<st, from, next, tries, streak, stop, opts, verdict, cfg, disk,
                 results, changes>>

\* the file now holds d; a restart forgets a token that is neither there nor
\* in the flags
Stored(d) ==
  disk' = d /\ excused' = (excused \/ (d.token # cfg.token /\ ~opts.token))

\* os.WriteFile truncates the file and writes it in the order URL, token,
\* run_id: what is there when it was cut off
Truncated == {NoIdentity, Known(0, FALSE), Known(cfg.token, FALSE)}

\* every caller ignores Save's error; a write that failed leaves the file as
\* it was, or truncated.  doVerify then hands the dispatch, if there is one, to the
\* probe monitor.
Save ==
  /\ pc = "save"
  /\ \/ Stored(cfg) /\ UNCHANGED faults
     \/ /\ faults < MaxFaults /\ faults' = faults + 1
        /\ \E d \in {disk} \cup Truncated : Stored(d)
  /\ st' = next
  /\ pc' = CASE from = "boot" -> "handshake"
             [] from = "reportRetry" -> "report"
             [] OTHER -> "main"
  /\ probing' \in {probing, probing \/ next = "REPORTING"}
  /\ UNCHANGED <<from, next, tries, streak, stop, opts, verdict, cfg, issued,
                 produced, pending, inflight, acked, dropped, changes>>

-----------------------------------------------------------------------------
(* mainLoop, pollApproval, shutdown                                        *)

MainLoop ==
  /\ pc = "main"
  /\ ~isStopped /\ st \in {"WAITING_APPROVAL", "REPORTING"}
  /\ pc' = IF st = "REPORTING" THEN "report" ELSE "poll"
  /\ Returned
  /\ UNCHANGED <<st, streak, stop, opts, verdict, identity, results, faults, changes>>

\* stopped, StateStopped, or "unexpected state, stopping": the process ends
\* and its memory with it
Shutdown ==
  /\ pc = "main"
  /\ isStopped \/ st \notin {"WAITING_APPROVAL", "REPORTING"}
  /\ st' = "STOPPED" /\ pc' = "down" /\ probing' = FALSE /\ streak' = 0 /\ Returned
  /\ dropped' = dropped \cup Range(inflight \o pending)
  /\ pending' = <<>> /\ inflight' = <<>> /\ cfg' = NoIdentity
  /\ UNCHANGED <<stop, opts, verdict, disk, issued, excused, produced, acked,
                 faults, changes>>

\* every other answer is slept on: the loop polls again
Poll ==
  /\ pc = "poll"
  /\ \/ isStopped /\ pc' = "main" /\ UNCHANGED st
     \/ ~isStopped /\ verdict = "approved" /\ pc' = "main" /\ st' = "REPORTING"
     \/ ~isStopped /\ verdict = "invalid" /\ pc' = "main" /\ st' = "STOPPED"
  /\ UNCHANGED <<from, next, tries, streak, stop, opts, verdict, identity,
                 results, faults, changes>>

-----------------------------------------------------------------------------
(* reportLoop, handleReportError and the buffer of probe results           *)

FlushKeeps == inflight' = pending /\ UNCHANGED <<pending, dropped>>  \* mutation:
                                                \* the buffer is not emptied
FlushPendingResults == inflight' = pending /\ pending' = <<>> /\ UNCHANGED dropped

DropResults ==
  dropped' = dropped \cup Range(inflight) /\ inflight' = <<>> /\ UNCHANGED pending

RequeueBehind ==     \* mutation: append(m.pendingResults, results...)
  pending' = pending \o inflight /\ inflight' = <<>> /\ UNCHANGED dropped
RequeueResults ==
  pending' = inflight \o pending /\ inflight' = <<>> /\ UNCHANGED dropped

\* both tests of the loop: after a report and after the sleep
ReportLoopEnds ==
  /\ pc = "report" /\ (isStopped \/ st # "REPORTING")
  /\ pc' = "main"
  /\ UNCHANGED <<st, from, next, tries, streak, stop, opts, verdict, identity,
                 results, faults, changes>>

SendReport ==
  /\ pc = "report" /\ ~isStopped /\ st = "REPORTING"
  /\ FlushPendingResults
  /\ pc' = "reporting"
  /\ UNCHANGED <<st, from, next, tries, streak, stop, opts, verdict, identity,
                 probing, produced, acked, faults, changes>>

ReportAccepted ==
  /\ pc = "reporting" /\ verdict = "approved"
  /\ acked' = acked \cup Range(inflight) /\ inflight' = <<>>
  /\ probing' \in {probing, TRUE}
  /\ pc' = "report" /\ streak' = 0
  /\ UNCHANGED <<st, from, next, tries, stop, opts, verdict, identity, produced,
                 pending, dropped, faults, changes>>

\* 403 without the conflict text, 401: the results are not requeued
ReportRefused ==
  /\ pc = "reporting" /\ verdict \in {"pending", "invalid"}
  /\ st' = IF verdict = "pending" THEN "WAITING_APPROVAL" ELSE "STOPPED"
  /\ DropResults
  /\ pc' = "report" /\ streak' = 0
  /\ UNCHANGED <<from, next, tries, stop, opts, verdict, identity, probing,
                 produced, acked, faults, changes>>

ReportConflicts ==
  /\ pc = "reporting" /\ verdict = "conflict"
  /\ RequeueResults
  /\ pc' = "retryPause" /\ from' = "reportRetry" /\ tries' = 0
  /\ streak' = streak + 1
  /\ UNCHANGED <<st, next, stop, opts, verdict, identity, probing, produced,
                 acked, faults, changes>>

\* 5xx, other errors, no answer (the backend may have the results): requeue
\* at once; 429: sleep first
ReportFails ==
  /\ pc = "reporting" /\ verdict = "down"
  /\ streak' = 0
  /\ \/ pc' = "report" /\ RequeueResults
     \/ pc' = "rateLimited" /\ UNCHANGED <<pending, inflight, dropped>>
  /\ UNCHANGED <<st, from, next, tries, stop, opts, verdict, identity, probing,
                 produced, acked, faults, changes>>

RateLimitOver ==
  /\ pc = "rateLimited"
  /\ pc' = "report" /\ RequeueResults
  /\ UNCHANGED <<st, from, next, tries, streak, stop, opts, verdict, identity,
                 probing, produced, acked, faults, changes>>

\* fireProbes appends what a probe returned, in whatever state the agent is
ProbeResult ==
  /\ probing /\ produced < MaxResults
  /\ produced' = produced + 1
  /\ pending' = Append(pending, produced')
  /\ UNCHANGED <<control, stop, opts, verdict, identity, probing, inflight,
                 acked, dropped, faults, changes>>

-----------------------------------------------------------------------------
(* The world                                                               *)

Signal ==
  /\ ~stop /\ stop' = TRUE
  /\ UNCHANGED <<control, opts, verdict, identity, results, faults, changes>>

BackendChanges ==
  /\ changes < MaxChanges /\ changes' = changes + 1
  /\ verdict' \in Verdicts \ {verdict}
  /\ UNCHANGED <<control, stop, opts, identity, results, faults>>

\* kill -9, power loss, os.Exit in TriggerRestart.  A process killed in Save
\* leaves the old file or a truncated one; one killed while it registers may
\* have been given an identity.
Crash ==
  /\ pc # "down" /\ faults < MaxFaults /\ faults' = faults + 1
  /\ \/ pc = "save" /\ UNCHANGED issued /\ \E d \in {disk} \cup Truncated : Stored(d)
     \/ pc = "register" /\ opts.reg = "valid"
          /\ issued' = issued + 1 /\ excused' = TRUE /\ UNCHANGED disk
     \/ pc # "save" /\ UNCHANGED <<issued, excused, disk>>
  /\ pc' = "down" /\ st' = "INIT" /\ cfg' = NoIdentity /\ probing' = FALSE
  /\ streak' = 0 /\ Returned
  /\ dropped' = dropped \cup Range(inflight \o pending)
  /\ pending' = <<>> /\ inflight' = <<>>
  /\ UNCHANGED <<stop, opts, verdict, produced, acked, changes>>

-----------------------------------------------------------------------------
Process ==
  \/ Handshake \/ Pause \/ RetryPause \/ Save
  \/ VerifyAccepted \/ VerifyFails \/ VerifyRejected \/ VerifyConflicts
  \/ RegisterAccepted \/ RegisterRejected \/ RegisterFails
  \/ MainLoop \/ Shutdown \/ Poll
  \/ ReportLoopEnds \/ SendReport \/ ReportAccepted \/ ReportRefused
  \/ ReportConflicts \/ ReportFails \/ RateLimitOver

Next ==
  \/ Boot \/ Process
  \/ ProbeResult \/ Signal \/ BackendChanges \/ Crash

\* The goroutine runs, requests time out after 15 seconds, and systemd
\* (Restart=always) or Docker (unless-stopped) restarts what has ended.
Fairness == WF_vars(Boot) /\ WF_vars(Process)

Spec == Init /\ [][Next]_vars
FairSpec == Spec /\ Fairness

-----------------------------------------------------------------------------
(* Types.                                                                  *)
Identity == [url : BOOLEAN, token : Nat, run : BOOLEAN]

TypeOK ==
  /\ st \in States /\ pc \in Points /\ from \in Sites
  /\ next \in {"INIT", "WAITING_APPROVAL", "REPORTING"}
  /\ tries \in 0..MaxRetries /\ streak \in Nat /\ stop \in BOOLEAN
  /\ cfg \in Identity /\ disk \in Identity
  /\ opts \in Options
  /\ verdict \in Verdicts /\ issued \in Nat /\ probing \in BOOLEAN
  /\ produced \in 0..MaxResults
  /\ pending \in Seq(1..produced) /\ inflight \in Seq(1..produced)
  /\ acked \subseteq 1..produced /\ dropped \subseteq 1..produced
  /\ excused \in BOOLEAN
  /\ faults \in 0..MaxFaults /\ changes \in 0..MaxChanges

(* Every probe result is queued, acknowledged or given up, and only one of *)
(* these: no flush, requeue or failed report loses one or sends one again  *)
(* after it was acknowledged.                                              *)
ResultsAccounted ==
  LET queued == Range(inflight \o pending) IN
  /\ queued \cup acked \cup dropped = 1..produced
  /\ queued \cap (acked \cup dropped) = {}
  /\ acked \cap dropped = {}

(* The buffer is a queue: RequeueResults puts a failed report's results    *)
(* back before those that arrived meanwhile.                               *)
Queue == INSTANCE ResultQueue WITH queue <- inflight \o pending
ImplementsResultQueue == Queue!Spec

(* A transient failure (no answer, 5xx, 429, a run_id conflict) never costs *)
(* a probe result: only a refusal or the end of the process does.          *)
TransientErrorsKeepResults ==
  [][dropped' # dropped => verdict \in {"pending", "invalid"} \/ pc' = "down"]_vars

(* One machine, one server record: a second identity is registered only    *)
(* after a save, or a crash in it, that has not left the first in the file *)
(* (whether or not memory lost it later), an unanswered request, or a      *)
(* forced registration over one that was there.                            *)
OneIdentity == issued > 1 => excused

(* An agent ends of itself for four reasons only: it was told to stop, its *)
(* token or its registration was rejected, or it was answered with         *)
(* MaxRetries + 1 conflicts in a row; and for one that nobody meant: the   *)
(* conflict retries of a report ended with another error, after which      *)
(* mainLoop finds VERIFYING and stops ("Left"; see ExpectedState).         *)
Left == from = "reportRetry" /\ st = "VERIFYING" /\ tries > 0 /\ streak = 0

StopsOnlyForItsReasons ==
  [][st # "STOPPED" /\ st' = "STOPPED"
       => \/ pc = "main" /\ (stop \/ Left)
          \/ pc \in {"verify", "poll", "reporting"} /\ verdict = "invalid"
          \/ pc = "register" /\ opts.reg = "bad"
          \/ pc = "verify" /\ streak' = MaxRetries + 1]_vars

(* A stop is obeyed wherever it finds the agent.                           *)
StopHonoured == stop ~> pc = "down"

(* However it got there, an agent whose token is approved for good, and    *)
(* that is not stopped, reports again and again.                           *)
Usable ==
  /\ ~stop /\ verdict = "approved"
  /\ Load.url /\ (Load.token # 0 \/ opts.reg = "valid")
KeepsReporting == <>[]Usable => []<>(pc = "reporting")

(* mainLoop calls the remaining states unexpected: it is entered in a      *)
(* state it knows.  The code does not keep it.                             *)
ExpectedState ==
  pc = "main" /\ ~stop => st \in {"WAITING_APPROVAL", "REPORTING", "STOPPED"}
=============================================================================
