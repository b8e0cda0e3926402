---------------------------- MODULE Agent_proofs ----------------------------
(***************************************************************************)
(* Proofs about the life of an agent installation, for any number of       *)
(* retries, faults, changes of the backend and probe results.              *)
(***************************************************************************)
EXTENDS Agent, SequenceTheorems, TLAPS

Retrying == from \in {"handshakeRetry", "reportRetry"}

(* Where the main goroutine can be, how many conflicts in a row it has     *)
(* been answered when it is there, and which states it can be in: what     *)
(* mainLoop does not expect is what a stop or a failed retry has left.     *)
Control ==
  /\ pc \in {"verify", "register"} => from # "boot"
  /\ pc = "retryPause" => Retrying /\ tries < MaxRetries /\ streak = tries + 1
  /\ pc = "verify" => streak = IF Retrying THEN tries ELSE 0
  /\ pc \in {"handshake", "pause", "register", "save", "poll", "reporting",
             "rateLimited"} => streak = 0
  /\ pc \in {"main", "report"} /\ ~stop /\ st \in {"WAITING_APPROVAL", "REPORTING"}
       => streak = 0
  /\ pc = "verify" => st = "VERIFYING" /\ (from = "reportRetry" => tries > 0)
  /\ pc = "poll" => st = "WAITING_APPROVAL"
  /\ pc \in {"reporting", "rateLimited"} => st = "REPORTING"
  /\ pc = "save" /\ from # "boot" => next # "INIT"
  /\ pc \in {"main", "report"} =>
       st \in {"WAITING_APPROVAL", "REPORTING", "STOPPED"} \/ stop \/ Left

USE AgentAssumption DEF isStopped, RetriesLeft, Returned
-----------------------------------------------------------------------------
(* The part of TypeOK about the main goroutine, step by step. *)
ControlTypes ==
  /\ st \in States /\ pc \in Points /\ from \in Sites
  /\ next \in {"INIT", "WAITING_APPROVAL", "REPORTING"}
  /\ tries \in 0..MaxRetries /\ streak \in Nat

LEMMA ControlInit == Init => ControlTypes /\ Control
  BY DEF Init, ControlTypes, Control, States, Points, Sites, Left

LEMMA ControlStep ==
  ASSUME ControlTypes, Control, [Next]_vars
  PROVE  ControlTypes' /\ Control'
<1> USE DEF ControlTypes, Control, Retrying, States, Points, Sites, control, Left
<1>1. CASE Boot              BY <1>1 DEF Boot
<1>2. CASE Handshake         BY <1>2 DEF Handshake, EnterVerify, EnterRegister
<1>3. CASE Pause             BY <1>3 DEF Pause
<1>4. CASE RetryPause        BY <1>4 DEF RetryPause, EnterVerify
<1>5. CASE Save              BY <1>5 DEF Save
<1>6. CASE VerifyAccepted    BY <1>6 DEF VerifyAccepted
<1>7. CASE VerifyFails       BY <1>7 DEF VerifyFails, GiveUpVerify
<1>8. CASE VerifyRejected    BY <1>8 DEF VerifyRejected, EnterRegister
<1>9. CASE VerifyConflicts   BY <1>9 DEF VerifyConflicts
<1>10. CASE RegisterAccepted BY <1>10 DEF RegisterAccepted
<1>11. CASE RegisterRejected BY <1>11 DEF RegisterRejected
<1>12. CASE RegisterFails    BY <1>12 DEF RegisterFails
<1>13. CASE MainLoop         BY <1>13 DEF MainLoop
<1>14. CASE Shutdown         BY <1>14 DEF Shutdown
<1>15. CASE Poll             BY <1>15 DEF Poll
<1>16. CASE ReportLoopEnds   BY <1>16 DEF ReportLoopEnds
<1>17. CASE SendReport       BY <1>17 DEF SendReport
<1>18. CASE ReportAccepted   BY <1>18 DEF ReportAccepted
<1>19. CASE ReportRefused    BY <1>19 DEF ReportRefused
<1>20. CASE ReportConflicts  BY <1>20 DEF ReportConflicts
<1>21. CASE ReportFails      BY <1>21 DEF ReportFails
<1>22. CASE RateLimitOver    BY <1>22 DEF RateLimitOver
<1>23. CASE ProbeResult      BY <1>23 DEF ProbeResult
<1>24. CASE Signal           BY <1>24 DEF Signal
<1>25. CASE BackendChanges   BY <1>25 DEF BackendChanges
<1>26. CASE Crash            BY <1>26 DEF Crash
<1>27. CASE UNCHANGED vars   BY <1>27 DEF vars
<1> QED BY <1>1, <1>2, <1>3, <1>4, <1>5, <1>6, <1>7, <1>8, <1>9, <1>10, <1>11,
           <1>12, <1>13, <1>14, <1>15, <1>16, <1>17, <1>18, <1>19, <1>20, <1>21,
           <1>22, <1>23, <1>24, <1>25, <1>26, <1>27 DEF Next, Process

-----------------------------------------------------------------------------
(* Identities: as long as none was lost or replaced on purpose, there is   *)
(* at most one, the running process knows its token, and so does the next  *)
(* boot, except while a new token is being saved.                          *)
Kept ==
  /\ issued \in {0, 1}
  /\ issued = 1 => IF pc = "down" THEN Load.token # 0 ELSE cfg.token # 0
  /\ pc \notin {"down", "save"} /\ cfg.token # 0 => Load.token # 0

IdentityTypes ==
  /\ cfg \in Identity /\ disk \in Identity /\ issued \in Nat
  /\ opts \in Options

IdentityInv == IdentityTypes /\ (~excused => Kept)

(* What the file, the flags and the environment make is an identity. *)
LEMMA LoadType ==
  ASSUME disk \in Identity, opts \in Options
  PROVE  /\ Load \in Identity
         /\ Load.token = IF opts.token THEN 1 ELSE disk.token
<1>1. (opts.url \/ disk.url) \in BOOLEAN
      OBVIOUS
<1>2. /\ disk.run \in BOOLEAN
      /\ (IF opts.token THEN 1 ELSE disk.token) \in Nat
      BY DEF Identity
<1>3. \A u, r \in BOOLEAN, t \in Nat :
        [url |-> u, token |-> t, run |-> r] \in Identity
      BY DEF Identity
<1> QED BY <1>1, <1>2, <1>3 DEF Load

(* The values that are assigned to the file and to the memory. *)
LEMMA KnownType ==
  /\ NoIdentity \in Identity /\ NoIdentity.token = 0
  /\ \A t \in Nat, b \in BOOLEAN : Known(t, b) \in Identity /\ Known(t, b).token = t
  BY DEF NoIdentity, Known, Identity

LEMMA IdentityInit == Init => IdentityInv
<1> SUFFICES ASSUME Init PROVE IdentityInv
    OBVIOUS
<1>0. /\ disk \in {NoIdentity, Known(0, FALSE), Known(1, FALSE), Known(1, TRUE)}
      /\ cfg = NoIdentity
      BY DEF Init
<1>1. cfg \in Identity /\ disk \in Identity
  <2>1. /\ Known(0, FALSE) \in Identity /\ Known(1, FALSE) \in Identity
        /\ Known(1, TRUE) \in Identity /\ NoIdentity \in Identity
        BY DEF Known, NoIdentity, Identity
  <2> QED BY <1>0, <2>1
<1>2. disk.token \in {0, 1}
  <2>1. \A b \in BOOLEAN : Known(0, b).token = 0 /\ Known(1, b).token = 1
        BY KnownType
  <2> QED BY <1>0, <2>1, KnownType
<1>3. issued = IF opts.token \/ disk.token = 1 THEN 1 ELSE 0
      BY DEF Init
<1>4. pc = "down" /\ opts \in Options
      BY DEF Init
<1>5. Load.token = IF opts.token THEN 1 ELSE disk.token
      BY <1>1, <1>4, LoadType
<1>6. issued \in {0, 1} /\ (issued = 1 => Load.token # 0)
      BY <1>2, <1>3, <1>5
<1> QED BY <1>1, <1>4, <1>6 DEF IdentityInv, IdentityTypes, Kept

(* The steps that leave the identity alone and the process up. *)
LEMMA IdentityKept ==
  ASSUME IdentityInv, UNCHANGED <<identity, opts>>,
         pc \notin {"down", "save"}, pc' # "down"
  PROVE  IdentityInv'
  BY DEF IdentityInv, IdentityTypes, Kept, identity, Load

LEMMA IdentityStep ==
  ASSUME IdentityInv, ControlTypes, Control, [Next]_vars
  PROVE  IdentityInv'
<1> USE DEF IdentityInv
<1>0. /\ Load.token = IF opts.token THEN 1 ELSE disk.token
      /\ Load \in Identity /\ disk \in Identity /\ cfg \in Identity
      /\ NoIdentity \in Identity /\ NoIdentity.token = 0
      /\ cfg.token \in Nat /\ disk.token \in Nat
      /\ Truncated \subseteq Identity
  <2>1. cfg.token \in Nat /\ disk.token \in Nat
        BY DEF IdentityTypes, Identity
  <2>2. Truncated \subseteq Identity
        BY <2>1 DEF Truncated, NoIdentity, Known, Identity
  <2> QED BY <2>1, <2>2, LoadType, KnownType DEF IdentityTypes
<1>1. CASE Boot
  <2>1. cfg' \in Identity /\ cfg'.token = Load.token /\ Load'.token = Load.token
    <3>1. Load.token \in Nat
          BY <1>0 DEF Identity
    <3>2. cfg' = Known(Load.token, ~opts.force) /\ UNCHANGED <<opts, disk>>
          BY <1>1 DEF Boot
    <3>3. Load'.token = Load.token
          BY <3>2 DEF Load
    <3> QED BY <3>1, <3>2, <3>3, KnownType, Zenon
  <2>2. pc = "down" /\ pc' # "down" /\ UNCHANGED <<opts, disk, issued, excused>>
        BY <1>1 DEF Boot
  <2> QED BY <1>0, <2>1, <2>2 DEF Kept, IdentityTypes
<1>2. CASE Save
  <2>1. PICK d \in {cfg, disk} \cup Truncated : Stored(d)
        BY <1>2 DEF Save
  <2>2. /\ pc = "save" /\ pc' \notin {"down", "save"}
        /\ UNCHANGED <<cfg, opts, issued>>
        BY <1>2 DEF Save
  <2>3. /\ disk' \in Identity
        /\ Load'.token = IF opts.token THEN 1 ELSE d.token
        /\ ~excused' => ~excused /\ (d.token = cfg.token \/ opts.token)
        BY <1>0, <2>1, <2>2 DEF Stored, Load, Identity
  <2> QED BY <1>0, <2>2, <2>3 DEF Kept, IdentityTypes
<1>3. CASE RegisterAccepted
  <2>1. /\ pc = "register" /\ pc' = "save" /\ issued' = issued + 1
        /\ excused' = (excused \/ IsRegistered) /\ UNCHANGED <<opts, disk>>
        BY <1>3 DEF RegisterAccepted
  <2>2. issued' \in Nat /\ issued' # 0
        BY <2>1 DEF IdentityTypes
  <2>3. cfg' \in Identity /\ cfg'.token = issued'
    <3>1. cfg' = Known(issued', TRUE)
          BY <1>3 DEF RegisterAccepted
    <3> QED BY <2>2, <3>1 DEF Known, Identity
  <2>4. ~excused' => ~excused /\ cfg.token = 0
        BY <2>1 DEF IsRegistered
  <2>5. ~excused' => issued' = 1
        BY <2>1, <2>4 DEF Kept
  <2>6. IdentityTypes'
        BY <1>0, <2>1, <2>2, <2>3 DEF IdentityTypes
  <2> QED BY <2>1, <2>3, <2>5, <2>6 DEF Kept
<1>4. CASE RegisterFails
  <2>1. CASE UNCHANGED <<issued, excused>>
        BY <1>4, <2>1, IdentityKept DEF RegisterFails, identity
  <2>2. CASE issued' = issued + 1 /\ excused'
        BY <1>4, <2>2 DEF RegisterFails, IdentityTypes
  <2> QED BY <1>4, <2>1, <2>2 DEF RegisterFails
<1>5. CASE Shutdown
  <2>1. Load'.token = Load.token
        BY <1>5 DEF Shutdown, Load
  <2> QED BY <1>0, <1>5, <2>1 DEF Shutdown, Kept, IdentityTypes
<1>6. CASE Crash
  <2>1. pc # "down" /\ pc' = "down" /\ cfg' = NoIdentity /\ UNCHANGED opts
        BY <1>6 DEF Crash
  <2>2. CASE pc = "save" /\ UNCHANGED issued /\ \E d \in {disk} \cup Truncated : Stored(d)
    <3>1. PICK d \in {disk} \cup Truncated : Stored(d)
          BY <2>2
    <3>2. /\ disk' \in Identity
          /\ Load'.token = IF opts.token THEN 1 ELSE d.token
          /\ ~excused' => ~excused /\ (d.token = cfg.token \/ opts.token)
          BY <1>0, <2>1, <3>1 DEF Stored, Load, Identity
    <3> QED BY <1>0, <2>1, <2>2, <3>2 DEF Kept, IdentityTypes
  <2>3. CASE issued' = issued + 1 /\ excused' = TRUE /\ UNCHANGED disk
        BY <1>0, <2>1, <2>3 DEF IdentityTypes
  <2>4. CASE pc # "save" /\ UNCHANGED <<issued, excused, disk>>
    <3>1. Load'.token = Load.token
          BY <2>1, <2>4 DEF Load
    <3> QED BY <1>0, <2>1, <2>4, <3>1 DEF Kept, IdentityTypes
  <2> QED BY <1>6, <2>2, <2>3, <2>4 DEF Crash
<1>7. CASE ProbeResult \/ Signal \/ BackendChanges \/ UNCHANGED vars
  <2>1. UNCHANGED <<identity, opts, pc>>
        BY <1>7 DEF ProbeResult, Signal, BackendChanges, vars, control
  <2> QED BY <2>1 DEF identity, Kept, IdentityTypes, Load
<1>8. CASE Process /\ ~(Save \/ RegisterAccepted \/ RegisterFails \/ Shutdown)
  <2>1. /\ UNCHANGED <<identity, opts>>
        /\ pc \notin {"down", "save"} /\ pc' # "down"
        BY <1>8 DEF Process, Handshake, EnterVerify, EnterRegister, Pause,
           RetryPause, VerifyAccepted, VerifyFails, GiveUpVerify, VerifyRejected,
           VerifyConflicts, RegisterRejected, MainLoop, Poll, ReportLoopEnds,
           SendReport, ReportAccepted, ReportRefused, ReportConflicts,
           ReportFails, RateLimitOver, ControlTypes, Control, Sites
  <2> QED BY <2>1, IdentityKept
<1> QED BY <1>1, <1>2, <1>3, <1>4, <1>5, <1>6, <1>7, <1>8 DEF Next

-----------------------------------------------------------------------------
(* Probe results.  Q is what the agent still owes the backend.             *)
Q == inflight \o pending

BufferTypes ==
  /\ produced \in Nat
  /\ pending \in Seq(1..produced) /\ inflight \in Seq(1..produced)

Buffer == pc \notin {"reporting", "rateLimited"} => inflight = <<>>

(* What a step can do to Q: nothing, add the newest result at the back, or *)
(* take some results off the front for good.                               *)
Stays   == UNCHANGED <<produced, Q, acked, dropped>>
Enters  == /\ produced' = produced + 1 /\ Q' = Append(Q, produced')
           /\ UNCHANGED <<acked, dropped>>
Departs(s, t) ==
  /\ Q = s \o t /\ Q' = t /\ UNCHANGED produced
  /\ \/ acked' = acked \cup Range(s) /\ UNCHANGED dropped
     \/ dropped' = dropped \cup Range(s) /\ UNCHANGED acked

QueueStep ==
  Stays \/ Enters \/ \E s, t \in Seq(1..produced) : Departs(s, t)

LEMMA SeqWidens ==
  ASSUME NEW n \in Nat, NEW s \in Seq(1..n)
  PROVE  s \in Seq(1..(n+1))
  OBVIOUS

LEMMA BufferStep ==
  ASSUME BufferTypes, Buffer, [Next]_vars
  PROVE  BufferTypes' /\ Buffer' /\ QueueStep
<1> USE DEF BufferTypes, Buffer
<1>0. /\ <<>> \in Seq(1..produced)
      /\ inflight \o pending \in Seq(1..produced)
      /\ \A s \in Seq(1..produced) : s \o <<>> = s /\ <<>> \o s = s
      BY ConcatProperties, ConcatEmptySeq
<1>1. CASE SendReport
      BY <1>0, <1>1 DEF SendReport, FlushPendingResults, QueueStep, Stays, Q
<1>2. CASE ReportConflicts
      BY <1>0, <1>2 DEF ReportConflicts, RequeueResults, QueueStep, Stays, Q
<1>3. CASE ReportFails
  <2>1. CASE pc' = "report" /\ RequeueResults
        BY <1>0, <1>3, <2>1 DEF ReportFails, RequeueResults, QueueStep, Stays, Q
  <2>2. CASE pc' = "rateLimited" /\ UNCHANGED <<pending, inflight, dropped>>
        BY <1>3, <2>2 DEF ReportFails, QueueStep, Stays, Q
  <2> QED BY <1>3, <2>1, <2>2 DEF ReportFails
<1>4. CASE RateLimitOver
      BY <1>0, <1>4 DEF RateLimitOver, RequeueResults, QueueStep, Stays, Q
<1>5. CASE ReportAccepted
  <2>1. /\ inflight' = <<>> /\ pc' = "report"
        /\ acked' = acked \cup Range(inflight)
        /\ UNCHANGED <<produced, pending, dropped>>
        BY <1>5 DEF ReportAccepted
  <2>2. Departs(inflight, pending)
        BY <1>0, <2>1 DEF Departs, Q
  <2> QED BY <1>0, <2>1, <2>2 DEF QueueStep
<1>6. CASE ReportRefused
  <2>1. /\ inflight' = <<>> /\ pc' = "report"
        /\ dropped' = dropped \cup Range(inflight)
        /\ UNCHANGED <<produced, pending, acked>>
        BY <1>6 DEF ReportRefused, DropResults
  <2>2. Departs(inflight, pending)
        BY <1>0, <2>1 DEF Departs, Q
  <2> QED BY <1>0, <2>1, <2>2 DEF QueueStep
<1>7. CASE Shutdown \/ Crash
  <2>1. /\ pending' = <<>> /\ inflight' = <<>> /\ pc' = "down"
        /\ dropped' = dropped \cup Range(Q)
        /\ UNCHANGED <<produced, acked>>
        BY <1>7 DEF Shutdown, Crash, Q
  <2>2. Departs(Q, <<>>)
        BY <1>0, <2>1 DEF Departs, Q
  <2> QED BY <1>0, <2>1, <2>2 DEF QueueStep, Q
<1>8. CASE ProbeResult
  <2>1. /\ produced' = produced + 1 /\ pending' = Append(pending, produced')
        /\ UNCHANGED <<inflight, acked, dropped, pc>>
        BY <1>8 DEF ProbeResult, control
  <2>2. /\ pending \in Seq(1..produced') /\ inflight \in Seq(1..produced')
        /\ produced' \in 1..produced'
        BY <2>1, SeqWidens
  <2>3. pending' \in Seq(1..produced')
        BY <2>1, <2>2
  <2>4. inflight \o Append(pending, produced') = Append(inflight \o pending, produced')
        BY <2>2
  <2> QED BY <2>1, <2>2, <2>3, <2>4 DEF QueueStep, Enters, Q
<1>9. CASE \/ Boot \/ Handshake \/ Pause \/ RetryPause \/ Save
           \/ VerifyAccepted \/ VerifyFails \/ VerifyRejected
           \/ RegisterAccepted \/ RegisterRejected \/ RegisterFails
           \/ MainLoop \/ Poll \/ ReportLoopEnds
  <2>1. /\ UNCHANGED <<produced, pending, inflight, acked, dropped>>
        /\ pc \notin {"reporting", "rateLimited"}
        BY <1>9 DEF results, Boot, Handshake, Pause, RetryPause, Save,
           VerifyAccepted, VerifyFails, VerifyRejected, RegisterAccepted,
           RegisterRejected, RegisterFails, MainLoop, Poll, ReportLoopEnds
  <2> QED BY <2>1 DEF QueueStep, Stays, Q
<1>10. CASE VerifyConflicts
      BY <1>10 DEF VerifyConflicts, results, QueueStep, Stays, Q
<1>11. CASE Signal \/ BackendChanges \/ UNCHANGED vars
      BY <1>11 DEF Signal, BackendChanges, vars, control, results, QueueStep,
                   Stays, Q
<1> QED BY <1>1, <1>2, <1>3, <1>4, <1>5, <1>6, <1>7, <1>8, <1>9, <1>10, <1>11
        DEF Next, Process

(* The queue is sorted, so what leaves it is not in what stays. *)
Sorted == \A i, j \in 1..Len(Q) : i < j => Q[i] < Q[j]

LEMMA PartsAreDisjoint ==
  ASSUME NEW n \in Nat, NEW s \in Seq(1..n), NEW t \in Seq(1..n),
         \A i, j \in 1..Len(s \o t) : i < j => (s \o t)[i] < (s \o t)[j]
  PROVE  /\ Range(s) \cap Range(t) = {}
         /\ \A i, j \in 1..Len(t) : i < j => t[i] < t[j]
<1> DEFINE m == Len(s)
<1>1. /\ m \in Nat /\ Len(s \o t) = m + Len(t)
      /\ \A i \in 1..m : i \in 1..Len(s \o t) /\ (s \o t)[i] = s[i]
      /\ \A j \in 1..Len(t) : m + j \in 1..Len(s \o t) /\ (s \o t)[m + j] = t[j]
      BY ConcatProperties
<1>2. \A i \in 1..m, j \in 1..Len(t) : s[i] < t[j]
  <2> TAKE i \in 1..m, j \in 1..Len(t)
  <2>1. i < m + j
        BY <1>1
  <2> QED BY <1>1, <2>1
<1>3. \A i \in 1..m, j \in 1..Len(t) : s[i] # t[j]
      BY <1>2
<1>4. Range(s) = {s[i] : i \in 1..m} /\ Range(t) = {t[j] : j \in 1..Len(t)}
      BY RangeEquality
<1>5. \A i, j \in 1..Len(t) : i < j => t[i] < t[j]
  <2> SUFFICES ASSUME NEW i \in 1..Len(t), NEW j \in 1..Len(t), i < j
               PROVE  t[i] < t[j]
      OBVIOUS
  <2>1. m + i < m + j
        BY <1>1
  <2> QED BY <1>1, <2>1
<1> QED BY <1>3, <1>4, <1>5

Books == ResultsAccounted /\ Sorted

LEMMA BooksInit == Init => BufferTypes /\ Buffer /\ Books
<1> SUFFICES ASSUME Init PROVE BufferTypes /\ Buffer /\ Books
    OBVIOUS
<1>1. inflight = <<>> /\ pending = <<>> /\ produced = 0 /\ acked = {} /\ dropped = {}
      BY DEF Init
<1>2. inflight \o pending = <<>>
      BY <1>1
<1>3. Range(<<>>) = {}
      BY DEF Range
<1>4. 1..produced = {}
      BY <1>1
<1> QED BY <1>1, <1>2, <1>3, <1>4
        DEF BufferTypes, Buffer, Books, ResultsAccounted, Sorted, Q

LEMMA BooksStep ==
  ASSUME BufferTypes, BufferTypes', Books, QueueStep
  PROVE  Books'
<1>1. /\ produced \in Nat /\ Q \in Seq(1..produced)
      /\ Range(Q) \cup acked \cup dropped = 1..produced
      /\ Range(Q) \cap (acked \cup dropped) = {}
      /\ acked \cap dropped = {} /\ Sorted
      BY ConcatProperties DEF BufferTypes, Q, Books, ResultsAccounted
<1>2. SUFFICES /\ Range(Q') \cup acked' \cup dropped' = 1..produced'
               /\ Range(Q') \cap (acked' \cup dropped') = {}
               /\ acked' \cap dropped' = {} /\ Sorted'
      BY DEF Books, ResultsAccounted, Q
<1>3. CASE Stays
      BY <1>1, <1>3 DEF Stays, Sorted
<1>4. CASE Enters
  <2>1. /\ produced' = produced + 1 /\ Q' = Append(Q, produced')
        /\ UNCHANGED <<acked, dropped>>
        BY <1>4 DEF Enters
  <2>2. /\ Q \in Seq(1..produced') /\ produced' \in 1..produced'
        /\ produced' \notin 1..produced
        /\ 1..produced' = (1..produced) \cup {produced'}
        BY <1>1, <2>1, SeqWidens
  <2>3. Q' \in Seq(1..produced') /\ Len(Q') = Len(Q) + 1
        /\ (\A i \in 1..Len(Q) : Q'[i] = Q[i]) /\ Q'[Len(Q) + 1] = produced'
        BY <2>1, <2>2, AppendProperties
  <2>4. Range(Q') = {Q'[i] : i \in 1..Len(Q')} /\ Range(Q) = {Q[i] : i \in 1..Len(Q)}
        BY <1>1, <2>3, RangeEquality
  <2>5. Len(Q) \in Nat /\ 1..Len(Q') = (1..Len(Q)) \cup {Len(Q) + 1}
        BY <1>1, <2>3
  <2>6. Range(Q') = Range(Q) \cup {produced'}
        BY <2>3, <2>4, <2>5
  <2>7. Sorted'
    <3>1. \A i \in 1..Len(Q) : Q[i] < produced'
          BY <1>1, <2>1
    <3> QED BY <1>1, <2>3, <2>5, <3>1 DEF Sorted
  <2> QED BY <1>1, <2>1, <2>2, <2>6, <2>7
<1>5. ASSUME NEW s \in Seq(1..produced), NEW t \in Seq(1..produced), Departs(s, t)
      PROVE  /\ Range(Q') \cup acked' \cup dropped' = 1..produced'
             /\ Range(Q') \cap (acked' \cup dropped') = {}
             /\ acked' \cap dropped' = {} /\ Sorted'
  <2>1. Q = s \o t /\ Q' = t /\ produced' = produced
        BY <1>5 DEF Departs
  <2>2. Range(Q) = Range(s) \cup Range(t)
        BY <1>1, <2>1, RangeConcatenation
  <2>3. Range(s) \cap Range(t) = {} /\ Sorted'
        BY <1>1, <2>1, PartsAreDisjoint DEF Sorted
  <2>4. CASE acked' = acked \cup Range(s) /\ UNCHANGED dropped
        BY <1>1, <2>1, <2>2, <2>3, <2>4
  <2>5. CASE dropped' = dropped \cup Range(s) /\ UNCHANGED acked
        BY <1>1, <2>1, <2>2, <2>3, <2>5
  <2> QED BY <1>5, <2>4, <2>5 DEF Departs
<1> QED BY <1>3, <1>4, <1>5 DEF QueueStep

-----------------------------------------------------------------------------
(* The rest of TypeOK. *)
RestTypes ==
  /\ stop \in BOOLEAN /\ verdict \in Verdicts /\ probing \in BOOLEAN
  /\ produced \in 0..MaxResults /\ excused \in BOOLEAN
  /\ faults \in 0..MaxFaults /\ changes \in 0..MaxChanges

LEMMA RestInit == Init => RestTypes
<1> SUFFICES ASSUME Init PROVE RestTypes
    OBVIOUS
<1>1. faults \in 0..MaxFaults /\ changes \in 0..MaxChanges /\ produced \in 0..MaxResults
      BY DEF Init
<1>2. stop \in BOOLEAN /\ probing \in BOOLEAN /\ excused \in BOOLEAN
      BY DEF Init
<1>3. verdict \in Verdicts
      BY DEF Init
<1> QED BY <1>1, <1>2, <1>3 DEF RestTypes

LEMMA RestStep == RestTypes /\ [Next]_vars => RestTypes'
<1> SUFFICES ASSUME RestTypes, [Next]_vars PROVE RestTypes'
    OBVIOUS
<1> USE DEF RestTypes, Verdicts, identity, results, control
<1>1. CASE Boot              BY <1>1 DEF Boot
<1>2. CASE Handshake         BY <1>2 DEF Handshake
<1>3. CASE Pause             BY <1>3 DEF Pause
<1>4. CASE RetryPause        BY <1>4 DEF RetryPause
<1>5. CASE Save
  <2>1. probing' \in BOOLEAN /\ excused' \in BOOLEAN
        BY <1>5 DEF Save, Stored
  <2>2. faults' \in 0..MaxFaults
        BY <1>5 DEF Save
  <2> QED BY <1>5, <2>1, <2>2 DEF Save
<1>6. CASE VerifyAccepted    BY <1>6 DEF VerifyAccepted
<1>7. CASE VerifyFails       BY <1>7 DEF VerifyFails
<1>8. CASE VerifyRejected    BY <1>8 DEF VerifyRejected
<1>9. CASE VerifyConflicts   BY <1>9 DEF VerifyConflicts
<1>10. CASE RegisterAccepted
  <2>1. excused' \in BOOLEAN
        BY <1>10 DEF RegisterAccepted
  <2> QED BY <1>10, <2>1 DEF RegisterAccepted
<1>11. CASE RegisterRejected BY <1>11 DEF RegisterRejected
<1>12. CASE RegisterFails
  <2>1. excused' \in BOOLEAN
        BY <1>12 DEF RegisterFails
  <2>2. faults' \in 0..MaxFaults
        BY <1>12 DEF RegisterFails
  <2>3. UNCHANGED <<stop, verdict, probing, produced, changes>>
        BY <1>12 DEF RegisterFails
  <2> QED BY <2>1, <2>2, <2>3
<1>13. CASE MainLoop         BY <1>13 DEF MainLoop
<1>14. CASE Shutdown         BY <1>14 DEF Shutdown
<1>15. CASE Poll             BY <1>15 DEF Poll
<1>16. CASE ReportLoopEnds   BY <1>16 DEF ReportLoopEnds
<1>17. CASE SendReport       BY <1>17 DEF SendReport
<1>18. CASE ReportAccepted
  <2>1. probing' \in BOOLEAN
        BY <1>18 DEF ReportAccepted
  <2> QED BY <1>18, <2>1 DEF ReportAccepted
<1>19. CASE ReportRefused    BY <1>19 DEF ReportRefused
<1>20. CASE ReportConflicts  BY <1>20 DEF ReportConflicts
<1>21. CASE ReportFails      BY <1>21 DEF ReportFails
<1>22. CASE RateLimitOver    BY <1>22 DEF RateLimitOver
<1>23. CASE ProbeResult      BY <1>23 DEF ProbeResult
<1>24. CASE Signal           BY <1>24 DEF Signal
<1>25. CASE BackendChanges   BY <1>25 DEF BackendChanges
<1>26. CASE Crash
  <2>1. excused' \in BOOLEAN
        BY <1>26 DEF Crash, Stored
  <2>2. faults' \in 0..MaxFaults /\ probing' = FALSE
        BY <1>26 DEF Crash
  <2>3. UNCHANGED <<stop, verdict, produced, changes>>
        BY <1>26 DEF Crash
  <2> QED BY <2>1, <2>2, <2>3
<1>27. CASE UNCHANGED vars   BY <1>27 DEF vars
<1> QED BY <1>1, <1>2, <1>3, <1>4, <1>5, <1>6, <1>7, <1>8, <1>9, <1>10, <1>11,
           <1>12, <1>13, <1>14, <1>15, <1>16, <1>17, <1>18, <1>19, <1>20, <1>21,
           <1>22, <1>23, <1>24, <1>25, <1>26, <1>27 DEF Next, Process

-----------------------------------------------------------------------------
(* The inductive invariant. *)
IInv == /\ ControlTypes /\ Control /\ IdentityInv
        /\ BufferTypes /\ Buffer /\ Books /\ RestTypes

LEMMA Invariance == Spec => []IInv
<1>1. Init => IInv
      BY ControlInit, IdentityInit, BooksInit, RestInit DEF IInv
<1>2. IInv /\ [Next]_vars => IInv'
      BY ControlStep, IdentityStep, BufferStep, BooksStep, RestStep DEF IInv
<1> QED BY <1>1, <1>2, PTL DEF Spec

(* Every reachable state is well typed. *)
THEOREM Typing == Spec => []TypeOK
<1>1. IInv => TypeOK
  <2> SUFFICES ASSUME IInv PROVE TypeOK
      OBVIOUS
  <2>1. acked \subseteq 1..produced /\ dropped \subseteq 1..produced
        BY DEF IInv, Books, ResultsAccounted
  <2> QED BY <2>1 DEF IInv, ControlTypes, IdentityInv, IdentityTypes,
                      BufferTypes, RestTypes, TypeOK
<1> QED BY <1>1, Invariance, PTL

(* No probe result is ever lost unnoticed, duplicated in the buffer or     *)
(* sent again after it was acknowledged.                                   *)
THEOREM Accounting == Spec => []ResultsAccounted
<1>1. IInv => ResultsAccounted
      BY DEF IInv, Books
<1> QED BY <1>1, Invariance, PTL

(* A machine gets a second server record only when an identity was lost or *)
(* replaced on purpose.                                                    *)
THEOREM Identities == Spec => []OneIdentity
<1>1. IInv => OneIdentity
      BY DEF IInv, IdentityInv, Kept, OneIdentity
<1> QED BY <1>1, Invariance, PTL

(* Only a refusal or the end of the process costs a probe result; conflict *)
(* and failed reports put theirs back.                                     *)
THEOREM TransientErrors == Spec => TransientErrorsKeepResults
<1>1. ASSUME [Next]_vars, dropped' # dropped
      PROVE  verdict \in {"pending", "invalid"} \/ pc' = "down"
  <2>1. CASE ReportRefused
        BY <2>1 DEF ReportRefused
  <2>2. CASE Shutdown \/ Crash
        BY <2>2 DEF Shutdown, Crash
  <2>3. ASSUME ~ReportRefused, ~Shutdown, ~Crash PROVE dropped' = dropped
        BY <1>1, <2>3
        DEF Next, Process, Boot, Handshake, Pause, RetryPause, Save, VerifyAccepted,
            VerifyFails, VerifyRejected, VerifyConflicts, RegisterAccepted,
            RegisterRejected, RegisterFails, MainLoop, Poll, ReportLoopEnds, SendReport,
            FlushPendingResults, ReportAccepted, ReportConflicts, RequeueResults,
            ReportFails, RateLimitOver, ProbeResult, Signal, BackendChanges, results, vars
  <2> QED
        BY <1>1, <2>1, <2>2, <2>3
<1>2. [Next]_vars => [dropped' # dropped =>
                        verdict \in {"pending", "invalid"} \/ pc' = "down"]_vars
      BY <1>1
<1> QED BY <1>2, PTL DEF Spec, TransientErrorsKeepResults

(* An agent ends of itself only when it was told to, when it was refused,  *)
(* after the whole budget of conflicts in a row, or because a retry of the *)
(* report loop failed and left VERIFYING behind.                           *)
THEOREM Stops == Spec => StopsOnlyForItsReasons
<1> DEFINE Reason ==
             \/ pc = "main" /\ (stop \/ Left)
             \/ pc \in {"verify", "poll", "reporting"} /\ verdict = "invalid"
             \/ pc = "register" /\ opts.reg = "bad"
             \/ pc = "verify" /\ streak' = MaxRetries + 1
<1>1. IInv /\ [Next]_vars => (st # "STOPPED" /\ st' = "STOPPED" => Reason)
  <2> SUFFICES ASSUME ControlTypes, Control, [Next]_vars,
                      st # "STOPPED", st' = "STOPPED"
               PROVE  Reason
      BY DEF IInv
  <2>1. CASE VerifyConflicts
        BY <2>1 DEF VerifyConflicts, Control, ControlTypes, Retrying, Sites
  <2>2. CASE Shutdown
        BY <2>2 DEF Shutdown, Control
  <2>3. CASE ~VerifyConflicts /\ ~Shutdown
        BY <2>3 DEF Next, Process, Boot, Handshake, EnterVerify, EnterRegister,
           Pause, RetryPause, Save, VerifyAccepted, VerifyFails, VerifyRejected,
           RegisterAccepted, RegisterRejected, RegisterFails, MainLoop,
           Poll, ReportLoopEnds, SendReport, ReportAccepted, ReportRefused,
           ReportConflicts, ReportFails, RateLimitOver, ProbeResult, Signal,
           BackendChanges, Crash, ControlTypes, vars, control
  <2> QED BY <2>1, <2>2, <2>3
<1> QED BY <1>1, Invariance, PTL DEF Spec, StopsOnlyForItsReasons

-----------------------------------------------------------------------------
LEMMA PrefixAndRest ==
  ASSUME NEW n \in Nat, NEW s \in Seq(1..n), NEW t \in Seq(1..n), s # <<>>
  PROVE  /\ Len(s) \in 1..Len(s \o t)
         /\ SubSeq(s \o t, 1, Len(s)) = s
         /\ SubSeq(s \o t, Len(s) + 1, Len(s \o t)) = t
<1>1. Len(s) \in Nat \ {0} /\ Len(t) \in Nat /\ Len(s \o t) = Len(s) + Len(t)
      BY ConcatProperties, EmptySeq
<1>2. SubSeq(s \o t, 1, Len(s)) = s
      BY <1>1, SubSeqOfConcat1, SubSeqFull
<1>3. CASE t = <<>>
  <2>1. SubSeq(s \o t, Len(s) + 1, Len(s \o t)) = <<>>
        BY <1>1, <1>3, SubSeqEmpty
  <2> QED BY <1>1, <1>2, <1>3, <2>1
<1>4. CASE t # <<>>
  <2>1. Len(t) \in Nat \ {0}
        BY <1>1, <1>4, EmptySeq
  <2>2. SubSeq(s \o t, Len(s) + 1, Len(s) + Len(t)) = SubSeq(t, 1, Len(t))
        BY <1>1, <2>1, SubSeqOfConcat2
  <2> QED BY <1>1, <1>2, <2>2, SubSeqFull
<1> QED BY <1>3, <1>4

LEMMA QueueImplements ==
  ASSUME BufferTypes, QueueStep
  PROVE  [Queue!Next]_Queue!vars
<1>1. CASE Stays
      BY <1>1 DEF Stays, Queue!vars, Q
<1>2. CASE Enters
      BY <1>2 DEF Enters, Queue!Next, Queue!Produce, Q
<1>3. ASSUME NEW s \in Seq(1..produced), NEW t \in Seq(1..produced), Departs(s, t)
      PROVE  [Queue!Next]_Queue!vars
  <2>1. CASE s = <<>>
    <3>1. s \o t = t /\ Range(s) = {}
          BY <2>1, ConcatEmptySeq DEF Range
    <3> QED BY <1>3, <2>1, <3>1 DEF Departs, Queue!vars, Q
  <2>2. CASE s # <<>>
    <3>1. produced \in Nat /\ Q = s \o t
          BY <1>3 DEF BufferTypes, Departs
    <3>2. /\ Len(s) \in 1..Len(Q)
          /\ SubSeq(Q, 1, Len(s)) = s /\ SubSeq(Q, Len(s) + 1, Len(Q)) = t
          BY <2>2, <3>1, PrefixAndRest
    <3>3. Queue!Leave(Len(s)) /\ Queue!Front(Len(s)) = Range(s)
      <4>1. Q' = SubSeq(Q, Len(s) + 1, Len(Q)) /\ UNCHANGED produced
            BY <1>3, <3>2 DEF Departs
      <4>2. Range(SubSeq(Q, 1, Len(s))) = Range(s)
            BY <3>2
      <4> QED BY <4>1, <4>2 DEF Queue!Leave, Queue!Front, Queue!Range, Range, Q
    <3>4. Queue!Acknowledge(Len(s)) \/ Queue!GiveUp(Len(s))
          BY <1>3, <3>3 DEF Departs, Queue!Acknowledge, Queue!GiveUp
    <3> QED BY <3>2, <3>4 DEF Queue!Next, Q
  <2> QED BY <2>1, <2>2
<1> QED BY <1>1, <1>2, <1>3 DEF QueueStep

(* To the backend the agent's buffer, its flushes and its requeues are one *)
(* queue.                                                                  *)
THEOREM Refinement == Spec => ImplementsResultQueue
<1>1. Init => Queue!Init
      BY DEF Init, Queue!Init
<1>2. IInv /\ [Next]_vars => [Queue!Next]_Queue!vars
      BY BufferStep, QueueImplements DEF IInv
<1> QED BY <1>1, <1>2, Invariance, PTL DEF Spec, ImplementsResultQueue, Queue!Spec
=============================================================================
