--------------------------- MODULE FileApi_proofs ---------------------------
(***************************************************************************)
(* What is proved of the verifier and of the file API, for any sets of     *)
(* nonces, callers and paths, any window, any time and any bounds.         *)
(***************************************************************************)
EXTENDS FileApi, SequenceTheorems, TLAPS

Call == [nonce : Nonces, right : BOOLEAN, at : Nat]

\* the parts of VerifierTypeOK the argument needs; calls as far as it is typed
Typed ==
  /\ clock \in Nat
  /\ nonces \in [Nonces -> Nat]
  /\ stamp \in [Nonces -> Nat \cup {NotSigned}]
  /\ calls \in [Callers -> Call \cup {NoCall}]
  /\ accepted \in [Nonces -> Seq(Acceptance)]

Within(s, at) == s # NotSigned /\ at - s <= Skew /\ s - at <= Skew

\* a call has seen its message within the window
CallsInWindow ==
  \A c \in Callers : calls[c] # NoCall =>
    calls[c].at <= clock /\ Within(stamp[calls[c].nonce], calls[c].at)

\* so has every acceptance, and its nonce is kept for TTL seconds
Kept(a, s, now, expiry) ==
  /\ Within(s, a.checked) /\ a.checked <= a.recorded /\ a.recorded <= now
  /\ a.recorded + TTL <= (IF expiry = 0 THEN now ELSE expiry)

AllKept ==
  \A n \in Nonces : \A i \in 1..Len(accepted[n]) :
    Kept(accepted[n][i], stamp[n], clock, nonces[n])

\* two acceptances of a nonce are TTL seconds apart
Apart ==
  \A n \in Nonces : \A i, j \in 1..Len(accepted[n]) :
    i < j => accepted[n][i].recorded + TTL <= accepted[n][j].recorded

VInv == Typed /\ CallsInWindow /\ AllKept /\ Apart

-----------------------------------------------------------------------------
\* A second acceptance of a nonce was separated from the first by its expiry.
LEMMA VInvImplies == VInv => AcceptedAgain
<1> SUFFICES ASSUME VInv, NEW n \in Nonces,
                    NEW i \in 1..Len(accepted[n]), NEW j \in 1..Len(accepted[n]), i < j
             PROVE  (stamp[n] - accepted[n][i].checked)
                      + (accepted[n][j].recorded - accepted[n][j].checked) >= TTL - Skew
  BY DEF AcceptedAgain
<1> USE VerifierAssumption
<1>1. accepted[n] \in Seq(Acceptance) BY DEF VInv, Typed
<1>2. accepted[n][i] \in Acceptance /\ accepted[n][j] \in Acceptance BY <1>1
<1>3. /\ accepted[n][i].checked \in Nat /\ accepted[n][i].recorded \in Nat
      /\ accepted[n][j].checked \in Nat /\ accepted[n][j].recorded \in Nat
  BY <1>2 DEF Acceptance
<1>4. \A k \in {i, j} : Kept(accepted[n][k], stamp[n], clock, nonces[n])
  BY DEF VInv, AllKept
<1> DEFINE s  == stamp[n]
           ci == accepted[n][i].checked
           ri == accepted[n][i].recorded
           cj == accepted[n][j].checked
           rj == accepted[n][j].recorded
<1>5. ci \in Nat /\ ri \in Nat /\ cj \in Nat /\ rj \in Nat BY <1>3
<1>6. ci <= ri BY <1>4 DEF Kept
<1>7. ri + TTL <= rj BY DEF VInv, Apart
<1>8. s \in Nat /\ cj - s <= Skew BY <1>4 DEF Kept, Within, VInv, Typed
<1>9. (s - ci) + (rj - cj) >= TTL - Skew
  <2> HIDE DEF s, ci, ri, cj, rj
  <2> QED BY <1>5, <1>6, <1>7, <1>8
<1> QED BY <1>9

LEMMA VInit == VerifierInit => VInv
<1> SUFFICES ASSUME VerifierInit PROVE VInv OBVIOUS
<1> USE DEF VerifierInit
<1>1. Typed BY DEF Typed, NotSigned, Acceptance
<1>2. CallsInWindow BY DEF CallsInWindow
<1>3. \A n \in Nonces : Len(accepted[n]) = 0 OBVIOUS
<1>4. AllKept /\ Apart BY <1>3 DEF AllKept, Apart
<1> QED BY <1>1, <1>2, <1>4 DEF VInv

\* An acceptance stays kept while the clock advances and its nonce either stays
\* in the table, leaves it when it has expired, or is entered anew.
LEMMA KeptStays ==
  ASSUME NEW a \in Acceptance, NEW s, NEW now \in Nat, NEW later \in Nat, now <= later,
         NEW x \in Nat, NEW y \in Nat, Kept(a, s, now, x),
         y = x \/ (y = 0 /\ x <= later) \/ (x = 0 /\ now + TTL <= y)
  PROVE  Kept(a, s, later, y)
  BY VerifierAssumption DEF Kept, Acceptance

\* The nonces a step forgets, keeps or enters.
TableStep ==
  \A n \in Nonces : \/ nonces'[n] = nonces[n]
                    \/ nonces'[n] = 0 /\ nonces[n] <= clock'
                    \/ nonces[n] = 0 /\ clock + TTL <= nonces'[n]

LEMMA OldStayKept ==
  ASSUME VInv, clock' \in Nat, nonces' \in [Nonces -> Nat], clock <= clock', TableStep,
         NEW n \in Nonces, NEW i \in 1..Len(accepted[n]), stamp'[n] = stamp[n]
  PROVE  Kept(accepted[n][i], stamp'[n], clock', nonces'[n])
<1>1. accepted[n][i] \in Acceptance BY DEF VInv, Typed
<1>2. Kept(accepted[n][i], stamp[n], clock, nonces[n]) BY DEF VInv, AllKept
<1>3. clock \in Nat /\ nonces[n] \in Nat /\ nonces'[n] \in Nat BY DEF VInv, Typed
<1> QED BY <1>1, <1>2, <1>3, KeptStays DEF TableStep

LEMMA AcceptsNothing ==
  ASSUME VInv, Typed', CallsInWindow', UNCHANGED accepted, clock <= clock', TableStep,
         \A n \in Nonces : accepted[n] # <<>> => stamp'[n] = stamp[n]
  PROVE  VInv'
<1>1. ASSUME NEW n \in Nonces, NEW i \in 1..Len(accepted[n])
      PROVE  Kept(accepted[n][i], stamp'[n], clock', nonces'[n])
  <2>1. accepted[n] # <<>> BY DEF VInv, Typed
  <2> QED BY <2>1, OldStayKept DEF Typed
<1>2. AllKept' BY <1>1 DEF AllKept
<1>3. Apart' BY DEF VInv, Apart
<1> QED BY <1>2, <1>3 DEF VInv

\* The step that can accept: the nonce was not in the table, so whatever was
\* accepted with it before has expired.
LEMMA RecordStep ==
  ASSUME VInv, NEW c \in Callers, Record(c)
  PROVE  VInv'
<1> USE VerifierAssumption
<1> DEFINE n == calls[c].nonce
           e == [checked |-> calls[c].at, recorded |-> clock]
<1>1. calls[c] \in Call /\ calls[c] # NoCall BY DEF VInv, Typed, Record
<1>2. n \in Nonces /\ calls[c].at \in Nat /\ clock \in Nat /\ e \in Acceptance
  BY <1>1 DEF Call, Acceptance, VInv, Typed
<1>3. calls[c].at <= clock /\ Within(stamp[n], calls[c].at)
  BY <1>1 DEF VInv, CallsInWindow
<1>4. clock' = clock /\ stamp' = stamp BY DEF Record
<1>5. calls' = [calls EXCEPT ![c] = NoCall] BY DEF Record
<1>6. nonces' \in [Nonces -> Nat] BY <1>2 DEF Record, VInv, Typed
<1>7. TableStep BY <1>2 DEF TableStep, Record, Fresh, VInv, Typed
<1>8. CallsInWindow' BY <1>4, <1>5 DEF VInv, Typed, CallsInWindow
<1>9. calls' \in [Callers -> Call \cup {NoCall}] BY <1>5 DEF VInv, Typed
<1>10. CASE ~Accepts(c)
  <2>1. accepted' = accepted BY <1>10 DEF Record
  <2>2. Typed' BY <1>4, <1>6, <1>9, <2>1 DEF VInv, Typed
  <2> QED BY <1>2, <1>4, <1>7, <1>8, <2>1, <2>2, AcceptsNothing
<1>11. CASE Accepts(c)
  <2>1. accepted' = [accepted EXCEPT ![n] = Append(@, e)] BY <1>11 DEF Record
  <2>2. nonces[n] = 0 /\ nonces'[n] = clock + TTL
    BY <1>2, <1>11 DEF Accepts, Fresh, Record, VInv, Typed
  <2>3. accepted \in [Nonces -> Seq(Acceptance)] BY DEF VInv, Typed
  <2>4. accepted' \in [Nonces -> Seq(Acceptance)] BY <1>2, <2>1, <2>3
  <2>5. Typed' BY <1>4, <1>6, <1>9, <2>4 DEF VInv, Typed
  <2>6. /\ accepted'[n] = Append(accepted[n], e)
        /\ \A m \in Nonces \ {n} : accepted'[m] = accepted[m]
    BY <1>2, <2>1, <2>3
  <2>7. /\ Len(accepted[n]) \in Nat /\ Len(accepted'[n]) = Len(accepted[n]) + 1
        /\ accepted'[n][Len(accepted[n]) + 1] = e
        /\ \A i \in 1..Len(accepted[n]) : accepted'[n][i] = accepted[n][i]
    BY <1>2, <2>3, <2>6
  <2>8. \A m \in Nonces : \A i \in 1..Len(accepted[m]) :
          Kept(accepted[m][i], stamp'[m], clock', nonces'[m])
    BY <1>2, <1>4, <1>6, <1>7, OldStayKept
  <2>9. Kept(e, stamp[n], clock, clock + TTL)
    BY <1>2, <1>3 DEF Kept
  <2>10. AllKept'
    <3> SUFFICES ASSUME NEW m \in Nonces, NEW i \in 1..Len(accepted'[m])
                 PROVE  Kept(accepted'[m][i], stamp'[m], clock', nonces'[m])
      BY DEF AllKept
    <3>1. CASE m = n /\ i = Len(accepted[n]) + 1
      BY <1>4, <2>2, <2>7, <2>9, <3>1
    <3>2. CASE m = n /\ i # Len(accepted[n]) + 1
      <4>1. i \in 1..Len(accepted[n]) BY <2>7, <3>2
      <4>2. accepted'[m][i] = accepted[n][i] BY <2>7, <3>2, <4>1
      <4> QED BY <1>2, <2>8, <3>2, <4>1, <4>2
    <3>3. CASE m # n BY <2>6, <2>8, <3>3
    <3> QED BY <3>1, <3>2, <3>3
  <2>11. \A i \in 1..Len(accepted[n]) : accepted[n][i].recorded + TTL <= clock
    BY <1>2, <2>2 DEF VInv, AllKept, Kept
  <2>12. Apart'
    <3> SUFFICES ASSUME NEW m \in Nonces, NEW i \in 1..Len(accepted'[m]),
                        NEW j \in 1..Len(accepted'[m]), i < j
                 PROVE  accepted'[m][i].recorded + TTL <= accepted'[m][j].recorded
      BY DEF Apart
    <3>1. CASE m = n /\ j = Len(accepted[n]) + 1
      BY <2>7, <2>11, <3>1
    <3>2. CASE m = n /\ j # Len(accepted[n]) + 1
      <4>1. i \in 1..Len(accepted[n]) /\ j \in 1..Len(accepted[n]) BY <2>7, <3>2
      <4>2. accepted[n][i].recorded + TTL <= accepted[n][j].recorded
        BY <1>2, <4>1 DEF VInv, Apart
      <4> QED BY <2>7, <3>2, <4>1, <4>2
    <3>3. CASE m # n BY <2>6, <3>3 DEF VInv, Apart
    <3> QED BY <3>1, <3>2, <3>3
  <2> QED BY <1>8, <2>5, <2>10, <2>12 DEF VInv
<1> QED BY <1>10, <1>11

LEMMA VStep == VInv /\ [VerifierNext]_verifierVars => VInv'
<1> SUFFICES ASSUME VInv, [VerifierNext]_verifierVars PROVE VInv' OBVIOUS
<1> USE VerifierAssumption DEF VInv, Typed, CallsInWindow, TableStep
<1>1. CASE Tick
  <2>1. clock' = clock + 1 /\ UNCHANGED <<nonces, stamp, calls, accepted>>
    BY <1>1 DEF Tick
  <2>2. Typed' BY <2>1
  <2>3. CallsInWindow'
    <3>1. \A c \in Callers : calls[c] # NoCall => calls[c].at \in Nat BY DEF Call
    <3> QED BY <2>1, <3>1
  <2> QED BY <2>1, <2>2, <2>3, AcceptsNothing
<1>2. CASE Cleanup
  <2>1. /\ nonces' = [n \in Nonces |-> IF clock >= nonces[n] THEN 0 ELSE nonces[n]]
        /\ UNCHANGED <<clock, stamp, calls, accepted>>
    BY <1>2 DEF Cleanup
  <2>2. Typed' BY <2>1
  <2> QED BY <2>1, <2>2, AcceptsNothing
<1>3. ASSUME NEW m \in Nonces, NEW s \in Nat, Sign(m, s) PROVE VInv'
  <2>1. /\ stamp[m] = NotSigned /\ stamp' = [stamp EXCEPT ![m] = s]
        /\ UNCHANGED <<clock, nonces, calls, accepted>>
    BY <1>3 DEF Sign
  <2>2. Typed' BY <2>1
  <2>3. \A c \in Callers : calls[c] # NoCall => calls[c].nonce # m
    BY <2>1 DEF Within
  <2>4. CallsInWindow' BY <2>1, <2>3
  <2>5. \A n \in Nonces : accepted[n] # <<>> => stamp'[n] = stamp[n]
    <3> SUFFICES ASSUME accepted[m] # <<>> PROVE FALSE BY <2>1
    <3>1. 1 \in 1..Len(accepted[m]) OBVIOUS
    <3> QED BY <2>1, <3>1 DEF AllKept, Kept, Within
  <2> QED BY <2>1, <2>2, <2>4, <2>5, AcceptsNothing
<1>4. ASSUME NEW c \in Callers, NEW n \in Nonces, NEW right \in BOOLEAN,
             Verify(c, n, right)
      PROVE  VInv'
  <2> DEFINE call == [nonce |-> n, right |-> right, at |-> clock]
  <2>1. /\ calls' = [calls EXCEPT ![c] = call] /\ UNCHANGED <<clock, nonces, stamp, accepted>>
        /\ stamp[n] # NotSigned /\ InWindow(n)
    BY <1>4 DEF Verify
  <2>2. call \in Call BY DEF Call
  <2>3. Typed' BY <2>1, <2>2
  <2>4. Within(stamp[n], clock) BY <2>1 DEF Within, InWindow
  <2>5. CallsInWindow' BY <2>1, <2>4
  <2> QED BY <2>1, <2>3, <2>5, AcceptsNothing
<1>5. ASSUME NEW c \in Callers, Record(c) PROVE VInv' BY <1>5, RecordStep
<1>6. CASE UNCHANGED verifierVars
  BY <1>6 DEF verifierVars, AllKept, Apart
<1> QED BY <1>1, <1>2, <1>3, <1>4, <1>5, <1>6 DEF VerifierNext

-----------------------------------------------------------------------------
(* The file API is a user of the verifier. *)

LinkTypes ==
  /\ request \in Plans
  /\ wire \in Seq(Frames)
  /\ half \in Nonces \cup {None} /\ pending \in Nonces \cup {None}
  /\ up \in BOOLEAN

FileTypes ==
  /\ acked \subseteq Nonces /\ refused \subseteq Nonces
  /\ abandoned \subseteq Nonces /\ owed \subseteq Nonces
  /\ ran \in [Nonces -> Nat] /\ troubles \in 0..MaxTroubles

Files(f) == DOMAIN f = Paths /\ \A p \in Paths : f[p] \in {Absent, Dir} \/ f[p][1] = "file"

Types == LinkTypes /\ FileTypes /\ Files(fs)

Inv == VInv /\ Types /\ OneEffectPerAcceptance

LEMMA OfSequences ==
  ASSUME NEW S, NEW w \in Seq(S)
  PROVE  /\ w # <<>> => Head(w) \in S /\ Tail(w) \in Seq(S)
         /\ \A x \in S : Append(w, x) \in Seq(S)
         /\ \A k \in 0..Len(w) : SubSeq(w, 1, k) \in Seq(S)
<1>1. ASSUME NEW k \in 0..Len(w) PROVE SubSeq(w, 1, k) \in Seq(S)
  <2>1. \A i \in 1..k : w[i] \in S OBVIOUS
  <2> QED BY <2>1, SubSeqProperties
<1> QED BY <1>1

LEMMA FrameOf ==
  ASSUME wire \in Seq(Frames), wire # <<>>
  PROVE  Frame.of \in Nonces /\ Tail(wire) \in Seq(Frames)
<1>1. Frame \in Frames /\ Tail(wire) \in Seq(Frames) BY OfSequences DEF Frame
<1> QED BY <1>1 DEF Frames

LEMMA CallOf ==
  ASSUME VInv, calls[Reader] # NoCall
  PROVE  calls[Reader].nonce \in Nonces
  BY FileAssumption DEF VInv, Typed, Call

LEMMA UsesVerifier ==
  ASSUME Typed, LinkTypes, [Next]_vars
  PROVE  [VerifierNext]_verifierVars
<1> USE DEF verifierVars
<1>1. ASSUME NEW n \in Nonces, Send(n) PROVE VerifierNext
  <2>1. PICK s \in clock..(clock + MaxDrift) : Sign(n, s) BY <1>1 DEF Send
  <2>2. s \in Nat BY BoundAssumption DEF Typed
  <2> QED BY <2>1, <2>2 DEF VerifierNext
<1>2. ASSUME NEW n \in Nonces, Resend(n) PROVE UNCHANGED verifierVars BY <1>2 DEF Resend
<1>3. CASE SendData  BY <1>3 DEF SendData
<1>4. CASE Abandon   BY <1>4 DEF Abandon
<1>5. CASE Lose      BY <1>5 DEF Lose
<1>6. CASE Reconnect BY <1>6 DEF Reconnect
<1>7. CASE ReadRequest
  <2>1. Frame.of \in Nonces BY <1>7, FrameOf DEF ReadRequest, Reads, LinkTypes
  <2>2. request[Frame.of].right \in BOOLEAN BY <2>1, FileAssumption DEF LinkTypes
  <2>3. Verify(Reader, Frame.of, request[Frame.of].right) BY <1>7 DEF ReadRequest
  <2>4. Reader \in Callers BY FileAssumption
  <2>5. \E c \in Callers : \E n \in Nonces, right \in BOOLEAN : Verify(c, n, right)
    BY <2>1, <2>2, <2>3, <2>4, Zenon
  <2> QED BY <2>5 DEF VerifierNext
<1>8. CASE ReadLate  BY <1>8 DEF ReadLate
<1>9. CASE ReadData  BY <1>9 DEF ReadData
<1>10. CASE Decide   BY <1>10, FileAssumption DEF Decide, VerifierNext
<1>11. CASE Time     BY <1>11 DEF Time, VerifierNext
<1>12. CASE UNCHANGED vars BY <1>12 DEF vars
<1> QED BY <1>1, <1>2, <1>3, <1>4, <1>5, <1>6, <1>7, <1>8, <1>9, <1>10, <1>11, <1>12
        DEF Next, Reading

LEMMA LinkStep ==
  ASSUME VInv, LinkTypes, [Next]_vars
  PROVE  LinkTypes'
<1> USE DEF LinkTypes
<1>1. ASSUME NEW n \in Nonces, Forward(n) PROVE LinkTypes'
  <2>1. Header(n) \in Frames BY DEF Header, Frames
  <2>2. wire' \in Seq(Frames) BY <1>1, <2>1, OfSequences DEF Forward
  <2> QED BY <1>1, <2>2 DEF Forward
<1>2. ASSUME NEW n \in Nonces, Send(n) PROVE LinkTypes' BY <1>1, <1>2 DEF Send
<1>3. ASSUME NEW n \in Nonces, Resend(n) PROVE LinkTypes' BY <1>1, <1>3 DEF Resend
<1>4. CASE SendData
  <2>1. Data(half) \in Frames BY <1>4 DEF SendData, Data, Frames
  <2>2. wire' \in Seq(Frames) BY <1>4, <2>1, OfSequences DEF SendData
  <2> QED BY <1>4, <2>2 DEF SendData, fileVars
<1>5. CASE Abandon BY <1>5 DEF Abandon
<1>6. CASE Lose
  <2>1. wire' \in Seq(Frames) BY <1>6, OfSequences DEF Lose
  <2> QED BY <1>6, <2>1 DEF Lose
<1>7. CASE Reconnect BY <1>7 DEF Reconnect
<1>8. CASE ReadRequest BY <1>8, FrameOf DEF ReadRequest, Reads, fileVars
<1>9. CASE ReadLate BY <1>9, FrameOf DEF ReadLate, Reads
<1>10. CASE ReadData BY <1>10, FrameOf DEF ReadData, Reads
<1>11. CASE Decide
  <2>1. calls[Reader].nonce \in Nonces BY <1>11, CallOf DEF Decide, Record
  <2> QED BY <1>11, <2>1 DEF Decide, linkVars, Take
<1>12. CASE Time BY <1>12 DEF Time, linkVars, fileVars
<1>13. CASE UNCHANGED vars BY <1>13 DEF vars, linkVars, fileVars
<1> QED BY <1>2, <1>3, <1>4, <1>5, <1>6, <1>7, <1>8, <1>9, <1>10, <1>11, <1>12, <1>13
        DEF Next, Reading

LEMMA PerformTypes ==
  ASSUME FileTypes, NEW n \in Nonces, NEW d, Perform(n, d)
  PROVE  /\ acked' \subseteq Nonces /\ owed' \subseteq Nonces
         /\ ran' \in [Nonces -> Nat] /\ troubles' \in 0..MaxTroubles
<1>1. \E ok \in BOOLEAN : Reply(n, ok) BY DEF Perform
<1>2. acked' \subseteq Nonces /\ owed' \subseteq Nonces BY <1>1, Zenon DEF Reply, FileTypes
<1>3. ran' = ran \/ ran' = [ran EXCEPT ![n] = @ + 1] BY DEF Perform
<1>4. troubles' = troubles \/ (troubles < MaxTroubles /\ troubles' = troubles + 1)
  BY DEF Perform
<1> QED BY <1>2, <1>3, <1>4, BoundAssumption DEF FileTypes

LEMMA FileStep ==
  ASSUME VInv, LinkTypes, FileTypes, [Next]_vars
  PROVE  FileTypes'
<1> USE BoundAssumption DEF FileTypes
<1>1. ASSUME NEW n \in Nonces, Send(n) PROVE FileTypes' BY <1>1 DEF Send, Forward
<1>2. ASSUME NEW n \in Nonces, Resend(n) PROVE FileTypes' BY <1>2 DEF Resend, Forward
<1>3. CASE SendData BY <1>3 DEF SendData, fileVars
<1>4. CASE Abandon BY <1>4 DEF Abandon, LinkTypes
<1>5. CASE Lose BY <1>5 DEF Lose
<1>6. CASE Reconnect BY <1>6 DEF Reconnect
<1>7. CASE ReadRequest BY <1>7 DEF ReadRequest, Reads, fileVars
<1>8. CASE ReadLate BY <1>8, FrameOf DEF ReadLate, Reads, Refuse, Reply, LinkTypes
<1>9. CASE ReadData
  <2>1. UNCHANGED <<refused, abandoned>> BY <1>9 DEF ReadData, Reads
  <2>2. CASE pending = None /\ UNCHANGED <<fs, ran, owed, acked, troubles>> BY <2>1, <2>2
  <2>3. CASE pending # None /\ Perform(pending, Frame.of)
    BY <2>1, <2>3, PerformTypes DEF LinkTypes
  <2> QED BY <1>9, <2>2, <2>3 DEF ReadData
<1>10. CASE Decide
  <2> DEFINE n == calls[Reader].nonce
  <2>1. n \in Nonces BY <1>10, CallOf DEF Decide, Record
  <2>2. abandoned' = abandoned BY <1>10 DEF Decide, linkVars
  <2>3. CASE Refuse(n) /\ UNCHANGED <<pending, fs, ran, troubles>>
    BY <2>1, <2>2, <2>3 DEF Refuse, Reply
  <2>4. CASE refused' = refused \ {n} /\ UNCHANGED <<fs, ran, owed, acked, troubles>>
    BY <2>2, <2>4
  <2>5. CASE Perform(n, n) /\ UNCHANGED <<pending, refused>>
    BY <2>1, <2>2, <2>5, PerformTypes
  <2> QED BY <1>10, <2>3, <2>4, <2>5 DEF Decide
<1>11. CASE Time BY <1>11 DEF Time, linkVars, fileVars
<1>12. CASE UNCHANGED vars BY <1>12 DEF vars, linkVars, fileVars
<1> QED BY <1>1, <1>2, <1>3, <1>4, <1>5, <1>6, <1>7, <1>8, <1>9, <1>10, <1>11, <1>12
        DEF Next, Reading

-----------------------------------------------------------------------------
(* The disk keeps its shape. *)

LEMMA WrittenFiles ==
  ASSUME Files(fs), NEW q, NEW d
  PROVE  Files(Written(fs, q, d)) /\ Files([fs EXCEPT ![q.path] = File(Opened(fs, q))])
  BY DEF Files, Written, File

LEMMA AfterFiles ==
  ASSUME Files(fs), NEW q, q.path \in Paths, q.op \in Operations, Possible(fs, q), NEW d
  PROVE  Files(After(fs, q, d))
<1>1. CASE q.op = "write"
  BY <1>1, WrittenFiles DEF After
<1>2. CASE q.op = "remove"
  BY <1>2 DEF After, Files
<1>3. CASE q.op = "rename"
  <2>1. fs[q.path][1] = "file" BY <1>3 DEF Possible, IsFile, Files
  <2>2. After(fs, q, d) = [fs EXCEPT ![q.path] = Absent, ![q.to] = fs[q.path]]
    BY <1>3 DEF After
  <2> QED BY <2>1, <2>2 DEF Files
<1>4. CASE q.op = "mkdir"
  BY <1>4 DEF After, Files
<1>5. CASE q.op = "rmdir"
  BY <1>5 DEF After, Files
<1> QED BY <1>1, <1>2, <1>3, <1>4, <1>5 DEF Operations

LEMMA PerformFiles ==
  ASSUME Files(fs), request \in Plans, NEW n \in Nonces, NEW d, Perform(n, d)
  PROVE  Files(fs')
<1> DEFINE q == request[n]
<1>1. q.path \in Paths /\ q.op \in Operations BY FileAssumption
<1>2. \/ Possible(fs, q) /\ fs' = After(fs, q, d)
      \/ fs' = fs
      \/ fs' \in Torn(fs, q)
  BY DEF Perform
<1>3. ASSUME fs' \in Torn(fs, q) PROVE Files(fs')
  BY <1>3, WrittenFiles DEF Torn
<1> QED BY <1>1, <1>2, <1>3, AfterFiles

LEMMA FilesStep ==
  ASSUME VInv, LinkTypes, Files(fs), [Next]_vars
  PROVE  Files(fs')
<1>1. CASE fs' = fs BY <1>1
<1>2. CASE ReadData /\ Perform(pending, Frame.of) /\ pending # None
  BY <1>2, PerformFiles DEF LinkTypes
<1>3. ASSUME Decide, Perform(calls[Reader].nonce, calls[Reader].nonce) PROVE Files(fs')
  <2>1. calls[Reader].nonce \in Nonces BY <1>3, CallOf DEF Decide, Record
  <2> QED BY <1>3, <2>1, PerformFiles DEF LinkTypes
<1>4. CASE ReadData BY <1>1, <1>2, <1>4 DEF ReadData
<1>5. CASE Decide BY <1>1, <1>3, <1>5 DEF Decide
<1>6. ASSUME [Next]_vars, ~ReadData, ~Decide PROVE fs' = fs
  BY <1>6 DEF Next, Send, Resend, Forward, SendData, Abandon, Lose, Reconnect, Reading,
              ReadRequest, ReadLate, Time, fileVars, vars
<1> QED BY <1>1, <1>4, <1>5, <1>6

-----------------------------------------------------------------------------
LEMMA EffectStep ==
  ASSUME VInv, LinkTypes, FileTypes, OneEffectPerAcceptance, [Next]_vars
  PROVE  OneEffectPerAcceptance'
<1> USE DEF OneEffectPerAcceptance
<1>0. /\ ran \in [Nonces -> Nat] /\ accepted \in [Nonces -> Seq(Acceptance)]
      /\ \A n \in Nonces : Len(accepted[n]) \in Nat
  BY DEF FileTypes, VInv, Typed
<1>a. None \notin Nonces BY FileAssumption
<1>1. CASE UNCHANGED <<ran, pending, accepted>> BY <1>1
<1>2. CASE Reconnect BY <1>0, <1>a, <1>2 DEF Reconnect, verifierVars
<1>3. CASE ReadData
  <2>1. pending' = None /\ accepted' = accepted BY <1>3 DEF ReadData, verifierVars
  <2>2. ran' = ran \/ (pending \in Nonces /\ ran' = [ran EXCEPT ![pending] = @ + 1])
    BY <1>3 DEF ReadData, Perform, LinkTypes
  <2>3. CASE ran' = ran BY <1>0, <1>a, <2>1, <2>3
  <2>4. CASE pending \in Nonces /\ ran' = [ran EXCEPT ![pending] = @ + 1]
    BY <1>0, <1>a, <2>1, <2>4
  <2> QED BY <2>2, <2>3, <2>4
<1>4. CASE Decide
  <2> DEFINE n == calls[Reader].nonce
             more == [accepted EXCEPT ![n] =
                        Append(@, [checked |-> calls[Reader].at, recorded |-> clock])]
  <2>1. n \in Nonces BY <1>4, CallOf DEF Decide, Record
  <2>2. CASE ~Accepts(Reader) BY <1>4, <2>2 DEF Decide, Record
  <2>3. CASE Accepts(Reader)
    <3>1. accepted' = more BY <1>4, <2>3 DEF Decide, Record
    <3>2. /\ Len(accepted'[n]) = Len(accepted[n]) + 1
          /\ \A m \in Nonces \ {n} : accepted'[m] = accepted[m]
      <4>1. calls[Reader].at \in Nat /\ clock \in Nat
        BY <1>4, FileAssumption DEF Decide, Record, VInv, Typed, Call
      <4> QED BY <1>0, <2>1, <3>1, <4>1 DEF Acceptance
    <3>3. \/ pending' = n /\ ran' = ran
          \/ pending' = pending /\ (ran' = ran \/ ran' = [ran EXCEPT ![n] = @ + 1])
      BY <1>4, <2>3 DEF Decide, Take, Perform
    <3> QED BY <1>0, <2>1, <3>2, <3>3
  <2> QED BY <2>2, <2>3
<1>5. ASSUME [Next]_vars, ~ReadData, ~Decide, ~Reconnect
      PROVE  UNCHANGED <<ran, pending, accepted>>
  BY <1>5 DEF Next, Send, Resend, Forward, SendData, Abandon, Lose, Reading, ReadRequest,
              ReadLate, Time, Tick, Cleanup, Sign, Verify, fileVars, vars, verifierVars
<1> QED BY <1>1, <1>2, <1>3, <1>4, <1>5

-----------------------------------------------------------------------------
LEMMA InvInit == Init => Inv
<1> SUFFICES ASSUME Init PROVE Inv OBVIOUS
<1> USE DEF Init
<1>1. VInv BY VInit
<1>2. LinkTypes BY DEF LinkTypes
<1>3. FileTypes BY BoundAssumption DEF FileTypes
<1>4. Files(fs) BY FileAssumption DEF Files
<1>5. OneEffectPerAcceptance
  <2>1. None \notin Nonces BY FileAssumption
  <2>2. \A n \in Nonces : Len(accepted[n]) = 0 BY DEF VerifierInit
  <2> QED BY <2>1, <2>2 DEF OneEffectPerAcceptance
<1> QED BY <1>1, <1>2, <1>3, <1>4, <1>5 DEF Inv, Types

LEMMA InvStep == Inv /\ [Next]_vars => Inv'
<1> SUFFICES ASSUME Inv, [Next]_vars PROVE Inv' OBVIOUS
<1> USE DEF Inv, Types
<1>1. VInv' BY UsesVerifier, VStep DEF VInv
<1>2. LinkTypes' /\ FileTypes' BY LinkStep, FileStep
<1>3. Files(fs)' BY FilesStep DEF Files
<1>4. OneEffectPerAcceptance' BY EffectStep
<1> QED BY <1>1, <1>2, <1>3, <1>4

\* The invariant behind the theorems that follow.
LEMMA Invariance == Spec => []Inv
  BY InvInit, InvStep, PTL DEF Spec

\* The types of the verifier and of the file API.
THEOREM Typing == Spec => []TypeOK
<1>1. Inv => VerifierTypeOK
  <2>1. Call \cup {NoCall} \subseteq [nonce : Nonces \cup {""}, right : BOOLEAN, at : Nat]
    <3> DEFINE Calls == [nonce : Nonces \cup {""}, right : BOOLEAN, at : Nat]
    <3>1. \A x \in Call : x \in Calls BY DEF Call
    <3>2. "" \in Nonces \cup {""} /\ FALSE \in BOOLEAN /\ 0 \in Nat OBVIOUS
    <3>3. NoCall \in Calls BY <3>2, Zenon DEF NoCall
    <3> QED BY <3>1, <3>3
  <2> QED BY <2>1 DEF Inv, VInv, Typed, VerifierTypeOK
<1>2. Inv => TypeOK
  BY <1>1 DEF Inv, Types, LinkTypes, FileTypes, Files, TypeOK
<1> QED BY Invariance, <1>2, PTL

\* Whatever the file API does with it, the verifier accepts a message twice
\* only if a clock ran ahead or a call was held up by half the nonce's life.
THEOREM Replays == Spec => []AcceptedAgain
<1>1. Inv => AcceptedAgain BY VInvImplies DEF Inv
<1> QED BY Invariance, <1>1, PTL

\* A request takes effect at most once for each acceptance.
THEOREM Effects == Spec => []OneEffectPerAcceptance
<1>1. Inv => OneEffectPerAcceptance BY DEF Inv
<1> QED BY Invariance, <1>1, PTL

\* The file API is one of the users the verifier is specified for.
THEOREM Composition == Spec => VerifierSpec
<1>1. Init => VerifierInit BY DEF Init
<1>2. Inv /\ [Next]_vars => [VerifierNext]_verifierVars
  BY UsesVerifier DEF Inv, VInv, Types
<1> QED BY Invariance, <1>1, <1>2, PTL DEF Spec, VerifierSpec

\* The same for the verifier alone, with any callers.
THEOREM ReplaysOfAnyCaller == VerifierSpec => []AcceptedAgain
<1>1. VerifierInit => VInv BY VInit
<1>2. VInv /\ [VerifierNext]_verifierVars => VInv' BY VStep
<1>3. VInv => AcceptedAgain BY VInvImplies
<1> QED BY <1>1, <1>2, <1>3, PTL DEF VerifierSpec

-----------------------------------------------------------------------------
(* The stream of frames *)

\* What is under way, and the data that the backend is about to send: a write
\* is in it as one piece, from the moment its header is forwarded.
StreamOf(w, h) == IF h = None THEN w ELSE Append(w, Data(h))
stream == StreamOf(wire, half)

IsWrite(n) == request[n].op = "write"
Calling(n) == calls[Reader].nonce = n

\* Data is that of a write, and right behind its header.
Adjacent ==
  \A i \in 1..Len(stream) : stream[i].frame = "binary" =>
    /\ IsWrite(stream[i].of)
    /\ i > 1 => stream[i-1] = Header(stream[i].of)

\* When data comes first, its header is being verified, was taken or was refused.
AtHead ==
  stream # <<>> /\ stream[1].frame = "binary" =>
    IF calls[Reader] # NoCall THEN Calling(stream[1].of)
    ELSE pending = stream[1].of \/ stream[1].of \in refused

\* A write that waits for its answer has data to come, which will find its
\* header; any other request is itself to come, or being verified.
WritesOwed ==
  \A n \in owed : IsWrite(n) =>
    \E i \in 1..Len(stream) : stream[i] = Data(n) /\ (i = 1 => pending = n \/ Calling(n))
OthersOwed ==
  \A n \in owed : ~IsWrite(n) =>
    Calling(n) \/ \E i \in 1..Len(stream) : stream[i] = Header(n)

Down == ~up => half = None /\ owed = {}

\* After a header comes its data, unless it was abandoned or lost.
Follows(i, n) ==
  \/ i <= Len(stream) /\ stream[i] = Data(n)
  \/ n \in abandoned
  \/ ~up /\ i > Len(stream)
HeadersFollowed ==
  \A i \in 1..Len(stream) :
    stream[i].frame = "text" /\ IsWrite(stream[i].of) => Follows(i + 1, stream[i].of)
TakenFollowed ==
  /\ pending # None => Follows(1, pending)
  /\ \A n \in Nonces : Calling(n) /\ IsWrite(n) => Follows(1, n)

Paired ==
  /\ Adjacent /\ AtHead /\ WritesOwed /\ OthersOwed /\ Down
  /\ HeadersFollowed /\ TakenFollowed

-----------------------------------------------------------------------------
LEMMA FrameFacts ==
  /\ \A n \in Nonces : /\ Header(n) \in Frames /\ Header(n).frame = "text" /\ Header(n).of = n
                       /\ Data(n) \in Frames /\ Data(n).frame = "binary" /\ Data(n).of = n
  /\ \A f \in Frames : /\ f.of \in Nonces
                       /\ f.frame = "text" => f = Header(f.of)
                       /\ f.frame = "binary" => f = Data(f.of)
                       /\ f.frame # "text" => f.frame = "binary"
  BY DEF Header, Data, Frames

LEMMA StreamShape ==
  ASSUME NEW w \in Seq(Frames), NEW h \in Nonces \cup {None}
  PROVE  /\ StreamOf(w, h) \in Seq(Frames) /\ Len(w) \in Nat
         /\ \A i \in 1..Len(w) : StreamOf(w, h)[i] = w[i]
         /\ h = None => StreamOf(w, h) = w
         /\ h # None => /\ Len(StreamOf(w, h)) = Len(w) + 1
                        /\ StreamOf(w, h)[Len(w) + 1] = Data(h)
<1>1. CASE h = None
  BY <1>1 DEF StreamOf
<1>2. CASE h # None
  <2>1. Data(h) \in Frames /\ StreamOf(w, h) = Append(w, Data(h))
    BY <1>2, FrameFacts DEF StreamOf
  <2> QED
    BY <1>2, <2>1
<1> QED
  BY <1>1, <1>2

LEMMA StreamTyped ==
  ASSUME LinkTypes
  PROVE  /\ stream \in Seq(Frames) /\ Len(stream) \in Nat
         /\ \A i \in 1..Len(stream) : stream[i] \in Frames
         /\ stream # <<>> <=> Len(stream) > 0
  BY StreamShape DEF stream, LinkTypes

\* A request is appended, a write together with its data.
LEMMA StreamForward ==
  ASSUME LinkTypes, LinkTypes', NEW n \in Nonces, Forward(n)
  PROVE  /\ Len(stream') = Len(stream) + IF IsWrite(n) THEN 2 ELSE 1
         /\ \A i \in 1..Len(stream) : stream'[i] = stream[i]
         /\ stream'[Len(stream) + 1] = Header(n)
         /\ IsWrite(n) => stream'[Len(stream) + 2] = Data(n)
<1>1. /\ half = None /\ wire' = Append(wire, Header(n)) /\ Header(n) \in Frames
      /\ half' = IF IsWrite(n) THEN n ELSE None
  BY FrameFacts DEF Forward, IsWrite
<1>2. stream = wire /\ wire \in Seq(Frames) /\ wire' \in Seq(Frames)
  BY <1>1 DEF LinkTypes, stream, StreamOf
<1>3. /\ Len(wire') = Len(wire) + 1 /\ wire'[Len(wire) + 1] = Header(n)
      /\ \A i \in 1..Len(wire) : wire'[i] = wire[i]
  BY <1>1, <1>2
<1>4. stream' = StreamOf(wire', half') /\ half' \in Nonces \cup {None} /\ n # None
  BY FileAssumption DEF stream, LinkTypes
<1>5. /\ \A i \in 1..Len(wire') : stream'[i] = wire'[i]
      /\ half' = None => stream' = wire'
      /\ half' # None => /\ Len(stream') = Len(wire') + 1
                         /\ stream'[Len(wire') + 1] = Data(half')
  BY <1>2, <1>4, StreamShape
<1> QED
  BY <1>1, <1>2, <1>3, <1>4, <1>5

\* The first frame is taken away.
LEMMA StreamReads ==
  ASSUME LinkTypes, LinkTypes', NEW frame, Reads(frame)
  PROVE  /\ Len(stream) = Len(stream') + 1 /\ Len(stream') \in Nat
         /\ \A i \in 1..Len(stream') : stream'[i] = stream[i + 1]
         /\ stream[1] = Frame /\ Frame.frame = frame /\ Frame.of \in Nonces
<1>1. /\ wire # <<>> /\ wire' = Tail(wire) /\ half' = half /\ wire \in Seq(Frames)
      /\ Frame = wire[1] /\ Frame.frame = frame /\ Frame.of \in Nonces
      /\ half \in Nonces \cup {None}
  BY FrameOf DEF Reads, LinkTypes, Frame
<1>2. /\ Len(wire) = Len(wire') + 1 /\ Len(wire') \in Nat /\ wire' \in Seq(Frames)
      /\ \A i \in 1..Len(wire') : wire'[i] = wire[i + 1]
  BY <1>1 DEF LinkTypes
<1>3. /\ \A i \in 1..Len(wire) : stream[i] = wire[i]
      /\ half = None => stream = wire
      /\ half # None => Len(stream) = Len(wire) + 1 /\ stream[Len(wire) + 1] = Data(half)
  BY <1>1, StreamShape DEF stream
<1>4. /\ \A i \in 1..Len(wire') : stream'[i] = wire'[i]
      /\ half = None => stream' = wire'
      /\ half # None => Len(stream') = Len(wire') + 1 /\ stream'[Len(wire') + 1] = Data(half)
  BY <1>1, <1>2, StreamShape DEF stream
<1> QED
  BY <1>1, <1>2, <1>3, <1>4

\* Frames at the end are lost, or the data that was to come.
LEMMA StreamCut ==
  ASSUME LinkTypes, LinkTypes', Abandon \/ Lose
  PROVE  /\ Len(stream') \in 0..Len(stream)
         /\ \A i \in 1..Len(stream') : stream'[i] = stream[i]
         /\ Abandon => Len(stream) = Len(stream') + 1 /\ stream[Len(stream)] = Data(half)
<1>1. half \in Nonces \cup {None} /\ half' = None /\ wire \in Seq(Frames)
  BY DEF LinkTypes, Abandon, Lose
<1>2. /\ \A i \in 1..Len(wire) : stream[i] = wire[i]
      /\ half = None => stream = wire
      /\ half # None => Len(stream) = Len(wire) + 1 /\ stream[Len(wire) + 1] = Data(half)
      /\ stream' = wire' /\ Len(wire) \in Nat
  BY <1>1, StreamShape DEF stream, StreamOf
<1>3. CASE Abandon
  BY <1>2, <1>3 DEF Abandon
<1>4. CASE Lose
  <2>1. PICK k \in 0..Len(wire) : wire' = SubSeq(wire, 1, k)
    BY <1>4 DEF Lose
  <2>2. Len(wire') = k /\ \A i \in 1..k : wire'[i] = wire[i]
    BY <1>1, <2>1
  <2>3. ~Abandon
    BY <1>4 DEF Abandon, Lose
  <2> QED
    BY <1>2, <2>1, <2>2, <2>3
<1> QED
  BY <1>3, <1>4

LEMMA StreamSent ==
  ASSUME LinkTypes, SendData
  PROVE  stream' = stream
  BY DEF SendData, stream, StreamOf

-----------------------------------------------------------------------------
LEMMA ReaderCalls ==
  ASSUME VInv
  PROVE  /\ calls[Reader] # NoCall => calls[Reader].nonce \in Nonces
         /\ \A n \in Nonces : Calling(n) => calls[Reader] # NoCall
         /\ NoCall.nonce \notin Nonces
<1>1. NoCall.nonce \notin Nonces
  BY FileAssumption DEF NoCall
<1> QED
  BY <1>1, CallOf DEF Calling

LEMMA PairedForward ==
  ASSUME LinkTypes, LinkTypes', Paired, NEW n \in Nonces, Forward(n),
         calls' = calls
  PROVE  Paired'
<1> USE DEF Paired, IsWrite, Calling
<1> DEFINE L == Len(stream)
<1>1. /\ UNCHANGED <<request, up, pending, refused, abandoned, calls>> /\ up = TRUE
      /\ owed' = owed \cup {n}
  BY DEF Forward, LinkTypes
<1>2. /\ L \in Nat /\ Len(stream') = L + IF IsWrite(n) THEN 2 ELSE 1
      /\ \A i \in 1..L : stream'[i] = stream[i]
      /\ stream'[L + 1] = Header(n) /\ (IsWrite(n) => stream'[L + 2] = Data(n))
      /\ stream # <<>> <=> L > 0
      /\ \A i \in 1..Len(stream') : i \in 1..L \/ i = L + 1 \/ (IsWrite(n) /\ i = L + 2)
  BY StreamTyped, StreamForward
<1>3. /\ Header(n).frame = "text" /\ Header(n).of = n
      /\ Data(n).frame = "binary" /\ Data(n).of = n
  BY FrameFacts
<1>5. Adjacent'
  <2> SUFFICES ASSUME NEW i \in 1..Len(stream'), stream'[i].frame = "binary"
               PROVE  /\ IsWrite(stream[i].of)'
                      /\ i > 1 => stream'[i-1] = Header(stream'[i].of)
    BY DEF Adjacent
  <2>1. CASE i \in 1..L
    <3>1. stream'[i] = stream[i] /\ (i > 1 => i - 1 \in 1..L /\ stream'[i-1] = stream[i-1])
      BY <1>2, <2>1
    <3> QED
      BY <1>1, <2>1, <3>1 DEF Adjacent
  <2>2. i # L + 1
    BY <1>2, <1>3
  <2>3. CASE IsWrite(n) /\ i = L + 2
    BY <1>1, <1>2, <1>3, <2>3
  <2> QED
    BY <1>2, <2>1, <2>2, <2>3
<1>6. AtHead'
  BY <1>1, <1>2, <1>3 DEF AtHead
<1>7. WritesOwed'
  BY <1>1, <1>2 DEF WritesOwed
<1>8. OthersOwed'
  BY <1>1, <1>2 DEF OthersOwed
<1>9. Down'
  BY <1>1 DEF Down
<1>10. \A i \in Nat \ {0}, m \in Nonces : Follows(i, m) => Follows(i, m)'
  BY <1>1, <1>2 DEF Follows
<1>11. HeadersFollowed'
  <2> SUFFICES ASSUME NEW i \in 1..Len(stream'),
                      (stream[i].frame = "text" /\ IsWrite(stream[i].of))'
               PROVE  Follows(i + 1, stream[i].of)'
    BY DEF HeadersFollowed
  <2>1. CASE i \in 1..L
    <3>1. stream'[i] = stream[i] /\ stream[i].of \in Nonces
      BY <1>2, <2>1, StreamTyped, FrameFacts
    <3> QED
      BY <1>1, <1>10, <2>1, <3>1 DEF HeadersFollowed
  <2>2. CASE i = L + 1
    BY <1>1, <1>2, <1>3, <2>2 DEF Follows
  <2>3. i # L + 2
    BY <1>2, <1>3
  <2> QED
    BY <1>2, <2>1, <2>2, <2>3
<1>12. TakenFollowed'
  BY <1>1, <1>10 DEF TakenFollowed, LinkTypes
<1> QED
  BY <1>5, <1>6, <1>7, <1>8, <1>9, <1>11, <1>12

\* Steps that move nothing.
LEMMA PairedSame ==
  ASSUME Paired, UNCHANGED <<calls, request, up, pending, refused, abandoned, owed, stream>>,
         half' = half \/ half' = None
  PROVE  Paired'
  BY DEF Paired, Adjacent, AtHead, WritesOwed, OthersOwed, Down, HeadersFollowed,
         TakenFollowed, Follows, IsWrite, Calling

LEMMA PairedCut ==
  ASSUME LinkTypes, LinkTypes', FileTypes, Paired, Abandon \/ Lose
  PROVE  Paired'
<1> USE DEF Paired, IsWrite, Calling
<1> DEFINE L == Len(stream)
           K == Len(stream')
<1>1. /\ UNCHANGED <<request, pending, refused, calls>> /\ half' = None
      /\ abandoned \subseteq abandoned' /\ owed' \subseteq owed
      /\ (Abandon /\ up' = up /\ half \in abandoned' /\ half \notin owed' /\ half \in Nonces)
           \/ (~Abandon /\ up' = FALSE /\ owed' = {})
  BY DEF Abandon, Lose, LinkTypes, verifierVars
<1>2. /\ L \in Nat /\ K \in 0..L /\ (stream' # <<>> <=> K > 0) /\ (stream # <<>> <=> L > 0)
      /\ \A i \in 1..K : stream'[i] = stream[i]
      /\ Abandon => L = K + 1 /\ stream[L] = Data(half)
  BY StreamTyped, StreamCut DEF LinkTypes
<1>5. Adjacent'
  <2> SUFFICES ASSUME NEW i \in 1..K, stream'[i].frame = "binary"
               PROVE  /\ IsWrite(stream[i].of)'
                      /\ i > 1 => stream'[i-1] = Header(stream'[i].of)
    BY DEF Adjacent
  <2>1. /\ i \in 1..L /\ stream'[i] = stream[i]
        /\ i > 1 => i - 1 \in 1..K /\ stream'[i-1] = stream[i-1]
    BY <1>2
  <2> QED
    BY <1>1, <2>1 DEF Adjacent
<1>6. AtHead'
  BY <1>1, <1>2 DEF AtHead
<1>7. WritesOwed' /\ OthersOwed'
  <2>1. CASE Abandon
    <3>1. ASSUME NEW m \in owed', NEW i \in 1..L, stream[i] \in {Data(m), Header(m)}
          PROVE  i \in 1..K /\ stream'[i] = stream[i]
      <4>1. m # half /\ half \in Nonces /\ m \in Nonces
        BY <1>1, <2>1, <3>1 DEF FileTypes
      <4>2. Data(half).of = half /\ Data(m).of = m /\ Header(m).of = m
        BY <4>1, FrameFacts
      <4>3. i # L
        BY <1>2, <2>1, <3>1, <4>1, <4>2
      <4> QED
        BY <1>2, <2>1, <4>3
    <3> QED
      BY <1>1, <1>2, <3>1 DEF WritesOwed, OthersOwed
  <2>2. CASE owed' = {}
    BY <2>2 DEF WritesOwed, OthersOwed
  <2> QED
    BY <1>1, <2>1, <2>2
<1>9. Down'
  BY <1>1 DEF Down
<1>10. ASSUME NEW i \in 1..(K + 1), NEW m \in Nonces, Follows(i, m) PROVE Follows(i, m)'
  <2>1. CASE Abandon
    <3>1. CASE i \in 1..K
      BY <1>1, <1>2, <1>10, <2>1, <3>1 DEF Follows
    <3>2. CASE i = K + 1
      <4>1. stream[i] = Data(half)
        BY <1>2, <2>1, <3>2
      <4>2. Data(m) = Data(half) => m = half
        BY <1>1, <2>1, FrameFacts
      <4> QED
        BY <1>1, <1>2, <1>10, <2>1, <3>2, <4>1, <4>2 DEF Follows
    <3> QED
      BY <3>1, <3>2, <1>2
  <2>2. CASE up' = FALSE
    BY <1>1, <1>2, <1>10, <2>2 DEF Follows
  <2> QED
    BY <1>1, <2>1, <2>2
<1>11. HeadersFollowed'
  <2> SUFFICES ASSUME NEW i \in 1..K, (stream[i].frame = "text" /\ IsWrite(stream[i].of))'
               PROVE  Follows(i + 1, stream[i].of)'
    BY DEF HeadersFollowed
  <2>1. i \in 1..L /\ i + 1 \in 1..(K + 1) /\ stream'[i] = stream[i]
    BY <1>2
  <2>2. stream[i].of \in Nonces
    BY <2>1, StreamTyped, FrameFacts
  <2> QED
    BY <1>1, <1>10, <2>1, <2>2 DEF HeadersFollowed
<1>12. TakenFollowed'
  BY <1>1, <1>2, <1>10 DEF TakenFollowed, LinkTypes
<1> QED
  BY <1>5, <1>6, <1>7, <1>9, <1>11, <1>12

\* A frame is read.  What is behind a header moves up with it.
LEMMA PairedTail ==
  ASSUME LinkTypes, LinkTypes', Paired, NEW frame, Reads(frame)
  PROVE  /\ Adjacent' /\ HeadersFollowed'
         /\ \A m \in Nonces, i \in 2..Len(stream) :
              /\ stream[i] = Data(m) => i - 1 \in 1..Len(stream') /\ stream'[i-1] = Data(m)
              /\ stream[i] = Header(m) => i - 1 \in 1..Len(stream') /\ stream'[i-1] = Header(m)
         /\ stream' # <<>> /\ stream'[1].frame = "binary" =>
              stream[1] = Header(stream'[1].of) /\ IsWrite(stream'[1].of)
         /\ \A m : Follows(2, m) => Follows(1, m)'
         /\ pending # None => pending \in abandoned \/ stream[1] = Data(pending)
<1> USE DEF Paired, IsWrite
<1> DEFINE K == Len(stream')
<1>1. /\ Len(stream) = K + 1 /\ K \in Nat /\ (stream' # <<>> <=> K > 0)
      /\ \A i \in 1..K : stream'[i] = stream[i + 1]
  BY StreamReads, StreamTyped DEF stream, LinkTypes, StreamOf
<1>2. UNCHANGED <<request, up, abandoned>>
  BY DEF Reads
<1>3. Adjacent'
  <2> SUFFICES ASSUME NEW i \in 1..K, stream'[i].frame = "binary"
               PROVE  /\ IsWrite(stream[i].of)'
                      /\ i > 1 => stream'[i-1] = Header(stream'[i].of)
    BY DEF Adjacent
  <2>1. /\ i + 1 \in 1..Len(stream) /\ i + 1 > 1 /\ stream'[i] = stream[i + 1]
        /\ i > 1 => i - 1 \in 1..K /\ stream'[i-1] = stream[i] /\ i = (i + 1) - 1
    BY <1>1
  <2> QED
    BY <1>2, <2>1 DEF Adjacent
<1>4. ASSUME NEW i \in 1..(K + 1), NEW m, Follows(i + 1, m)
      PROVE  Follows(i, m)'
  BY <1>1, <1>2, <1>4 DEF Follows
<1>5. HeadersFollowed'
  <2> SUFFICES ASSUME NEW i \in 1..K, (stream[i].frame = "text" /\ IsWrite(stream[i].of))'
               PROVE  Follows(i + 1, stream[i].of)'
    BY DEF HeadersFollowed
  <2>1. i + 1 \in 1..Len(stream) /\ i + 1 \in 1..(K + 1) /\ stream'[i] = stream[i + 1]
    BY <1>1
  <2> QED
    BY <1>2, <1>4, <2>1 DEF HeadersFollowed
<1>6. \A i \in 2..Len(stream) : i - 1 \in 1..K /\ stream'[i-1] = stream[i]
  BY <1>1
<1>7. stream' # <<>> /\ stream'[1].frame = "binary" =>
        stream[1] = Header(stream'[1].of) /\ IsWrite(stream'[1].of)
  <2> SUFFICES ASSUME stream' # <<>>, stream'[1].frame = "binary"
               PROVE  stream[1] = Header(stream'[1].of) /\ IsWrite(stream'[1].of)
    OBVIOUS
  <2>1. 2 \in 1..Len(stream) /\ 2 > 1 /\ stream'[1] = stream[2] /\ 2 - 1 = 1
    BY <1>1
  <2> QED
    BY <2>1 DEF Adjacent
<1>8. pending # None => pending \in abandoned \/ stream[1] = Data(pending)
  BY <1>1 DEF TakenFollowed, Follows
<1>9. ASSUME NEW m, Follows(2, m) PROVE Follows(1, m)'
  BY <1>1, <1>2, <1>9 DEF Follows
<1> QED
  BY <1>3, <1>5, <1>6, <1>7, <1>8, <1>9

\* Who waits for an answer goes on waiting for the same frames.
LEMMA OwedTail ==
  ASSUME LinkTypes, LinkTypes', VInv, FileTypes, Paired, NEW frame, Reads(frame),
         owed' \subseteq owed,
         \A n \in owed' : /\ stream[1] = Header(n) => Calling(n)'
                          /\ pending = n => frame # "binary"
  PROVE  WritesOwed' /\ OthersOwed'
<1> USE DEF Paired
<1>1. /\ stream[1].frame = frame /\ \A n \in Nonces : ~Calling(n)
      /\ \A n \in owed' : n \in Nonces /\ n \in owed
      /\ \A n \in Nonces : IsWrite(n)' = IsWrite(n)
  BY StreamReads, ReaderCalls DEF Reads, FileTypes, IsWrite
<1>2. \A m \in Nonces, i \in 2..Len(stream) :
        /\ stream[i] = Data(m) => i - 1 \in 1..Len(stream') /\ stream'[i-1] = Data(m)
        /\ stream[i] = Header(m) => i - 1 \in 1..Len(stream') /\ stream'[i-1] = Header(m)
  BY PairedTail
<1>3. ASSUME NEW m \in Nonces, stream' # <<>>, stream'[1] = Data(m)
      PROVE  stream[1] = Header(m)
  BY <1>3, PairedTail, FrameFacts
<1>4. \A i \in 1..Len(stream) : i = 1 \/ i \in 2..Len(stream)
  BY StreamTyped
<1>5. ASSUME NEW n \in owed', IsWrite(n)
      PROVE  \E i \in 1..Len(stream') :
               stream'[i] = Data(n) /\ (i = 1 => pending' = n \/ Calling(n)')
  <2>1. PICK i \in 1..Len(stream) : stream[i] = Data(n) /\ (i = 1 => pending = n \/ Calling(n))
    BY <1>1, <1>5 DEF WritesOwed
  <2>2. i # 1
    BY <1>1, <2>1, FrameFacts
  <2>3. i - 1 \in 1..Len(stream') /\ stream'[i-1] = Data(n)
    BY <1>1, <1>2, <1>4, <2>1, <2>2
  <2>4. i - 1 = 1 => Calling(n)'
    BY <1>1, <1>3, <2>3
  <2> QED
    BY <2>3, <2>4
<1>6. ASSUME NEW n \in owed', ~IsWrite(n)
      PROVE  Calling(n)' \/ \E i \in 1..Len(stream') : stream'[i] = Header(n)
  <2>1. PICK i \in 1..Len(stream) : stream[i] = Header(n)
    BY <1>1, <1>6 DEF OthersOwed
  <2> QED
    BY <1>1, <1>2, <1>4, <2>1
<1> QED
  BY <1>1, <1>5, <1>6 DEF WritesOwed, OthersOwed

LEMMA PairedRequest ==
  ASSUME LinkTypes, LinkTypes', VInv, FileTypes, Paired, ReadRequest
  PROVE  Paired'
<1> USE DEF Paired
<1> DEFINE k == Frame.of
<1>1. /\ Reads("text") /\ calls[Reader] = NoCall /\ k \in Nonces /\ stream[1] = Header(k)
      /\ UNCHANGED <<request, half, up, abandoned, pending, owed, refused>>
  BY StreamReads, StreamTyped, FrameFacts DEF ReadRequest, Reads, fileVars
<1>2. calls'[Reader].nonce = k /\ calls'[Reader] # NoCall
  <2>1. calls' = [calls EXCEPT ![Reader] = [nonce |-> k, right |-> request[k].right, at |-> clock]]
    BY DEF ReadRequest, Verify
  <2>2. Reader \in Callers /\ DOMAIN calls = Callers
    BY FileAssumption DEF VInv, Typed
  <2>3. calls'[Reader].nonce = k
    BY <2>1, <2>2
  <2> QED
    BY <1>1, <2>3, ReaderCalls
<1>3. \A m \in Nonces : /\ Header(m).frame = "text" /\ Header(m).of = m
                        /\ Header(m) = Header(k) => m = k
                        /\ Data(m).frame = "binary"
  BY <1>1, FrameFacts
<1>4. Adjacent' /\ HeadersFollowed'
  BY <1>1, PairedTail
<1>5. AtHead'
  <2> SUFFICES ASSUME stream' # <<>>, stream'[1].frame = "binary"
               PROVE  calls'[Reader].nonce = stream'[1].of
    BY <1>2 DEF AtHead, Calling
  <2>1. stream'[1].of \in Nonces /\ stream[1] = Header(stream'[1].of)
    BY <1>1, PairedTail, StreamShape, FrameFacts DEF stream, LinkTypes
  <2> QED
    BY <1>1, <1>2, <1>3, <2>1
<1>6. WritesOwed' /\ OthersOwed'
  <2>1. \A n \in owed' : (stream[1] = Header(n) => Calling(n)') /\ owed' \subseteq owed
    BY <1>1, <1>2, <1>3 DEF Calling, FileTypes
  <2> QED
    BY <1>1, <2>1, OwedTail
<1>7. Down'
  BY <1>1 DEF Down
<1>8. TakenFollowed'
  <2>1. \A m \in Nonces : Follows(2, m) => Follows(1, m)'
    BY <1>1, PairedTail
  <2>2. IsWrite(k) => Follows(2, k)
    BY <1>1, <1>3, StreamReads DEF HeadersFollowed
  <2>3. pending # None => pending \in abandoned
    BY <1>1, <1>3, PairedTail DEF LinkTypes
  <2> QED
    <3>1. pending' # None => Follows(1, pending)'
      BY <1>1, <2>3 DEF Follows
    <3>2. ASSUME NEW m \in Nonces, (Calling(m) /\ IsWrite(m))' PROVE Follows(1, m)'
      <4>1. m = k /\ IsWrite(k)
        BY <1>1, <1>2, <3>2 DEF Calling, IsWrite
      <4>2. Follows(2, m)
        BY <2>2, <4>1
      <4> QED
        BY <2>1, <4>2
    <3> QED
      BY <3>1, <3>2 DEF TakenFollowed
<1> QED
  BY <1>4, <1>5, <1>6, <1>7, <1>8

LEMMA PairedLate ==
  ASSUME LinkTypes, LinkTypes', VInv, FileTypes, Paired, ReadLate
  PROVE  Paired'
<1> USE DEF Paired
<1> DEFINE k == Frame.of
<1>1. /\ Reads("text") /\ calls[Reader] = NoCall /\ k \in Nonces /\ stream[1] = Header(k)
      /\ UNCHANGED <<request, half, up, abandoned, pending, calls>>
      /\ owed' = owed \ {k} /\ refused' = refused \cup {k}
  BY StreamReads, StreamTyped, FrameFacts
  DEF ReadLate, Reads, Refuse, Reply, verifierVars
<1>2. \A n \in Nonces : ~Calling(n)'
  BY <1>1, ReaderCalls DEF Calling
<1>3. \A m \in Nonces : /\ Header(m).frame = "text" /\ Header(m).of = m
                        /\ Header(m) = Header(k) => m = k
                        /\ Data(m).frame = "binary"
  BY <1>1, FrameFacts
<1>4. Adjacent' /\ HeadersFollowed'
  BY <1>1, PairedTail
<1>5. AtHead'
  <2> SUFFICES ASSUME stream' # <<>>, stream'[1].frame = "binary"
               PROVE  stream'[1].of \in refused'
    BY <1>1 DEF AtHead
  <2>1. stream'[1].of \in Nonces /\ stream[1] = Header(stream'[1].of)
    BY <1>1, PairedTail, StreamShape, FrameFacts DEF stream, LinkTypes
  <2> QED
    BY <1>1, <1>3, <2>1
<1>6. WritesOwed' /\ OthersOwed'
  <2>1. \A n \in owed' : stream[1] # Header(n) /\ owed' \subseteq owed
    BY <1>1, <1>3 DEF FileTypes
  <2> QED
    BY <1>1, <2>1, OwedTail
<1>7. Down'
  BY <1>1 DEF Down
<1>8. TakenFollowed'
  <2>1. pending # None => pending \in abandoned
    BY <1>1, <1>3, PairedTail DEF LinkTypes
  <2> QED
    BY <1>1, <1>2, <2>1 DEF TakenFollowed, Follows
<1> QED
  BY <1>4, <1>5, <1>6, <1>7, <1>8

LEMMA PairedData ==
  ASSUME LinkTypes, LinkTypes', VInv, FileTypes, Paired, ReadData
  PROVE  Paired'
<1> USE DEF Paired
<1>1. /\ Reads("binary") /\ calls[Reader] = NoCall /\ stream[1].frame = "binary"
      /\ UNCHANGED <<request, half, up, abandoned, calls, refused>> /\ pending' = None
      /\ owed' \subseteq owed \ {pending}
  <2>1. CASE pending = None
    BY <2>1, StreamReads, FileAssumption DEF ReadData, Reads, verifierVars, FileTypes
  <2>2. CASE pending # None
    BY <2>2, StreamReads DEF ReadData, Reads, verifierVars, Perform, Reply
  <2> QED
    BY <2>1, <2>2
<1>2. \A n \in Nonces : ~Calling(n)'
  BY <1>1, ReaderCalls DEF Calling
<1>3. \A m \in Nonces : Header(m).frame = "text"
  BY FrameFacts
<1>4. Adjacent' /\ HeadersFollowed'
  BY <1>1, PairedTail
<1>5. AtHead'
  <2> SUFFICES ASSUME stream' # <<>>, stream'[1].frame = "binary" PROVE FALSE
    BY DEF AtHead
  <2>1. stream'[1].of \in Nonces /\ stream[1] = Header(stream'[1].of)
    BY <1>1, PairedTail, StreamShape, FrameFacts DEF stream, LinkTypes
  <2> QED
    BY <1>1, <1>3, <2>1
<1>6. WritesOwed' /\ OthersOwed'
  <2>1. /\ \A n \in owed' : stream[1] # Header(n) /\ pending # n
        /\ owed' \subseteq owed
    BY <1>1, <1>3 DEF FileTypes
  <2> QED
    BY <1>1, <2>1, OwedTail
<1>7. Down'
  BY <1>1 DEF Down
<1>8. TakenFollowed'
  BY <1>1, <1>2 DEF TakenFollowed
<1> QED
  BY <1>4, <1>5, <1>6, <1>7, <1>8

LEMMA PairedDecide ==
  ASSUME LinkTypes, VInv, FileTypes, Paired, Decide
  PROVE  Paired'
<1> USE DEF Paired
<1> DEFINE k == calls[Reader].nonce
<1>1. /\ calls[Reader] # NoCall /\ calls' = [calls EXCEPT ![Reader] = NoCall]
      /\ UNCHANGED <<request, wire, half, up, abandoned, stream>> /\ k \in Nonces
  BY ReaderCalls DEF Decide, Record, linkVars, stream
<1>2. calls'[Reader] = NoCall /\ \A n \in Nonces : ~Calling(n)'
  BY <1>1, ReaderCalls, FileAssumption DEF VInv, Typed, Calling
<1>3. \/ UNCHANGED pending /\ owed' = owed \ {k} /\ refused' = refused \cup {k}
      \/ IsWrite(k) /\ pending' = k /\ UNCHANGED owed
      \/ ~IsWrite(k) /\ UNCHANGED <<pending, refused>> /\ owed' = owed \ {k}
  BY DEF Decide, Refuse, Reply, Take, Perform, IsWrite
<1>4. \A n \in Nonces : Calling(n) <=> n = k
  BY DEF Calling
<1>5. Adjacent' /\ HeadersFollowed'
  BY <1>1 DEF Adjacent, HeadersFollowed, Follows, IsWrite
<1>6. stream # <<>> /\ stream[1].frame = "binary" => stream[1].of = k /\ IsWrite(k)
  BY <1>1, StreamTyped DEF AtHead, Adjacent, Calling
<1>7. AtHead'
  BY <1>1, <1>2, <1>3, <1>6 DEF AtHead
<1>8. WritesOwed'
  <2> SUFFICES ASSUME NEW n \in owed', IsWrite(n)
               PROVE  \E i \in 1..Len(stream) :
                        stream[i] = Data(n) /\ (i = 1 => pending' = n)
    BY <1>1 DEF WritesOwed, IsWrite
  <2>1. n \in owed /\ n \in Nonces
    BY <1>3 DEF FileTypes
  <2>2. PICK i \in 1..Len(stream) : stream[i] = Data(n)
    BY <2>1 DEF WritesOwed
  <2>3. i = 1 => n = k
    BY <1>6, <2>1, <2>2, FrameFacts, StreamTyped
  <2>4. n = k => pending' = n
    BY <1>3
  <2> QED
    BY <2>2, <2>3, <2>4
<1>9. OthersOwed'
  <2> SUFFICES ASSUME NEW n \in owed', ~IsWrite(n)
               PROVE  \E i \in 1..Len(stream) : stream[i] = Header(n)
    BY <1>1 DEF OthersOwed, IsWrite
  <2>1. n \in owed /\ n \in Nonces /\ n # k
    BY <1>3 DEF FileTypes
  <2> QED
    BY <1>4, <2>1 DEF OthersOwed
<1>10. Down'
  BY <1>1, <1>3 DEF Down
<1>11. TakenFollowed'
  <2>1. pending' # None => Follows(1, pending')
    BY <1>1, <1>3, <1>4 DEF TakenFollowed
  <2> QED
    BY <1>1, <1>2, <2>1 DEF TakenFollowed, Follows
<1> QED
  BY <1>5, <1>7, <1>8, <1>9, <1>10, <1>11

LEMMA PairedReconnect ==
  ASSUME LinkTypes, VInv, Paired, Reconnect
  PROVE  Paired'
<1>1. /\ ~up /\ up' = TRUE /\ pending' = None /\ owed' = {} /\ stream' = <<>>
      /\ calls'[Reader] = NoCall
  BY DEF Reconnect, Paired, Down, stream, StreamOf, verifierVars
<1>2. \A n \in Nonces : ~Calling(n)'
  BY <1>1, ReaderCalls DEF Calling
<1> QED
  BY <1>1, <1>2 DEF Paired, Adjacent, AtHead, WritesOwed, OthersOwed, Down,
                    HeadersFollowed, TakenFollowed

LEMMA PairedInit == Init => Paired
<1> SUFFICES ASSUME Init PROVE Paired
  OBVIOUS
<1>1. /\ stream = <<>> /\ owed = {} /\ pending = None /\ up = TRUE
      /\ calls[Reader].nonce \notin Nonces
  BY FileAssumption DEF Init, VerifierInit, NoCall, stream, StreamOf
<1> QED
  BY <1>1 DEF Paired, Adjacent, AtHead, WritesOwed, OthersOwed, Down,
              HeadersFollowed, TakenFollowed, Calling

LEMMA PairedStep == Inv /\ Inv' /\ Paired /\ [Next]_vars => Paired'
<1> SUFFICES ASSUME Inv, Inv', Paired, [Next]_vars PROVE Paired'
  OBVIOUS
<1> USE DEF Inv, Types
<1>1. ASSUME NEW n \in Nonces, Send(n) \/ Resend(n) PROVE Paired'
  BY <1>1, PairedForward DEF Send, Resend, Sign, verifierVars
<1>2. CASE SendData
  BY <1>2, PairedSame, StreamSent DEF SendData, verifierVars, fileVars
<1>3. CASE Abandon \/ Lose
  BY <1>3, PairedCut
<1>4. CASE Reconnect
  BY <1>4, PairedReconnect
<1>5. CASE Reading
  BY <1>5, PairedRequest, PairedLate, PairedData, PairedDecide DEF Reading
<1>6. CASE Time \/ UNCHANGED vars
  BY <1>6, PairedSame
  DEF Time, Tick, Cleanup, vars, verifierVars, fileVars, linkVars, stream
<1> QED
  BY <1>1, <1>2, <1>3, <1>4, <1>5, <1>6 DEF Next

LEMMA PairedAlways == Spec => []Paired
  BY Invariance, PairedInit, PairedStep, PTL DEF Spec

\* No request is forgotten: the backend waits for an answer only as long as the
\* request, or its data, is still to come or being verified.
THEOREM Answers == Spec => []NoRequestForgotten
<1>1. Inv /\ Paired => NoRequestForgotten
  <2> SUFFICES ASSUME Inv, Paired, NEW n \in owed
               PROVE  \/ half = n \/ calls[Reader].nonce = n
                      \/ \E i \in DOMAIN wire : wire[i].of = n
    BY DEF NoRequestForgotten
  <2>1. \/ Calling(n)
        \/ \E i \in 1..Len(stream) : stream[i] \in {Data(n), Header(n)}
    BY DEF Paired, WritesOwed, OthersOwed
  <2>2. ASSUME NEW i \in 1..Len(stream), stream[i] \in {Data(n), Header(n)}
        PROVE  half = n \/ \E j \in DOMAIN wire : wire[j].of = n
    <3>1. n \in Nonces /\ stream[i].of = n /\ (half \in Nonces => Data(half).of = half)
      BY <2>2, FrameFacts DEF Inv, Types, FileTypes
    <3>2. wire \in Seq(Frames) /\ half \in Nonces \cup {None}
      BY DEF Inv, Types, LinkTypes
    <3>3. CASE i \in 1..Len(wire)
      <4>1. stream[i] = wire[i] /\ DOMAIN wire = 1..Len(wire)
        BY <3>2, <3>3, StreamShape DEF stream
      <4> QED
        BY <3>1, <3>3, <4>1
    <3>4. CASE i \notin 1..Len(wire)
      <4>1. half # None /\ i = Len(wire) + 1
        BY <3>2, <3>4, StreamShape DEF stream
      <4> QED
        BY <3>1, <3>2, <4>1, StreamShape DEF stream
    <3> QED
      BY <3>3, <3>4
  <2> QED
    BY <2>1, <2>2 DEF Calling
<1> QED
  BY Invariance, PairedAlways, <1>1, PTL

\* Bytes go into the file of their own header, or those of a refused request to
\* a header whose own data never came: handleMessages keeps one header, and the
\* frames of a write come as one piece.
THEOREM DataGoesHome == Spec => DataToItsHeader
<1>1. ASSUME Inv, Paired, Next, NEW h \in Nonces, ran'[h] # ran[h], request[h].op = "write"
      PROVE  Head(wire).of = h \/ (h \in abandoned /\ Head(wire).of \in refused)
  <2>0. VInv /\ LinkTypes /\ FileTypes /\ LinkTypes' /\ Paired /\ Next
    BY <1>1, LinkStep DEF Inv, Types
  <2>1. CASE ReadData
    <3>1. Reads("binary") /\ pending = h /\ h # None
      BY <1>1, <2>0, <2>1, FileAssumption DEF ReadData, Perform, FileTypes, LinkTypes
    <3>2. stream[1] = Frame /\ Frame.frame = "binary" /\ calls[Reader] = NoCall /\ stream # <<>>
      BY <2>0, <3>1, StreamReads, StreamTyped DEF Reads
    <3>3. h \in abandoned \/ stream[1] = Data(h)
      BY <2>0, <3>1, PairedTail
    <3>4. pending = stream[1].of \/ stream[1].of \in refused
      BY <2>0, <3>2 DEF Paired, AtHead
    <3>5. Data(h).of = h
      BY <1>1, FrameFacts
    <3> QED
      BY <3>1, <3>2, <3>3, <3>4, <3>5 DEF Frame
  <2>2. CASE Decide
    <3>1. calls[Reader].nonce \in Nonces
      BY <2>0, <2>2, CallOf DEF Decide, Record
    <3>2. ran' = ran \/ (request[calls[Reader].nonce].op # "write"
                          /\ ran' = [ran EXCEPT ![calls[Reader].nonce] = @ + 1])
      BY <2>2 DEF Decide, Perform
    <3> QED
      BY <1>1, <2>0, <3>1, <3>2 DEF FileTypes
  <2>3. ASSUME ~ReadData, ~Decide PROVE ran' = ran
    BY <2>0, <2>3 DEF Next, Send, Resend, Forward, SendData, Abandon, Lose, Reconnect, Reading,
                      ReadRequest, ReadLate, Time, fileVars
  <2> QED
    BY <1>1, <2>1, <2>2, <2>3
<1>2. Inv /\ Paired /\ [Next]_vars =>
        [\A h \in Nonces :
           ran'[h] # ran[h] /\ request[h].op = "write" =>
             LET d == Head(wire).of
             IN  d = h \/ (h \in abandoned /\ d \in refused)]_vars
  BY <1>1
<1> QED
  BY Invariance, PairedAlways, <1>2, PTL DEF Spec, DataToItsHeader

-----------------------------------------------------------------------------
(* Uploads *)

PartsOf(u) == {u[k] : k \in 1..Len(u)}
PathOf(u)  == request[u[1]].path

\* nothing has happened that an upload does not answer for
Clean(u) ==
  /\ \A k \in 1..Len(u) : u[k] \notin abandoned /\ Len(accepted[u[k]]) <= 1
  /\ \A n \in Nonces \ PartsOf(u) : accepted[n] = <<>> \/ PathOf(u) \notin Touches(n)

AckedRan == \A n \in acked : ran[n] > 0

\* A part is signed when all the parts before it are acknowledged.
InTurn ==
  \A u \in Uploads : \A k \in 1..Len(u) :
    stamp[u[k]] # NotSigned => \A i \in 1..(k - 1) : u[i] \in acked

\* Until the next part takes effect, the file is the parts acknowledged so far.
Grown(u) ==
  \A k \in 1..Len(u) :
    /\ u[k] \in acked
    /\ k < Len(u) => accepted[u[k+1]] = <<>> \/ pending = u[k+1]
    => fs[PathOf(u)] = File(SubSeq(u, 1, k))

Uploading == AckedRan /\ InTurn /\ \A u \in Uploads : Clean(u) => Grown(u)

-----------------------------------------------------------------------------
\* What a part is, by the assumption on uploads.
LEMMA PartFacts ==
  ASSUME LinkTypes, NEW u \in Uploads
  PROVE  /\ Len(u) \in Nat /\ 1 \in 1..Len(u) /\ PathOf(u) \in Paths
         /\ \A k \in 1..Len(u) :
              /\ u[k] \in Nonces /\ IsWrite(u[k]) /\ request[u[k]].path = PathOf(u)
              /\ request[u[k]].offset = k - 1
         /\ \A i, j \in 1..Len(u) : u[i] = u[j] => i = j
<1>1. /\ u \in Seq(Nonces) /\ u # <<>> /\ DOMAIN u = 1..Len(u) /\ Len(u) \in Nat
      /\ \A i, j \in DOMAIN u : u[i] = u[j] => i = j
      /\ request \in Plans
  BY UploadAssumption DEF LinkTypes
<1>2. \A k \in 1..Len(u) : /\ request[u[k]].op = "write" /\ request[u[k]].path = request[u[1]].path
                           /\ request[u[k]].offset = k - 1
  BY <1>1, UploadAssumption
<1>3. 1 \in 1..Len(u) /\ \A k \in 1..Len(u) : u[k] \in Nonces
  BY <1>1
<1>4. PathOf(u) \in Paths
  BY <1>1, <1>3, FileAssumption DEF PathOf
<1> QED
  BY <1>1, <1>2, <1>3, <1>4 DEF IsWrite, PathOf

\* What was accepted was signed.
LEMMA AcceptedSigned ==
  ASSUME VInv, NEW n \in Nonces, accepted[n] # <<>>
  PROVE  stamp[n] # NotSigned /\ Len(accepted[n]) \in Nat /\ Len(accepted[n]) > 0
<1>1. accepted[n] \in Seq(Acceptance) /\ 1 \in 1..Len(accepted[n])
  BY DEF VInv, Typed
<1> QED
  BY <1>1 DEF VInv, AllKept, Kept, Within

\* What took effect, or is about to, was accepted; an acknowledged part of a
\* clean upload has taken effect and will not again.
LEMMA EffectFacts ==
  ASSUME VInv, FileTypes, OneEffectPerAcceptance, NEW n \in Nonces
  PROVE  /\ ran[n] \in Nat
         /\ ran[n] > 0 \/ pending = n => accepted[n] # <<>>
         /\ Len(accepted[n]) <= 1 /\ pending = n => ran[n] = 0
<1>1. ran[n] \in Nat /\ Len(accepted[n]) \in Nat /\ Len(<<>>) = 0
  BY DEF VInv, Typed, FileTypes
<1> QED
  BY <1>1 DEF OneEffectPerAcceptance

LEMMA EarlierAcked ==
  ASSUME VInv, LinkTypes, FileTypes, OneEffectPerAcceptance, AckedRan, InTurn,
         NEW u \in Uploads, NEW k \in 1..Len(u),
         u[k] \in acked \/ ran[u[k]] > 0 \/ pending = u[k] \/ accepted[u[k]] # <<>>
  PROVE  /\ accepted[u[k]] # <<>> /\ stamp[u[k]] # NotSigned
         /\ \A i \in 1..(k - 1) : u[i] \in acked /\ accepted[u[i]] # <<>>
<1>1. \A i \in 1..Len(u) : u[i] \in Nonces
  BY PartFacts
<1>2. Len(u) \in Nat
  BY PartFacts
<1>3. accepted[u[k]] # <<>>
  BY <1>1, EffectFacts DEF AckedRan
<1>4. stamp[u[k]] # NotSigned
  BY <1>1, <1>3, AcceptedSigned
<1>5. ASSUME NEW i \in 1..(k - 1) PROVE u[i] \in acked /\ accepted[u[i]] # <<>>
  <2>1. i \in 1..Len(u) /\ u[i] \in acked
    BY <1>2, <1>4 DEF InTurn
  <2> QED
    BY <1>1, <2>1, EffectFacts DEF AckedRan
<1> QED
  BY <1>3, <1>4, <1>5

-----------------------------------------------------------------------------
\* What a request does to the counts, and to the disk.
LEMMA PerformEffect ==
  ASSUME FileTypes, NEW n \in Nonces, NEW d, Perform(n, d)
  PROVE  /\ acked \subseteq acked' /\ acked' \subseteq acked \cup {n}
         /\ \/ /\ Possible(fs, request[n]) /\ fs' = After(fs, request[n], d)
               /\ ran' = [ran EXCEPT ![n] = @ + 1]
            \/ /\ ran' = ran /\ acked' = acked /\ fs' \in Torn(fs, request[n])
  BY DEF Perform, Reply, Torn

\* A file that a request does not touch stays as it is, though mkdir makes the
\* parent too.
LEMMA Elsewhere ==
  ASSUME Files(fs), NEW q, q.path \in Paths, q.op \in Operations, NEW p \in Paths,
         p \notin {q.path, q.to} \cup Inside(q.path), NEW parts, fs[p] = File(parts), NEW d
  PROVE  /\ Possible(fs, q) => After(fs, q, d)[p] = File(parts)
         /\ \A f \in Torn(fs, q) : f[p] = File(parts)
<1>1. DOMAIN fs = Paths /\ fs[p] \notin {Absent, Dir}
  BY DEF Files, File, Absent, Dir
<1>2. ASSUME NEW x PROVE [fs EXCEPT ![q.path] = x][p] = File(parts)
  BY <1>1
<1>3. Written(fs, q, d)[p] = File(parts) /\ Written(fs, q, Hole)[p] = File(parts)
  BY <1>2 DEF Written
<1>4. ASSUME Possible(fs, q) PROVE After(fs, q, d)[p] = File(parts)
  <2>1. CASE q.op = "write"
    BY <1>3, <2>1 DEF After
  <2>2. CASE q.op = "remove"
    BY <1>2, <2>2 DEF After
  <2>3. CASE q.op = "rename"
    BY <1>1, <2>3 DEF After
  <2>4. CASE q.op = "mkdir"
    <3>1. p # Parent[q.path]
      BY <1>1, <1>4, <2>4 DEF Possible, Unblocked, IsFile
    <3> QED
      BY <2>4, <3>1 DEF After
  <2>5. CASE q.op = "rmdir"
    BY <2>5 DEF After
  <2> QED
    BY <2>1, <2>2, <2>3, <2>4, <2>5 DEF Operations
<1>5. \A f \in Torn(fs, q) : f[p] = File(parts)
  BY <1>2, <1>3 DEF Torn
<1> QED
  BY <1>4, <1>5

\* A part written behind the parts before it.
LEMMA PartWritten ==
  ASSUME LinkTypes, Files(fs), NEW u \in Uploads, NEW j \in 1..Len(u),
         j > 1 => fs[PathOf(u)] = File(SubSeq(u, 1, j - 1))
  PROVE  After(fs, request[u[j]], u[j])[PathOf(u)] = File(SubSeq(u, 1, j))
<1> DEFINE q == request[u[j]]
           p == PathOf(u)
<1>1. /\ q.op = "write" /\ q.path = p /\ q.offset = j - 1 /\ p \in Paths
      /\ u \in Seq(Nonces) /\ Len(u) \in Nat /\ DOMAIN fs = Paths
  BY PartFacts, UploadAssumption DEF IsWrite, Files
<1>2. After(fs, q, u[j])[p] = File(Put(Opened(fs, q), j - 1, u[j]))
  BY <1>1 DEF After, Written
<1>3. Opened(fs, q) = SubSeq(u, 1, j - 1)
  <2>1. CASE j = 1
    <3>1. SubSeq(u, 1, 0) = <<>>
      BY <1>1
    <3> QED
      BY <1>1, <2>1, <3>1 DEF Opened, Truncates
  <2>2. CASE j > 1
    <3>1. fs[p] = <<"file", SubSeq(u, 1, j - 1)>>
      BY <2>2 DEF File
    <3>2. IsFile(fs, p) /\ fs[p][2] = SubSeq(u, 1, j - 1)
      BY <3>1 DEF IsFile, Absent, Dir
    <3> QED
      BY <1>1, <2>2, <3>2 DEF Opened, Truncates
  <2> QED
    BY <2>1, <2>2
<1>4. ASSUME NEW s, s = SubSeq(u, 1, j - 1) PROVE Put(s, j - 1, u[j]) = SubSeq(u, 1, j)
  <2>1. /\ j \in Nat /\ j >= 1 /\ j <= Len(u) /\ j - 1 \in Nat
        /\ SubSeq(u, 1, j) = [i \in 1..j |-> u[i]] /\ s = [i \in 1..(j - 1) |-> u[i]]
    BY <1>1, <1>4 DEF SubSeq
  <2>2. Len(s) = j - 1 /\ \A i \in 1..(j - 1) : s[i] = u[i]
    BY <1>1, <1>4, <2>1
  <2>3. Put(s, j - 1, u[j]) =
          [i \in 1..j |-> IF i = j THEN u[j] ELSE IF i <= j - 1 THEN s[i] ELSE Hole]
    BY <2>1, <2>2 DEF Put
  <2>4. \A i \in 1..j :
          (IF i = j THEN u[j] ELSE IF i <= j - 1 THEN s[i] ELSE Hole) = u[i]
    BY <2>1, <2>2
  <2> QED
    BY <2>1, <2>3, <2>4
<1> QED
  BY <1>2, <1>3, <1>4

LEMMA AcceptedGrows ==
  ASSUME VInv, LinkTypes, [Next]_vars, NEW n \in Nonces
  PROVE  \/ accepted'[n] = accepted[n]
         \/ /\ Decide /\ Accepts(Reader) /\ n = calls[Reader].nonce
            /\ Len(accepted'[n]) = Len(accepted[n]) + 1
<1>1. CASE Decide
  <2>1. /\ accepted \in [Nonces -> Seq(Acceptance)] /\ calls[Reader].at \in Nat
        /\ clock \in Nat /\ calls[Reader].nonce \in Nonces
    BY <1>1, FileAssumption, CallOf DEF Decide, Record, VInv, Typed, Call
  <2>2. CASE ~Accepts(Reader)
    BY <1>1, <2>2 DEF Decide, Record
  <2>3. CASE Accepts(Reader)
    <3>1. [checked |-> calls[Reader].at, recorded |-> clock] \in Acceptance
      BY <2>1 DEF Acceptance
    <3>2. accepted' = [accepted EXCEPT ![calls[Reader].nonce] =
                         Append(@, [checked |-> calls[Reader].at, recorded |-> clock])]
      BY <1>1, <2>3 DEF Decide, Record
    <3> QED
      BY <1>1, <2>1, <2>3, <3>1, <3>2
  <2> QED
    BY <2>2, <2>3
<1>2. CASE ~Decide
  BY <1>2 DEF Next, Send, Resend, Forward, SendData, Abandon, Lose, Reconnect, Reading,
              ReadRequest, ReadLate, ReadData, Time, Tick, Cleanup, Sign, Verify, fileVars,
              vars, verifierVars
<1> QED
  BY <1>1, <1>2

\* What a step must leave for an upload to stay as far as it is.
LEMMA GrownKept ==
  ASSUME LinkTypes, NEW u \in Uploads, Grown(u), UNCHANGED request,
         \A k \in 1..Len(u) : u[k] \in acked' => u[k] \in acked,
         \A parts : fs[PathOf(u)] = File(parts) => fs'[PathOf(u)] = File(parts),
         \A k \in 1..Len(u) : accepted'[u[k]] = <<>> \/ pending' = u[k]
                                => accepted[u[k]] = <<>> \/ pending = u[k]
  PROVE  Grown(u)'
<1>1. PathOf(u)' = PathOf(u) /\ Len(u) \in Nat
  BY PartFacts DEF PathOf
<1> QED
  BY <1>1 DEF Grown

-----------------------------------------------------------------------------
\* What a step does to the disk, to the header kept and to the histories.
LEMMA StepOf ==
  ASSUME VInv, LinkTypes, [Next]_vars
  PROVE  \/ /\ UNCHANGED <<acked, ran, fs>>
            /\ \/ pending' \in {pending, None}
               \/ Decide /\ Accepts(Reader) /\ pending' = calls[Reader].nonce
         \/ /\ Decide /\ Accepts(Reader) /\ pending' = pending
            /\ ~IsWrite(calls[Reader].nonce)
            /\ Perform(calls[Reader].nonce, calls[Reader].nonce)
         \/ /\ ReadData /\ pending \in Nonces /\ pending' = None /\ accepted' = accepted
            /\ Perform(pending, Frame.of)
<1>1. CASE Decide
  BY <1>1 DEF Decide, Refuse, Reply, Take, IsWrite
<1>2. CASE ReadData
  BY <1>2 DEF ReadData, LinkTypes, verifierVars
<1>3. CASE ReadLate
  BY <1>3 DEF ReadLate, Refuse, Reply
<1>4. CASE ~Decide /\ ~ReadData /\ ~ReadLate
  BY <1>4 DEF Next, Send, Resend, Forward, SendData, Abandon, Lose, Reconnect, Reading,
              ReadRequest, Time, fileVars, vars
<1> QED
  BY <1>1, <1>2, <1>3, <1>4

LEMMA OnlyMore ==
  ASSUME VInv, LinkTypes, FileTypes, [Next]_vars
  PROVE  acked \subseteq acked' /\ abandoned \subseteq abandoned' /\ request' = request
<1>1. acked \subseteq acked'
  <2>1. ASSUME NEW n, NEW d, Perform(n, d) PROVE acked \subseteq acked'
    BY <2>1 DEF Perform, Reply
  <2> QED
    BY <2>1, StepOf
<1>2. abandoned \subseteq abandoned' /\ request' = request
  BY DEF Next, Send, Resend, Forward, SendData, Abandon, Lose, Reconnect, Reading, ReadRequest,
         ReadLate, ReadData, Reads, Decide, Time, fileVars, linkVars, vars
<1> QED
  BY <1>1, <1>2

LEMMA AckedRanStep ==
  ASSUME VInv, LinkTypes, FileTypes, AckedRan, [Next]_vars
  PROVE  AckedRan'
<1>1. ASSUME NEW n \in Nonces, NEW d, Perform(n, d) PROVE AckedRan'
  BY <1>1, PerformEffect DEF AckedRan, FileTypes
<1>2. CASE UNCHANGED <<acked, ran>>
  BY <1>2 DEF AckedRan
<1>3. Decide => calls[Reader].nonce \in Nonces
  BY CallOf DEF Decide, Record
<1> QED
  BY <1>1, <1>2, <1>3, StepOf

\* A part is signed only by Send, which waits for its turn.
LEMMA InTurnStep ==
  ASSUME VInv, LinkTypes, FileTypes, OneEffectPerAcceptance, AckedRan, InTurn, [Next]_vars
  PROVE  InTurn'
<1> SUFFICES ASSUME NEW u \in Uploads, NEW k \in 1..Len(u), stamp'[u[k]] # NotSigned,
                    NEW i \in 1..(k - 1)
             PROVE  u[i] \in acked'
  BY DEF InTurn
<1>1. /\ Len(u) \in Nat /\ \A j \in 1..Len(u) : u[j] \in Nonces
      /\ acked \subseteq acked'
  BY PartFacts, OnlyMore
<1>2. CASE stamp[u[k]] # NotSigned
  BY <1>1, <1>2 DEF InTurn
<1>3. CASE stamp[u[k]] = NotSigned
  <2>1. PICK n \in Nonces : Send(n)
    BY <1>3 DEF Next, Resend, SendData, Abandon, Lose, Reconnect, Reading, ReadRequest,
                ReadLate, ReadData, Verify, Decide, Record, Time, Tick, Cleanup, vars,
                verifierVars
  <2>2. n = u[k]
    BY <1>1, <1>3, <2>1 DEF Send, Sign, VInv, Typed
  <2>3. k \in 2..Len(u) /\ k - 1 \in 1..Len(u) /\ (i = k - 1 \/ i \in 1..(k - 1 - 1))
    BY <1>1
  <2>4. u[k - 1] \in acked
    BY <2>1, <2>2, <2>3 DEF Send, Turn
  <2>5. \A j \in 1..(k - 1 - 1) : u[j] \in acked
    BY <2>3, <2>4, EarlierAcked
  <2> QED
    BY <1>1, <2>3, <2>4, <2>5
<1> QED
  BY <1>2, <1>3

LEMMA CleanBefore ==
  ASSUME VInv, LinkTypes, FileTypes, [Next]_vars, NEW u \in Uploads, Clean(u)'
  PROVE  Clean(u)
<1>1. /\ abandoned \subseteq abandoned' /\ request' = request
      /\ \A k \in 1..Len(u) : u[k] \in Nonces
  BY OnlyMore, PartFacts
<1>2. \A n \in Nonces : /\ accepted'[n] = <<>> => accepted[n] = <<>>
                        /\ Len(accepted'[n]) <= 1 => Len(accepted[n]) <= 1
  <2>1. \A n \in Nonces : Len(accepted[n]) \in Nat
    BY DEF VInv, Typed
  <2>2. Len(<<>>) = 0
    OBVIOUS
  <2> QED
    BY <2>1, <2>2, AcceptedGrows
<1> QED
  BY <1>1, <1>2 DEF Clean, PathOf, Touches

\* A request that does not touch the file of an upload leaves it.
LEMMA PerformElsewhere ==
  ASSUME LinkTypes, FileTypes, Files(fs), NEW u \in Uploads, NEW n \in Nonces, NEW d,
         Perform(n, d), PathOf(u) \notin Touches(n), NEW parts, fs[PathOf(u)] = File(parts)
  PROVE  fs'[PathOf(u)] = File(parts)
<1> DEFINE q == request[n]
<1>1. /\ q.path \in Paths /\ q.op \in Operations /\ PathOf(u) \in Paths
      /\ PathOf(u) \notin {q.path, q.to} \cup Inside(q.path)
  BY FileAssumption, PartFacts DEF LinkTypes, Touches
<1>2. /\ Possible(fs, q) => After(fs, q, d)[PathOf(u)] = File(parts)
      /\ \A f \in Torn(fs, q) : f[PathOf(u)] = File(parts)
  BY <1>1, Elsewhere
<1> QED
  BY <1>2, PerformEffect

\* The data of a part is written: it is the next one, and comes once.
LEMMA PartStep ==
  ASSUME Inv, LinkTypes', Paired, AckedRan, InTurn, ReadData,
         pending \in Nonces, pending' = None, accepted' = accepted, UNCHANGED request,
         Perform(pending, Frame.of),
         NEW u \in Uploads, Clean(u), Grown(u), NEW j \in 1..Len(u), pending = u[j]
  PROVE  Grown(u)'
<1>0. VInv /\ LinkTypes /\ FileTypes /\ Files(fs) /\ OneEffectPerAcceptance
  BY DEF Inv, Types
<1>1. /\ Len(u) \in Nat /\ \A k \in 1..Len(u) : u[k] \in Nonces
      /\ \A i, k \in 1..Len(u) : u[i] = u[k] => i = k
      /\ PathOf(u)' = PathOf(u) /\ None \notin Nonces
  BY <1>0, PartFacts, FileAssumption DEF PathOf
<1>2. ran[u[j]] = 0 /\ u[j] \notin acked
  BY <1>0, <1>1, EffectFacts DEF Clean, AckedRan
<1>3. accepted[u[j]] # <<>> /\ \A i \in 1..(j - 1) : u[i] \in acked /\ accepted[u[i]] # <<>>
  BY <1>0, EarlierAcked
<1>4. Frame.of = u[j]
  <2>1. Reads("binary") /\ stream[1] = Frame
    BY <1>0, StreamReads DEF ReadData
  <2>2. stream[1] = Data(pending)
    BY <1>0, <1>1, <2>1, PairedTail DEF Clean
  <2> QED
    BY <2>1, <2>2, FrameFacts
<1> SUFFICES ASSUME NEW k \in 1..Len(u), u[k] \in acked',
                    k < Len(u) => accepted[u[k+1]] = <<>>
             PROVE  fs'[PathOf(u)] = File(SubSeq(u, 1, k))
  BY <1>1 DEF Grown
<1>5. acked' \subseteq acked \cup {u[j]}
  BY <1>0, PerformEffect
<1>6. ~(k < j)
  <2> SUFFICES ASSUME k < j PROVE FALSE
    OBVIOUS
  <2>1. k < Len(u) /\ (k + 1 = j \/ k + 1 \in 1..(j - 1))
    BY <1>1
  <2> QED
    BY <1>3, <2>1
<1>7. ~(k > j)
  <2> SUFFICES ASSUME k > j PROVE FALSE
    OBVIOUS
  <2>1. u[k] \in acked /\ j \in 1..(k - 1)
    BY <1>1, <1>5
  <2> QED
    BY <1>0, <1>2, <2>1, EarlierAcked
<1>8. k = j
  BY <1>1, <1>6, <1>7
<1>9. fs' = After(fs, request[u[j]], u[j])
  BY <1>0, <1>2, <1>4, <1>8, PerformEffect
<1>10. j > 1 => fs[PathOf(u)] = File(SubSeq(u, 1, j - 1))
  <2> SUFFICES ASSUME j > 1 PROVE fs[PathOf(u)] = File(SubSeq(u, 1, j - 1))
    OBVIOUS
  <2>1. j - 1 \in 1..Len(u) /\ j - 1 \in 1..(j - 1) /\ (j - 1) + 1 = j
    BY <1>1
  <2> QED
    BY <1>3, <2>1 DEF Grown
<1> QED
  BY <1>0, <1>8, <1>9, <1>10, PartWritten

LEMMA GrownStep ==
  ASSUME Inv, LinkTypes', Paired, AckedRan, InTurn, [Next]_vars,
         NEW u \in Uploads, Clean(u)', Grown(u), Clean(u)
  PROVE  Grown(u)'
<1>0. VInv /\ LinkTypes /\ FileTypes /\ Files(fs) /\ OneEffectPerAcceptance
  BY DEF Inv, Types
<1>1. /\ Len(u) \in Nat /\ \A k \in 1..Len(u) : u[k] \in Nonces /\ IsWrite(u[k])
      /\ PathOf(u)' = PathOf(u) /\ None \notin Nonces /\ UNCHANGED request
  BY <1>0, PartFacts, OnlyMore, FileAssumption DEF PathOf
<1>2. \A n \in Nonces : Len(accepted[n]) \in Nat /\ Len(<<>>) = 0
  BY <1>0 DEF VInv, Typed
<1>3. \A n \in Nonces : accepted'[n] = <<>> => accepted[n] = <<>>
  BY <1>0, <1>2, AcceptedGrows
<1>4. ASSUME UNCHANGED <<acked, fs>>, pending' \in {pending, None} PROVE Grown(u)'
  BY <1>0, <1>1, <1>3, <1>4, GrownKept
<1>5. ASSUME UNCHANGED <<acked, fs>>, Decide, Accepts(Reader), pending' = calls[Reader].nonce
      PROVE  Grown(u)'
  <2>1. ASSUME NEW k \in 1..Len(u), pending' = u[k] PROVE accepted[u[k]] = <<>>
    <3>1. accepted'[u[k]] = Append(accepted[u[k]],
                               [checked |-> calls[Reader].at, recorded |-> clock])
      BY <1>0, <1>1, <1>5, <2>1 DEF Decide, Record, VInv, Typed
    <3>2. /\ Len(accepted'[u[k]]) = Len(accepted[u[k]]) + 1 /\ Len(accepted'[u[k]]) <= 1
          /\ accepted[u[k]] \in Seq(Acceptance)
      <4>1. Len(accepted'[u[k]]) <= 1
        BY <1>1 DEF Clean
      <4>2. /\ accepted[u[k]] \in Seq(Acceptance) /\ clock \in Nat /\ calls[Reader].at \in Nat
        BY <1>0, <1>1, <1>5, FileAssumption DEF Decide, Record, VInv, Typed, Call
      <4>3. [checked |-> calls[Reader].at, recorded |-> clock] \in Acceptance
        BY <4>2 DEF Acceptance
      <4> QED
        BY <3>1, <4>1, <4>2, <4>3
    <3> QED
      BY <1>1, <1>2, <3>2
  <2> QED
    BY <1>0, <1>1, <1>3, <1>5, <2>1, GrownKept
<1>6. ASSUME NEW n \in Nonces, NEW d, Perform(n, d), n \notin PartsOf(u), accepted'[n] # <<>>,
             pending' \in {pending, None}
      PROVE  Grown(u)'
  <2>1. PathOf(u) \notin Touches(n)
    BY <1>1, <1>6 DEF Clean, PathOf, Touches
  <2>2. \A parts : fs[PathOf(u)] = File(parts) => fs'[PathOf(u)] = File(parts)
    BY <1>0, <1>6, <2>1, PerformElsewhere
  <2>3. \A k \in 1..Len(u) : u[k] \in acked' => u[k] \in acked
    BY <1>0, <1>6, PerformEffect DEF PartsOf
  <2> QED
    BY <1>0, <1>1, <1>3, <1>6, <2>2, <2>3, GrownKept
<1>7. ASSUME Decide, Accepts(Reader), pending' = pending, ~IsWrite(calls[Reader].nonce),
             Perform(calls[Reader].nonce, calls[Reader].nonce)
      PROVE  Grown(u)'
  <2>1. calls[Reader].nonce \in Nonces /\ calls[Reader].nonce \notin PartsOf(u)
    BY <1>0, <1>1, <1>7, CallOf DEF Decide, Record, PartsOf
  <2>2. accepted'[calls[Reader].nonce] # <<>>
    <3> DEFINE n == calls[Reader].nonce
               e == [checked |-> calls[Reader].at, recorded |-> clock]
    <3>1. /\ accepted'[n] = Append(accepted[n], e) /\ accepted[n] \in Seq(Acceptance)
          /\ clock \in Nat /\ calls[Reader].at \in Nat
      BY <1>0, <1>7, <2>1, FileAssumption DEF Decide, Record, VInv, Typed, Call
    <3>2. e \in Acceptance
      BY <3>1 DEF Acceptance
    <3> QED
      BY <3>1, <3>2
  <2> QED
    BY <1>6, <1>7, <2>1, <2>2
<1>8. ASSUME ReadData, pending \in Nonces, pending' = None, accepted' = accepted,
             Perform(pending, Frame.of)
      PROVE  Grown(u)'
  <2>1. CASE pending \in PartsOf(u)
    BY <1>1, <1>8, <2>1, PartStep DEF PartsOf
  <2>2. CASE pending \notin PartsOf(u)
    BY <1>0, <1>6, <1>8, <2>2, EffectFacts
  <2> QED
    BY <2>1, <2>2
<1> QED
  BY <1>0, <1>4, <1>5, <1>7, <1>8, StepOf

LEMMA UploadingStep == Inv /\ Inv' /\ Paired /\ Uploading /\ [Next]_vars => Uploading'
<1> SUFFICES ASSUME Inv, Inv', Paired, Uploading, [Next]_vars PROVE Uploading'
  OBVIOUS
<1>1. VInv /\ LinkTypes /\ LinkTypes' /\ FileTypes /\ OneEffectPerAcceptance
  BY DEF Inv, Types
<1>2. AckedRan' /\ InTurn'
  BY <1>1, AckedRanStep, InTurnStep DEF Uploading
<1>3. ASSUME NEW u \in Uploads, Clean(u)' PROVE Grown(u)'
  <2>1. Clean(u) /\ Grown(u)
    BY <1>1, <1>3, CleanBefore DEF Uploading
  <2> QED
    BY <1>1, <1>3, <2>1, GrownStep DEF Uploading
<1> QED
  BY <1>2, <1>3 DEF Uploading

LEMMA UploadingInit == Init => Uploading
<1> SUFFICES ASSUME Init PROVE Uploading
  OBVIOUS
<1>1. acked = {} /\ LinkTypes /\ stamp = [n \in Nonces |-> NotSigned]
  BY InvInit DEF Init, VerifierInit, Inv, Types
<1>2. InTurn
  BY <1>1, PartFacts DEF InTurn
<1> QED
  BY <1>1, <1>2 DEF Uploading, AckedRan, Grown

\* An upload whose parts are acknowledged, and of which nothing came twice or
\* from elsewhere, is the file: each part was signed when the one before was
\* acknowledged, and the first one truncates what was there.
THEOREM UploadsWhole == Spec => []UploadIsWhole
<1>1. Inv /\ Uploading => UploadIsWhole
  <2> SUFFICES ASSUME Inv, Uploading, NEW u \in Uploads,
                      \A n \in PartsOf(u) : n \in acked \ abandoned /\ Len(accepted[n]) = 1,
                      \A n \in Nonces \ PartsOf(u) :
                        accepted[n] = <<>> \/ PathOf(u) \notin Touches(n)
               PROVE  fs[PathOf(u)] = File(u)
    BY DEF UploadIsWhole, PartsOf, PathOf
  <2>1. Len(u) \in 1..Len(u) /\ u \in Seq(Nonces)
    BY PartFacts, UploadAssumption DEF Inv, Types
  <2>2. Clean(u)
    <3>1. \A k \in 1..Len(u) : u[k] \in PartsOf(u)
      BY DEF PartsOf
    <3>2. ASSUME NEW k \in 1..Len(u) PROVE u[k] \notin abandoned /\ Len(accepted[u[k]]) <= 1
      <4>1. u[k] \in acked \ abandoned /\ Len(accepted[u[k]]) = 1
        BY <3>1
      <4> QED
        BY <4>1
    <3> QED
      BY <3>2 DEF Clean
  <2>3. Grown(u)
    BY <2>2 DEF Uploading
  <2>4. fs[PathOf(u)] = File(SubSeq(u, 1, Len(u)))
    BY <2>1, <2>3 DEF Grown, PartsOf
  <2>5. SubSeq(u, 1, Len(u)) = u
    BY <2>1
  <2> QED
    BY <2>4, <2>5
<1>2. Spec => []Uploading
  BY Invariance, PairedAlways, UploadingInit, UploadingStep, PTL DEF Spec
<1> QED
  BY Invariance, <1>1, <1>2, PTL
=============================================================================
