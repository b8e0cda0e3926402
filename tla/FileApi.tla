------------------------------- MODULE FileApi -------------------------------
(***************************************************************************)
(* The file API, internal/fileapi: one goroutine reads the frames of a     *)
(* WebSocket in order.  A request is a text frame; those that change the   *)
(* file system go through the verifier.  The bytes of a write come in the  *)
(* binary frame after its header, which says nothing of whose they are:    *)
(* handleMessages remembers the header in pendingWrite.                    *)
(*                                                                         *)
(* The backend forwards the requests of several clients over the one link. *)
(* It sends the data of a write after its header with nothing in between,  *)
(* or, if the client is gone, not at all.  A client sends the next part of *)
(* an upload when the one before is acknowledged.  A request may come      *)
(* twice.  A request is named by its nonce, and its data by the same name. *)
(*                                                                         *)
(* readdir, stat, read and ping change nothing and are left out.           *)
(***************************************************************************)
EXTENDS Verifier, FiniteSets

CONSTANTS
  Paths, Root, Parent,  \* the directory of each path, Root of the topmost ones
  Plans,       \* functions from Nonces to the requests that are made
  Uploads,     \* sequences of nonces: the parts of a file, by offset
  InitFiles,   \* what the disk holds at first
  MaxWire,     \* bound: frames under way
  MaxDrift,    \* bound: how far the backend's clock is ahead; behind, it is as if late
  MaxTroubles  \* bound: resent requests, lost links and disk errors together

Absent == <<"absent">>
Dir    == <<"dir">>
File(parts) == <<"file", parts>>
Hole == "hole"
None == "none"
Reader == "file"
Operations == {"write", "remove", "rename", "mkdir", "rmdir"}

ASSUME FileAssumption ==
  /\ Reader \in Callers /\ None \notin Nonces /\ "" \notin Nonces
  /\ \A plan \in Plans : \A n \in Nonces :
       plan[n].path \in Paths /\ plan[n].op \in Operations /\ plan[n].right \in BOOLEAN
  /\ InitFiles = [p \in Paths |-> InitFiles[p]]
  /\ \A p \in Paths : InitFiles[p] \in {Absent, Dir} \/ InitFiles[p][1] = "file"

\* a client uploads the parts of one file, each once
ASSUME UploadAssumption ==
  \A u \in Uploads :
    /\ u \in Seq(Nonces) /\ u # <<>>
    /\ \A i, j \in DOMAIN u : u[i] = u[j] => i = j
    /\ \A plan \in Plans : \A k \in DOMAIN u :
         LET part == plan[u[k]]
         IN  part.op = "write" /\ part.path = plan[u[1]].path /\ part.offset = k - 1

ASSUME BoundAssumption == MaxDrift \in Nat /\ MaxTroubles \in Nat

VARIABLES
  request,   \* of each nonce: the operation, path, rename target, offset,
             \* and whether the signature is right
  wire,      \* frames under way to the agent
  half,      \* the write whose header is sent and whose data is to follow
  up,        \* the link
  pending,   \* pendingWrite
  fs,        \* the file system
  ran,       \* history: how often a request took effect
  acked,     \* history: requests whose success was reported over a live link
  abandoned, \* history: writes whose data was never sent
  refused,   \* history: requests whose last header was refused
  owed,      \* requests on the present link that wait for an answer
  troubles   \* resends, lost links and disk errors so far

fileVars == <<pending, fs, ran, acked, refused, owed>>
linkVars == <<request, wire, half, up, abandoned>>
vars == <<verifierVars, fileVars, linkVars, troubles>>

Header(n) == [frame |-> "text", of |-> n]
Data(n)   == [frame |-> "binary", of |-> n]

Init ==
  /\ VerifierInit
  /\ request \in Plans
  /\ wire = <<>> /\ half = None /\ up = TRUE /\ pending = None
  /\ fs = InitFiles
  /\ ran = [n \in Nonces |-> 0]
  /\ acked = {} /\ refused = {} /\ abandoned = {} /\ owed = {}
  /\ troubles = 0

-----------------------------------------------------------------------------
(* The backend. *)

Turn(n) == \A u \in Uploads : \A k \in 2..Len(u) : u[k] = n => u[k-1] \in acked

\* assumed of the backend: a write's header has its data right behind it, of
\* all the clients it forwards, unless it abandons the header
Forward(n) ==
  /\ up /\ half = None /\ Len(wire) < MaxWire
  /\ wire' = Append(wire, Header(n))
  /\ half' = IF request[n].op = "write" THEN n ELSE None
  /\ owed' = owed \cup {n}
  /\ UNCHANGED <<request, up, pending, fs, ran, acked, refused, abandoned>>

Send(n) ==
  /\ Turn(n)
  /\ \E s \in clock..(clock + MaxDrift) : Sign(n, s)
  /\ Forward(n) /\ UNCHANGED troubles

Resend(n) ==
  /\ stamp[n] # NotSigned /\ n \notin owed
  /\ troubles < MaxTroubles /\ troubles' = troubles + 1
  /\ Forward(n) /\ UNCHANGED verifierVars

SendData ==
  /\ up /\ half # None /\ Len(wire) < MaxWire
  /\ wire' = Append(wire, Data(half)) /\ half' = None
  /\ UNCHANGED <<verifierVars, fileVars, request, up, abandoned, troubles>>

Abandon ==
  /\ up /\ half # None
  /\ abandoned' = abandoned \cup {half} /\ half' = None /\ owed' = owed \ {half}
  /\ UNCHANGED <<verifierVars, pending, fs, ran, acked, refused, request, wire, up, troubles>>

\* the link breaks: what has arrived is still read, the rest is lost
Lose ==
  /\ up /\ troubles < MaxTroubles
  /\ up' = FALSE /\ troubles' = troubles + 1
  /\ half' = None /\ owed' = {}
  /\ \E k \in 0..Len(wire) : wire' = SubSeq(wire, 1, k)
  /\ UNCHANGED <<verifierVars, pending, fs, ran, acked, refused, request, abandoned>>

-----------------------------------------------------------------------------
(* The file system, as the handlers use it. *)

IsFile(f, p) == f[p] \notin {Absent, Dir}
InDir(f, p)  == Parent[p] \in {Root} \cup {q \in Paths : f[q] = Dir}
Unblocked(f, p) == Parent[p] \notin {q \in Paths : IsFile(f, q)}
Inside(p)    == {q \in Paths : Parent[q] = p}

TruncatesAlways(q) == TRUE        \* mutation: O_TRUNC for every part
Truncates(q) == q.offset = 0

\* the parts a write finds once the file is open, and leaves
Opened(f, q) == IF IsFile(f, q.path) /\ ~Truncates(q) THEN f[q.path][2] ELSE <<>>
Put(parts, offset, d) ==
  [i \in 1..(IF Len(parts) > offset THEN Len(parts) ELSE offset + 1) |->
     IF i = offset + 1 THEN d ELSE IF i <= Len(parts) THEN parts[i] ELSE Hole]
Written(f, q, d) == [f EXCEPT ![q.path] = File(Put(Opened(f, q), q.offset, d))]

Possible(f, q) ==
  CASE q.op = "write"  -> InDir(f, q.path) /\ f[q.path] # Dir
    [] q.op = "remove" -> f[q.path] # Absent /\ \A r \in Inside(q.path) : f[r] = Absent
    [] q.op = "rename" -> IsFile(f, q.path) /\ InDir(f, q.to) /\ f[q.to] # Dir
    [] q.op = "mkdir"  -> Unblocked(f, q.path) /\ ~IsFile(f, q.path)
    [] q.op = "rmdir"  -> Unblocked(f, q.path)

After(f, q, d) ==
  CASE q.op = "write"  -> Written(f, q, d)
    [] q.op = "remove" -> [f EXCEPT ![q.path] = Absent]
    [] q.op = "rename" -> [f EXCEPT ![q.path] = Absent, ![q.to] = f[q.path]]
    [] q.op = "mkdir"  -> [p \in Paths |-> IF p \in {q.path, Parent[q.path]} THEN Dir ELSE f[p]]
    [] q.op = "rmdir"  -> [p \in Paths |-> IF p = q.path \/ p \in Inside(q.path)
                                             THEN Absent ELSE f[p]]

\* what an error of the disk leaves: nothing changed, or a write cut short
Torn(f, q) ==
  {f} \cup (IF q.op = "write" /\ Possible(f, q)
              THEN {Written(f, q, Hole), [f EXCEPT ![q.path] = File(Opened(f, q))]}
              ELSE {})

-----------------------------------------------------------------------------
(* The agent. *)

Reply(n, ok) ==
  /\ owed' = owed \ {n}
  /\ acked' = IF ok /\ up THEN acked \cup {n} ELSE acked

Perform(n, d) ==
  LET q == request[n]
  IN  \/ /\ Possible(fs, q) /\ fs' = After(fs, q, d)
         /\ ran' = [ran EXCEPT ![n] = @ + 1] /\ Reply(n, TRUE) /\ UNCHANGED troubles
      \/ ~Possible(fs, q) /\ Reply(n, FALSE) /\ UNCHANGED <<fs, ran, troubles>>
      \/ /\ troubles < MaxTroubles /\ troubles' = troubles + 1
         /\ fs' \in Torn(fs, q) /\ Reply(n, FALSE) /\ UNCHANGED ran

Frame == Head(wire)
Reads(frame) ==
  /\ calls[Reader] = NoCall /\ wire # <<>> /\ Frame.frame = frame
  /\ wire' = Tail(wire)
  /\ UNCHANGED <<request, half, up, abandoned>>

\* a request whose timestamp is in the window goes on to recordNonce
ReadRequest ==
  /\ Reads("text") /\ Verify(Reader, Frame.of, request[Frame.of].right)
  /\ UNCHANGED <<fileVars, troubles>>

RefuseSilently(n) ==     \* mutation: no sendFileError
  refused' = refused \cup {n} /\ UNCHANGED <<owed, acked>>
Refuse(n) == refused' = refused \cup {n} /\ Reply(n, FALSE)

ReadLate ==
  /\ Reads("text") /\ ~InWindow(Frame.of)
  /\ Refuse(Frame.of)
  /\ UNCHANGED <<verifierVars, pending, fs, ran, troubles>>

TakeFirst(n) == pending' = IF pending = None THEN n ELSE pending   \* mutation
Take(n) == pending' = n

Decide ==
  LET n == calls[Reader].nonce
  IN  /\ Record(Reader)
      /\ \/ ~Accepts(Reader) /\ Refuse(n) /\ UNCHANGED <<pending, fs, ran, troubles>>
         \/ /\ Accepts(Reader) /\ request[n].op = "write" /\ Take(n)
            /\ refused' = refused \ {n} /\ UNCHANGED <<fs, ran, owed, acked, troubles>>
         \/ /\ Accepts(Reader) /\ request[n].op # "write" /\ Perform(n, n)
            /\ UNCHANGED <<pending, refused>>
      /\ UNCHANGED linkVars

ReadDataKeep ==             \* mutation: pendingWrite is not reset
  /\ Reads("binary") /\ UNCHANGED <<verifierVars, pending, refused>>
  /\ \/ pending # None /\ Perform(pending, Frame.of)
     \/ pending = None /\ UNCHANGED <<fs, ran, owed, acked, troubles>>

ReadData ==
  /\ Reads("binary") /\ pending' = None /\ UNCHANGED <<verifierVars, refused>>
  /\ \/ pending # None /\ Perform(pending, Frame.of)
     \/ pending = None /\ UNCHANGED <<fs, ran, owed, acked, troubles>>

\* the read fails, handleMessages returns, and maintainConnection dials again
Reconnect ==
  /\ ~up /\ wire = <<>> /\ calls[Reader] = NoCall
  /\ up' = TRUE /\ pending' = None
  /\ UNCHANGED <<verifierVars, fs, ran, acked, refused, owed, request, wire, half, abandoned,
                 troubles>>

Time == (Tick \/ Cleanup) /\ UNCHANGED <<fileVars, linkVars, troubles>>

Reading == ReadRequest \/ ReadLate \/ ReadData \/ Decide

Next ==
  \/ \E n \in Nonces : Send(n) \/ Resend(n)
  \/ SendData \/ Abandon \/ Lose \/ Reconnect \/ Reading \/ Time

Spec == Init /\ [][Next]_vars

-----------------------------------------------------------------------------
\* A request takes effect at most once for each time the verifier accepted it,
\* and not at all while its header waits for its data: handleMessages forgets
\* the header with the frame it took.
OneEffectPerAcceptance ==
  \A n \in Nonces :
    ran[n] + (IF pending = n THEN 1 ELSE 0) <= Len(accepted[n])

\* Bytes are written to the file of their own header, with one exception: those
\* of a request that was refused go to a header whose own data never came.
DataToItsHeader ==
  [][\A h \in Nonces :
       ran'[h] # ran[h] /\ request[h].op = "write" =>
         LET d == Head(wire).of
         IN  d = h \/ (h \in abandoned /\ d \in refused)]_vars

Touches(n) == {request[n].path, request[n].to} \cup Inside(request[n].path)

\* When every part of an upload is acknowledged and nothing else was accepted
\* for its path, the file is the parts in order and nothing more: what was
\* there before is gone, and a part that arrives again does no harm.
UploadIsWhole ==
  \A u \in Uploads :
    LET parts == {u[k] : k \in 1..Len(u)}
        path  == request[u[1]].path
    IN  /\ \A n \in parts : n \in acked \ abandoned /\ Len(accepted[n]) = 1
        /\ \A n \in Nonces \ parts : (accepted[n] = <<>> \/ path \notin Touches(n))
        => fs[path] = File(u)

\* No request is forgotten: one that waits for an answer, and whose link lasts,
\* is under way, in the verifier, or has its data under way.
NoRequestForgotten ==
  \A n \in owed :
    \/ half = n \/ calls[Reader].nonce = n
    \/ \E i \in DOMAIN wire : wire[i].of = n

Frames == [frame : {"text", "binary"}, of : Nonces]

\* The reader, the link and the disk are well-formed.
TypeOK ==
  /\ VerifierTypeOK
  /\ request \in Plans
  /\ wire \in Seq(Frames)
  /\ half \in Nonces \cup {None} /\ pending \in Nonces \cup {None}
  /\ up \in BOOLEAN
  /\ acked \subseteq Nonces /\ refused \subseteq Nonces
  /\ abandoned \subseteq Nonces /\ owed \subseteq Nonces
  /\ ran \in [Nonces -> Nat] /\ troubles \in 0..MaxTroubles
  /\ DOMAIN fs = Paths
  /\ \A p \in Paths : fs[p] \in {Absent, Dir} \/ fs[p][1] = "file"
=============================================================================
