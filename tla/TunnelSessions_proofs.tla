----------------------- MODULE TunnelSessions_proofs -----------------------
(***************************************************************************)
(* What is proved of the sessions of one WebSocket, for any number of      *)
(* sessions: the lock, the table, and that they implement Sessions.        *)
(***************************************************************************)
EXTENDS TunnelSessions, TLAPS

Frames == Ids \cup {"other"}

Types ==
  /\ done \in BOOLEAN /\ sock \in {"open", "closed"} /\ link \in {"up", "down"}
  /\ loop \in LoopPoints
  /\ pending \subseteq Ids /\ table \subseteq Ids
  /\ conn \in [Ids -> {"none", "open", "closed"}]
  /\ pc \in [Ids -> Points]

\* Who is between header and data has the lock, and wrote the last frame.
Lock ==
  /\ mu \subseteq Ids /\ last \in Frames
  /\ \A s \in Ids : s \in mu <=> pc[s] = "data"
  /\ \A s, t \in mu : s = t
  /\ \A s \in mu : last = s

\* A connection is open from the dial until it is taken out of the table.
Table ==
  \A s \in Ids :
    /\ s \in table => conn[s] = "open"
    /\ pc[s] \in {"none", "dialing", "refused"} => conn[s] = "none"
    /\ pc[s] = "adding" => conn[s] = "open" /\ s \notin table
    /\ conn[s] = "open" => s \in table \/ pc[s] = "adding"
    /\ pc[s] = "done" => s \notin table

\* handleMessages returns after its goroutines.
Over == loop = "over" => \A s \in Ids : pc[s] \in {"none", "done"}

Inv == Types /\ Lock /\ Table /\ Over

-----------------------------------------------------------------------------
\* A frame is written by one who does not come between a header and its data.
LEMMA FrameKeepsLock ==
  ASSUME Lock, NEW ok \in BOOLEAN, Frame(ok), UNCHANGED mu,
         \A s \in Ids : pc'[s] = "data" <=> pc[s] = "data"
  PROVE  Lock'
  BY DEF Lock, Frame, Frames

LEMMA GotoTypes ==
  ASSUME Types, NEW s \in Ids, NEW from \in Points, NEW to \in Points, Goto(s, from, to)
  PROVE  /\ pc' \in [Ids -> Points] /\ pc[s] = from /\ pc'[s] = to
         /\ \A t \in Ids \ {s} : pc'[t] = pc[t]
  BY DEF Types, Goto

LEMMA ReleaseKeepsTable ==
  ASSUME Types, Table, NEW s \in Ids, Release(s),
         \A t \in Ids \ {s} : pc'[t] = pc[t],
         pc'[s] = pc[s] \/ (pc[s] = "closing" /\ pc'[s] = "done")
  PROVE  /\ table' \subseteq Ids /\ conn' \in [Ids -> {"none", "open", "closed"}]
         /\ Table'
<1>1. table' = table \ {s}
  BY DEF Release
<1>2. \A t \in Ids : conn'[t] = IF t = s /\ s \in table THEN "closed" ELSE conn[t]
  BY DEF Release, Types
<1>3. conn' \in [Ids -> {"none", "open", "closed"}]
  BY DEF Release, Types
<1>4. Table'
  BY <1>1, <1>2 DEF Table
<1> QED
  BY <1>1, <1>3, <1>4 DEF Types

\* The invariant is kept by steps of the read loop and of the environment that
\* leave goroutines, table and frames alone.
LEMMA Aside ==
  ASSUME Inv, UNCHANGED <<table, conn, pc, mu, last>>,
         done' \in BOOLEAN, sock' \in {"open", "closed"}, link' \in {"up", "down"},
         loop' \in LoopPoints, pending' \subseteq Ids,
         loop' = "over" => loop = "over" \/ AllGone
  PROVE  Inv'
<1>1. Types'
  BY DEF Inv, Types
<1>2. Lock' /\ Table'
  BY DEF Inv, Lock, Table
<1>3. Over'
  BY DEF Inv, Over, AllGone
<1> QED
  BY <1>1, <1>2, <1>3 DEF Inv

\* A goroutine that moves on without touching the table, or another's frame.
LEMMA Moves ==
  ASSUME Inv, NEW s \in Ids, NEW from \in Points, NEW to \in Points, Goto(s, from, to),
         from \notin {"none", "adding", "done", "dialing"}, to # "adding",
         to \in {"none", "dialing", "refused"} => from = "refused",
         to = "done" => from = "refused",
         UNCHANGED <<done, sock, link, loop, pending, table, conn>>, Lock'
  PROVE  Inv'
<1> USE DEF Inv
<1>1. /\ pc' \in [Ids -> Points] /\ pc[s] = from /\ pc'[s] = to
      /\ \A t \in Ids \ {s} : pc'[t] = pc[t]
  BY GotoTypes
<1>2. Types'
  BY <1>1 DEF Types
<1>3. Table'
  BY <1>1 DEF Table, Types
<1>4. Over'
  BY <1>1 DEF Over
<1> QED
  BY <1>2, <1>3, <1>4

-----------------------------------------------------------------------------
(* Inv is inductive                                                        *)

LEMMA InvInit == Init => Inv
  BY DEF Init, Inv, Types, Lock, Frames, Table, Over, LoopPoints, Points

\* the read loop
LEMMA LoopKeeps ==
  ASSUME Inv, LoopStep \/ Binary \/ Ping \/ RemoteDisconnect
  PROVE  Inv'
<1> USE DEF Inv
<1>1. CASE Forward \/ ReadFails \/ Binary \/ Ping \/ RemoteDisconnect \/ Return
  BY <1>1, Aside DEF Forward, ReadFails, Binary, Ping, RemoteDisconnect, Return,
     Types, LoopPoints
<1>2. CASE ReportWriteError \/ Pong
  <2>1. Lock'
    BY <1>2, FrameKeepsLock DEF ReportWriteError, Pong
  <2>2. Types'
    BY <1>2 DEF ReportWriteError, Pong, Types, LoopPoints
  <2>3. Table' /\ Over'
    BY <1>2 DEF ReportWriteError, Pong, Table, Over
  <2> QED
    BY <2>1, <2>2, <2>3
<1>3. CASE ReleasePending
  <2>1. PICK s \in pending : Release(s)
    BY <1>3 DEF ReleasePending
  <2>2. /\ table' \subseteq Ids /\ conn' \in [Ids -> {"none", "open", "closed"}]
        /\ Table'
    BY <1>3, <2>1, ReleaseKeepsTable DEF ReleasePending, Types
  <2>3. Types'
    BY <1>3, <2>2 DEF ReleasePending, Types, LoopPoints
  <2>4. Lock' /\ Over'
    BY <1>3 DEF ReleasePending, Lock, Over
  <2> QED
    BY <2>2, <2>3, <2>4
<1>4. CASE CloseAll
  <2>1. /\ table' = {}
        /\ \A s \in Ids : conn'[s] = IF s \in table THEN "closed" ELSE conn[s]
    BY <1>4 DEF CloseAll
  <2>2. Types'
    BY <1>4 DEF CloseAll, Types, LoopPoints
  <2>3. Table'
    BY <1>4, <2>1 DEF CloseAll, Table
  <2>4. Lock' /\ Over'
    BY <1>4 DEF CloseAll, Lock, Over
  <2> QED
    BY <2>2, <2>3, <2>4
<1> QED
  BY <1>1, <1>2, <1>3, <1>4 DEF LoopStep

\* what the backend asks of the loop
LEMMA AskedKeeps ==
  ASSUME Inv, NEW s \in Ids, OpenTunnel(s) \/ DataHeader(s) \/ CloseSession(s)
  PROVE  Inv'
<1> USE DEF Inv
<1>1. CASE OpenTunnel(s)
  <2>1. /\ pc[s] = "none" /\ pc'[s] = "dialing" /\ pc' \in [Ids -> Points]
        /\ \A t \in Ids \ {s} : pc'[t] = pc[t]
    BY <1>1 DEF OpenTunnel, Types, Points
  <2>2. Types' /\ Lock'
    BY <1>1, <2>1 DEF OpenTunnel, Types, Lock
  <2>3. Table'
    BY <1>1, <2>1 DEF OpenTunnel, Table
  <2>4. Over'
    BY <1>1 DEF OpenTunnel, Receives, Over
  <2> QED
    BY <2>2, <2>3, <2>4
<1>2. CASE DataHeader(s)
  BY <1>2, Aside DEF DataHeader, Types
<1>3. CASE CloseSession(s)
  <2>1. /\ table' \subseteq Ids /\ conn' \in [Ids -> {"none", "open", "closed"}]
        /\ Table'
    BY <1>3, ReleaseKeepsTable DEF CloseSession
  <2>2. Types' /\ Lock' /\ Over'
    BY <1>3, <2>1 DEF CloseSession, Types, Lock, Over
  <2> QED
    BY <2>1, <2>2
<1> QED
  BY <1>1, <1>2, <1>3

\* a session's goroutine
LEMMA SessionKeeps ==
  ASSUME Inv, NEW s \in Ids, SessionStep(s) \/ TCPData(s) \/ TCPEnds(s)
  PROVE  Inv'
<1> USE DEF Inv
<1>1. CASE Dial(s)
  <2>1. PICK to \in {"adding", "refused"} :
          /\ Goto(s, "dialing", to)
          /\ conn' = IF to = "adding" THEN [conn EXCEPT ![s] = "open"] ELSE conn
    BY <1>1 DEF Dial
  <2>2. /\ pc' \in [Ids -> Points] /\ pc[s] = "dialing" /\ pc'[s] = to
        /\ \A t \in Ids \ {s} : pc'[t] = pc[t]
    BY <2>1, GotoTypes DEF Points
  <2>3. /\ conn' \in [Ids -> {"none", "open", "closed"}]
        /\ conn'[s] = IF to = "adding" THEN "open" ELSE conn[s]
        /\ \A t \in Ids \ {s} : conn'[t] = conn[t]
    BY <2>1 DEF Types
  <2>4. Types' /\ Lock'
    BY <1>1, <2>2, <2>3 DEF Dial, Types, Lock
  <2>5. Table'
    BY <1>1, <2>2, <2>3 DEF Dial, Table
  <2>6. Over'
    BY <1>1, <2>2 DEF Dial, Over
  <2> QED
    BY <2>4, <2>5, <2>6
<1>2. CASE Add(s)
  <2>1. /\ pc' \in [Ids -> Points] /\ pc[s] = "adding" /\ pc'[s] = "ready"
        /\ \A t \in Ids \ {s} : pc'[t] = pc[t]
    BY <1>2, GotoTypes DEF Add, Points
  <2>2. Types' /\ Lock'
    BY <1>2, <2>1 DEF Add, Types, Lock
  <2>3. Table'
    BY <1>2, <2>1 DEF Add, Table
  <2>4. Over'
    BY <1>2, <2>1 DEF Add, Over
  <2> QED
    BY <2>2, <2>3, <2>4
<1>3. CASE Refuse(s) \/ Ready(s) \/ TunnelClosed(s)
  <2>1. PICK from \in {"refused", "ready", "eof"}, to \in {"done", "bridge", "closing"} :
          /\ Goto(s, from, to) /\ (to = "done" => from = "refused")
          /\ \E ok \in BOOLEAN : Frame(ok)
          /\ UNCHANGED <<done, sock, link, loop, pending, table, conn, mu>>
    BY <1>3 DEF Refuse, Ready, TunnelClosed
  <2>2. /\ pc[s] = from /\ pc'[s] = to /\ \A t \in Ids \ {s} : pc'[t] = pc[t]
    BY <2>1, GotoTypes DEF Points
  <2>3. Lock'
    BY <2>1, <2>2, FrameKeepsLock
  <2> QED
    BY <2>1, <2>3, Moves DEF Points
<1>4. CASE TCPData(s) \/ TCPEnds(s)
  <2>1. PICK to \in {"header", "eof"} :
          /\ Goto(s, "bridge", to)
          /\ UNCHANGED <<done, sock, link, loop, pending, table, conn, mu, last>>
    BY <1>4 DEF TCPData, TCPEnds
  <2>2. /\ pc[s] = "bridge" /\ pc'[s] = to /\ \A t \in Ids \ {s} : pc'[t] = pc[t]
    BY <2>1, GotoTypes DEF Points
  <2>3. Lock'
    BY <2>1, <2>2 DEF Lock
  <2> QED
    BY <2>1, <2>3, Moves DEF Points
<1>5. CASE WriteHeader(s)
  <2>1. CASE /\ Goto(s, "header", "data") /\ last' = s /\ mu' = {s}
    <3>1. /\ pc[s] = "header" /\ pc'[s] = "data" /\ \A t \in Ids \ {s} : pc'[t] = pc[t]
      BY <2>1, GotoTypes DEF Points
    <3>2. Lock'
      BY <1>5, <2>1, <3>1 DEF WriteHeader, Lock, Frames
    <3> QED
      BY <1>5, <2>1, <3>2, Moves DEF WriteHeader, Points
  <2>2. CASE Goto(s, "header", "closing") /\ UNCHANGED <<mu, last>>
    <3>1. /\ pc[s] = "header" /\ pc'[s] = "closing" /\ \A t \in Ids \ {s} : pc'[t] = pc[t]
      BY <2>2, GotoTypes DEF Points
    <3>2. Lock'
      BY <2>2, <3>1 DEF Lock
    <3> QED
      BY <1>5, <2>2, <3>2, Moves DEF WriteHeader, Points
  <2> QED
    BY <1>5, <2>1, <2>2 DEF WriteHeader
<1>6. CASE WriteData(s)
  <2>1. PICK to \in {"bridge", "closing"} :
          /\ Goto(s, "data", to) /\ mu' = mu \ {s} /\ last' \in {"other", last}
          /\ UNCHANGED <<done, sock, link, loop, pending, table, conn>>
    BY <1>6 DEF WriteData
  <2>2. /\ pc[s] = "data" /\ pc'[s] = to /\ \A t \in Ids \ {s} : pc'[t] = pc[t]
    BY <2>1, GotoTypes DEF Points
  <2>3. Lock'
    BY <2>1, <2>2 DEF Lock, Frames
  <2> QED
    BY <2>1, <2>3, Moves DEF Points
<1>7. CASE CloseTunnel(s)
  <2>1. /\ pc' \in [Ids -> Points] /\ pc[s] = "closing" /\ pc'[s] = "done"
        /\ \A t \in Ids \ {s} : pc'[t] = pc[t]
    BY <1>7, GotoTypes DEF CloseTunnel, Points
  <2>2. /\ table' \subseteq Ids /\ conn' \in [Ids -> {"none", "open", "closed"}]
        /\ Table'
    BY <1>7, <2>1, ReleaseKeepsTable DEF CloseTunnel
  <2>3. Types' /\ Lock'
    BY <1>7, <2>1, <2>2 DEF CloseTunnel, Types, Lock
  <2>4. Over'
    BY <1>7, <2>1 DEF CloseTunnel, Over
  <2> QED
    BY <2>2, <2>3, <2>4
<1> QED
  BY <1>1, <1>2, <1>3, <1>4, <1>5, <1>6, <1>7 DEF SessionStep

LEMMA Inductive == Inv /\ [Next]_vars => Inv'
<1> SUFFICES ASSUME Inv, [Next]_vars PROVE Inv'
  OBVIOUS
<1>1. CASE LinkDown \/ Cancel \/ Watcher
  BY <1>1, Aside DEF LinkDown, Cancel, Watcher, Inv, Types
<1>2. CASE UNCHANGED vars
  BY <1>2, Aside DEF vars, Inv, Types
<1>3. CASE LoopStep \/ Binary \/ Ping \/ RemoteDisconnect
  BY <1>3, LoopKeeps
<1>4. CASE \E s \in Ids : OpenTunnel(s) \/ DataHeader(s) \/ CloseSession(s)
  BY <1>4, AskedKeeps
<1>5. CASE \E s \in Ids : SessionStep(s) \/ TCPData(s) \/ TCPEnds(s)
  BY <1>5, SessionKeeps
<1> QED
  BY <1>1, <1>2, <1>3, <1>4, <1>5 DEF Next

LEMMA InvAlways == Spec => []Inv
  BY InvInit, Inductive, PTL DEF Spec

-----------------------------------------------------------------------------
(* The theorems                                                            *)

(* Every variable keeps to its values, and safeWS.mu is held between a     *)
(* header and its data only (WriteDataFrame).                              *)
THEOREM Typing == Spec => []TypeOK
<1>1. Inv => TypeOK
  BY DEF Inv, Types, Lock, Frames, TypeOK
<1> QED
  BY InvAlways, <1>1, PTL

(* No connection to sshd is lost: handleOpenTunnel puts it in the table    *)
(* and whoever takes it out closes it (closeSession, closeAll).            *)
THEOREM NoOrphans == Spec => []NoOrphan
<1>1. Inv => NoOrphan
  BY DEF Inv, Table, NoOrphan
<1> QED
  BY InvAlways, <1>1, PTL

(* Between a data header and its data nobody writes another frame, however *)
(* many sessions and the read loop write to the socket (safeWS).           *)
THEOREM HeaderFirst == Spec => []HeaderThenData
<1>1. Inv => HeaderThenData
  BY DEF Inv, Lock, HeaderThenData
<1> QED
  BY InvAlways, <1>1, PTL

(* handleMessages opens and closes every session once, and returns only    *)
(* when none is open: it implements Sessions.                              *)
THEOREM Refinement == Spec => ImplementsSessions
<1>1. Init => Service!Init
  BY DEF Init, Service!Init
<1>2. Inv /\ [Next]_vars => [Service!Next]_(Service!vars)
  <2> SUFFICES ASSUME Inv, [Next]_vars PROVE [Service!Next]_(Service!vars)
    OBVIOUS
  <2> USE DEF Inv
  <2>1. ASSUME NEW s \in Ids, Dial(s) PROVE [Service!Next]_(Service!vars)
    <3>1. pc[s] = "dialing" /\ UNCHANGED loop
      BY <2>1 DEF Dial, Goto
    <3>2. loop # "over" /\ conn[s] = "none"
      BY <3>1 DEF Over, Table
    <3>3. Service!Open(s) \/ UNCHANGED conn
      BY <2>1, <3>1, <3>2 DEF Dial, Service!Open
    <3> QED
      BY <3>1, <3>3 DEF Service!Next, Service!vars
  <2>2. ASSUME NEW s \in Ids, Release(s), (loop' = "over") = (loop = "over")
        PROVE  [Service!Next]_(Service!vars)
    <3>1. CASE s \in table
      <4>1. \A t \in {s} : conn[t] = "open"
        BY <3>1 DEF Table
      <4>2. conn' = [t \in Ids |-> IF t \in {s} THEN "closed" ELSE conn[t]]
        BY <2>2, <3>1 DEF Release, Types
      <4>3. Service!Close({s})
        BY <2>2, <4>1, <4>2 DEF Service!Close
      <4> QED
        BY <4>3 DEF Service!Next
    <3>2. CASE s \notin table
      BY <2>2, <3>2 DEF Release, Service!vars
    <3> QED
      BY <3>1, <3>2
  <2>3. CASE CloseAll
    <3>1. Service!Close(table)
      BY <2>3 DEF CloseAll, Service!Close, Table, Types
    <3> QED
      BY <3>1 DEF Service!Next, Types
  <2>4. CASE Return
    <3>1. \A s \in Ids : conn[s] # "open"
      BY <2>4 DEF Return, AllGone, Table
    <3>2. Service!Finish
      BY <2>4, <3>1 DEF Return, Service!Finish
    <3> QED
      BY <3>2 DEF Service!Next
  <2>5. CASE ReleasePending
    BY <2>5, <2>2 DEF ReleasePending, Types
  <2>6. CASE \E s \in Ids : CloseSession(s) \/ CloseTunnel(s)
    BY <2>6, <2>2 DEF CloseSession, CloseTunnel
  <2>7. CASE /\ UNCHANGED conn
             /\ (loop' = "over") = (loop = "over")
    BY <2>7 DEF Service!vars
  <2>8. CASE \E s \in Ids : SessionStep(s)
    BY <2>8, <2>1, <2>6, <2>7
       DEF SessionStep, Refuse, Add, Ready, WriteHeader, WriteData, TunnelClosed
  <2>9. CASE LoopStep
    BY <2>9, <2>3, <2>4, <2>5, <2>7 DEF LoopStep, Forward, ReportWriteError, Pong, ReadFails
  <2>10. CASE LinkDown \/ Cancel \/ Watcher \/ Binary \/ Ping \/ RemoteDisconnect
              \/ UNCHANGED vars
    BY <2>10, <2>7 DEF LinkDown, Cancel, Watcher, Binary, Ping, RemoteDisconnect,
       Receives, vars
  <2>11. CASE \E s \in Ids : OpenTunnel(s) \/ DataHeader(s) \/ TCPData(s) \/ TCPEnds(s)
    BY <2>11, <2>7 DEF OpenTunnel, DataHeader, TCPData, TCPEnds
  <2> QED
    BY <2>6, <2>8, <2>9, <2>10, <2>11 DEF Next
<1> QED
  BY <1>1, <1>2, InvAlways, PTL DEF Spec, ImplementsSessions, Service!Spec
=============================================================================
