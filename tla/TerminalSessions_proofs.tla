---------------------- MODULE TerminalSessions_proofs ----------------------
(***************************************************************************)
(* What is proved of the terminals of one WebSocket, for any number of     *)
(* terminals: the handle a goroutine waits on, and that they implement     *)
(* Sessions although closeAll, close_session and the goroutine of a        *)
(* terminal close it without asking each other.                            *)
(***************************************************************************)
EXTENDS TerminalSessions, TLAPS

Types ==
  /\ done \in BOOLEAN /\ sock \in {"open", "closed"} /\ link \in {"up", "down"}
  /\ loop \in LoopPoints
  /\ pending \subseteq Ids /\ table \subseteq Ids
  /\ shell \in [Ids -> {"none", "running", "ended"}]
  /\ closes \in [Ids -> 0..2]
  /\ pc \in [Ids -> Points]

\* where a goroutine has put its terminal into the table, and has not taken it
\* out: somebody else may have, and has then closed it
Tabled == {"ready", "bridge", "header", "data", "remove", "abandon"}

\* A terminal is closed once by whoever takes it out of the table, and once
\* more by a goroutine that abandons it; before it is put there, and while
\* its goroutine waits for the shell, by nobody.
Fits(s) ==
  /\ s \in table => pc[s] \in Tabled
  /\ pc[s] \in Tabled => closes[s] = IF s \in table THEN 0 ELSE 1
  /\ pc[s] \in {"none", "starting", "refused", "adding", "wait", "close"} => closes[s] = 0
  /\ pc[s] = "announce" => closes[s] = 1
  /\ pc[s] \in {"none", "starting", "refused"} => shell[s] = "none"
  /\ pc[s] \in Tabled \cup {"adding", "wait", "close", "announce"} => shell[s] # "none"
  /\ pc[s] = "done" => shell[s] = "none" \/ closes[s] > 0
  /\ closes[s] > 0 => shell[s] = "ended"

\* handleMessages returns after its goroutines.
Over == loop = "over" => AllGone

Inv == Types /\ (\A s \in Ids : Fits(s)) /\ Over

-----------------------------------------------------------------------------
LEMMA GotoMoves ==
  ASSUME Types, NEW s \in Ids, NEW from, NEW to \in Points, Goto(s, from, to)
  PROVE  /\ pc' \in [Ids -> Points] /\ pc[s] = from /\ pc'[s] = to
         /\ \A t \in Ids \ {s} : pc'[t] = pc[t]
  BY DEF Types, Goto

LEMMA Closed ==
  ASSUME Types, NEW S \in SUBSET Ids, CloseAllOf(S)
  PROVE  /\ \A s \in Ids : closes'[s] = closes[s] + IF s \in S THEN 1 ELSE 0
         /\ \A s \in Ids : shell'[s] = IF s \in S THEN "ended" ELSE shell[s]
         /\ shell' \in [Ids -> {"none", "running", "ended"}]
  BY DEF CloseAllOf, Types

\* What Fits says of a terminal depends on nothing but its own state.
LEMMA Untouched ==
  ASSUME NEW s \in Ids, Fits(s), UNCHANGED <<pc[s], closes[s], shell[s]>>,
         s \in table' <=> s \in table
  PROVE  Fits(s)'
  BY DEF Fits

\* Terminals that are taken out of the table with a Close (closeAll,
\* close_session, a write that failed).
LEMMA RemovalFits ==
  ASSUME Inv, NEW S \in SUBSET Ids, RemoveClosed(S), UNCHANGED pc
  PROVE  /\ \A s \in Ids : Fits(s)'
         /\ table' \subseteq Ids /\ closes' \in [Ids -> 0..2]
         /\ shell' \in [Ids -> {"none", "running", "ended"}]
<1> USE DEF Inv
<1>1. /\ table' = table \ S
      /\ \A s \in Ids : closes'[s] = closes[s] + IF s \in S \cap table THEN 1 ELSE 0
      /\ \A s \in Ids : shell'[s] = IF s \in S \cap table THEN "ended" ELSE shell[s]
      /\ shell' \in [Ids -> {"none", "running", "ended"}]
  BY Closed DEF RemoveClosed
<1>2. ASSUME NEW s \in Ids PROVE Fits(s)' /\ closes'[s] \in 0..2
  <2>1. CASE s \in S \cap table
    <3>1. /\ s \notin table' /\ pc'[s] \in Tabled
          /\ closes'[s] = 1 /\ shell'[s] = "ended"
      BY <1>1, <2>1 DEF Fits
    <3> QED
      BY <3>1 DEF Fits, Tabled
  <2>2. CASE s \notin S \cap table
    <3>1. UNCHANGED <<pc[s], closes[s], shell[s]>> /\ (s \in table' <=> s \in table)
      BY <1>1, <2>2 DEF Types
    <3> QED
      BY <3>1, Untouched DEF Types
  <2> QED
    BY <2>1, <2>2
<1>3. closes' = [s \in Ids |-> closes'[s]]
  BY DEF RemoveClosed, CloseAllOf
<1> QED
  BY <1>1, <1>2, <1>3 DEF Types

\* A step of one goroutine: what it leaves alone stays as it was.
LEMMA OneMoves ==
  ASSUME Inv, NEW s \in Ids, NEW from, NEW to \in Points, Goto(s, from, to),
         from # "none", UNCHANGED <<socket, loop, pending>>,
         table' \subseteq Ids, closes' \in [Ids -> 0..2],
         shell' \in [Ids -> {"none", "running", "ended"}],
         \A t \in Ids \ {s} : UNCHANGED <<closes[t], shell[t]>> /\ (t \in table' <=> t \in table),
         from = "done" => to = "done",
         Fits(s)'
  PROVE  Inv'
<1> USE DEF Inv
<1>1. /\ pc' \in [Ids -> Points] /\ pc[s] = from /\ pc'[s] = to
      /\ \A t \in Ids \ {s} : pc'[t] = pc[t]
  BY GotoMoves
<1>2. Types'
  BY <1>1 DEF Types, socket
<1>3. \A t \in Ids \ {s} : Fits(t)'
  BY <1>1, Untouched
<1>4. Over'
  BY <1>1 DEF Over, AllGone
<1> QED
  BY <1>2, <1>3, <1>4

-----------------------------------------------------------------------------
(* Inv is inductive                                                        *)

LEMMA InvInit == Init => Inv
<1> SUFFICES ASSUME Init PROVE Inv
  OBVIOUS
<1>1. Types
  <2>1. /\ "reading" \in LoopPoints /\ "none" \in Points /\ 0 \in 0..2
        /\ "none" \in {"none", "running", "ended"} /\ "open" \in {"open", "closed"}
        /\ "up" \in {"up", "down"} /\ FALSE \in BOOLEAN
    BY DEF LoopPoints, Points
  <2>2. /\ shell \in [Ids -> {"none", "running", "ended"}]
        /\ closes \in [Ids -> 0..2] /\ pc \in [Ids -> Points]
    BY <2>1 DEF Init
  <2> QED
    BY <2>1, <2>2 DEF Init, Types
<1>2. ASSUME NEW s \in Ids PROVE Fits(s)
  <2>1. shell[s] = "none" /\ closes[s] = 0 /\ pc[s] = "none" /\ s \notin table
    BY DEF Init
  <2>2. pc[s] \notin Tabled \cup {"adding", "wait", "close", "announce"} /\ ~(closes[s] > 0)
    BY <2>1 DEF Tabled
  <2>3. pc[s] \notin Tabled /\ pc[s] # "done" /\ pc[s] # "announce"
    BY <2>1, <2>2
  <2> QED
    BY ONLY <2>1, <2>2, <2>3 DEF Fits
<1>3. Over
  BY DEF Init, Over
<1> QED
  BY <1>1, <1>2, <1>3 DEF Inv

\* Steps that leave the terminals alone.
LEMMA Aside ==
  ASSUME Inv, UNCHANGED <<table, shell, closes, pc>>,
         done' \in BOOLEAN, sock' \in {"open", "closed"}, link' \in {"up", "down"},
         loop' \in LoopPoints, pending' \subseteq Ids,
         loop' = "over" => loop = "over" \/ AllGone
  PROVE  Inv'
<1>1. Types'
  BY DEF Inv, Types
<1>2. \A s \in Ids : Fits(s)'
  BY DEF Inv, Fits
<1>3. Over'
  BY DEF Inv, Over, AllGone
<1> QED
  BY <1>1, <1>2, <1>3 DEF Inv

\* the read loop and the environment
LEMMA LoopKeeps ==
  ASSUME Inv, LoopStep \/ Answer \/ Binary \/ LeaveLoop
  PROVE  Inv'
<1> USE DEF Inv
<1>1. CASE Answered \/ Forward \/ ReportWriteError \/ Return
  BY <1>1, Aside DEF Answered, Forward, ReportWriteError, Return, Types, LoopPoints,
     LoopWriting, socket
<1>2. CASE Answer \/ Binary \/ LeaveLoop
  BY <1>2, Aside DEF Answer, Binary, LeaveLoop, Types, LoopPoints, LoopWriting, socket
<1>3. ASSUME NEW S \in SUBSET Ids, RemoveClosed(S), UNCHANGED <<socket, pc>>,
             loop' \in LoopPoints \ {"over"}, pending' \subseteq Ids
      PROVE  Inv'
  <2>1. /\ \A s \in Ids : Fits(s)'
        /\ table' \subseteq Ids /\ closes' \in [Ids -> 0..2]
        /\ shell' \in [Ids -> {"none", "running", "ended"}]
    BY <1>3, RemovalFits
  <2>2. Types' /\ Over'
    BY <1>3, <2>1 DEF Types, Over, socket
  <2> QED
    BY <2>1, <2>2
<1>4. CASE DropPending
  BY <1>4, <1>3 DEF DropPending, Types, LoopPoints
<1>5. CASE CloseAll
  BY <1>5, <1>3 DEF CloseAll, Types, LoopPoints
<1> QED
  BY <1>1, <1>2, <1>4, <1>5 DEF LoopStep

\* what the backend asks for, and what shells do
LEMMA AskedKeeps ==
  ASSUME Inv, NEW s \in Ids,
         OpenTerminal(s) \/ DataHeader(s) \/ CloseSession(s) \/ ShellExits(s)
  PROVE  Inv'
<1> USE DEF Inv
<1>1. CASE OpenTerminal(s)
  <2>1. /\ pc[s] = "none" /\ pc'[s] = "starting" /\ pc' \in [Ids -> Points]
        /\ \A t \in Ids \ {s} : pc'[t] = pc[t]
    BY <1>1 DEF OpenTerminal, Types, Points
  <2>2. Types' /\ Over'
    BY <1>1, <2>1 DEF OpenTerminal, Receives, Types, Over, socket
  <2>3. \A t \in Ids \ {s} : Fits(t)'
    BY <1>1, <2>1, Untouched DEF OpenTerminal
  <2>4. Fits(s)'
    BY <1>1, <2>1 DEF OpenTerminal, Fits, Tabled
  <2> QED
    BY <2>2, <2>3, <2>4
<1>2. CASE DataHeader(s)
  BY <1>2, Aside DEF DataHeader, Types, socket
<1>3. CASE CloseSession(s)
  <2>1. /\ \A t \in Ids : Fits(t)'
        /\ table' \subseteq Ids /\ closes' \in [Ids -> 0..2]
        /\ shell' \in [Ids -> {"none", "running", "ended"}]
    BY <1>3, RemovalFits DEF CloseSession
  <2>2. Types' /\ Over'
    BY <1>3, <2>1 DEF CloseSession, Types, Over, AllGone, socket
  <2> QED
    BY <2>1, <2>2
<1>4. CASE ShellExits(s)
  <2>1. /\ shell[s] = "running" /\ shell'[s] = "ended"
        /\ shell' \in [Ids -> {"none", "running", "ended"}]
        /\ \A t \in Ids \ {s} : shell'[t] = shell[t]
    BY <1>4 DEF ShellExits, Types
  <2>2. Types' /\ Over'
    BY <1>4, <2>1 DEF ShellExits, Types, Over, AllGone, socket
  <2>3. \A t \in Ids \ {s} : Fits(t)'
    BY <1>4, <2>1, Untouched DEF ShellExits
  <2>4. Fits(s)'
    BY <1>4, <2>1 DEF ShellExits, Fits
  <2> QED
    BY <2>2, <2>3, <2>4
<1> QED
  BY <1>1, <1>2, <1>3, <1>4

\* a step of a goroutine that changes nothing but where it is
LEMMA PlainMove ==
  ASSUME Inv, NEW s \in Ids, NEW from, NEW to \in Points, Goto(s, from, to),
         UNCHANGED <<socket, loop, pending, table, shell, closes>>,
         \/ from \in Tabled /\ to \in Tabled
         \/ from = "wait" /\ to = "close"
         \/ from \in {"refused", "announce"} /\ to = "done"
  PROVE  Inv'
<1> USE DEF Inv
<1>1. pc[s] = from /\ pc'[s] = to
  BY GotoMoves
<1>2. Fits(s)'
  BY <1>1 DEF Fits, Tabled
<1>3. from \notin {"none", "done"}
  BY DEF Tabled
<1> QED
  BY <1>2, <1>3, OneMoves DEF Types

\* a terminal's goroutine
LEMMA SessionKeeps ==
  ASSUME Inv, NEW s \in Ids, SessionStep(s) \/ ReadOutput(s)
  PROVE  Inv'
<1> USE DEF Inv
<1>1. CASE Start(s)
  <2>1. PICK to \in {"adding", "refused"} :
          /\ Goto(s, "starting", to)
          /\ shell' = IF to = "adding" THEN [shell EXCEPT ![s] = "running"] ELSE shell
    BY <1>1 DEF Start
  <2>2. to \in Points
    BY DEF Points, Writing
  <2>3. pc[s] = "starting" /\ pc'[s] = to
    BY <2>1, <2>2, GotoMoves
  <2>4. /\ shell' \in [Ids -> {"none", "running", "ended"}]
        /\ shell'[s] = IF to = "adding" THEN "running" ELSE shell[s]
        /\ \A t \in Ids \ {s} : shell'[t] = shell[t]
    BY <2>1 DEF Types
  <2>5. Fits(s)'
    BY <1>1, <2>3, <2>4 DEF Start, Fits, Tabled
  <2> QED
    BY <1>1, <2>1, <2>2, <2>4, <2>5, OneMoves DEF Start, Types
<1>2. CASE Add(s)
  <2>1. pc[s] = "adding" /\ pc'[s] = "ready"
    BY <1>2, GotoMoves DEF Add, Points, Writing
  <2>2. Fits(s)'
    BY <1>2, <2>1 DEF Add, Fits, Tabled
  <2> QED
    BY <1>2, <2>2, OneMoves DEF Add, Types, Points, Writing
<1>3. CASE Send(s)
  <2>1. PICK from \in Writing, to \in {"done", "bridge", "abandon", "data", "remove"} :
          /\ Goto(s, from, to)
          /\ (from \in {"refused", "announce"}) = (to = "done")
    BY <1>3 DEF Send, Write, Writing
  <2>2. \/ from \in Tabled /\ to \in Tabled
        \/ from \in {"refused", "announce"} /\ to = "done"
    BY <2>1 DEF Writing, Tabled
  <2>3. to \in Points
    BY DEF Points, Writing
  <2> QED
    BY <1>3, <2>1, <2>2, <2>3, PlainMove DEF Send
<1>4. CASE Abandon(s)
  <2>1. pc[s] = "abandon" /\ pc'[s] = "done"
    BY <1>4, GotoMoves DEF Abandon, Points
  <2>2. /\ \A t \in Ids : closes'[t] = closes[t] + IF t \in {s} THEN 1 ELSE 0
        /\ \A t \in Ids : shell'[t] = IF t \in {s} THEN "ended" ELSE shell[t]
        /\ shell' \in [Ids -> {"none", "running", "ended"}]
    BY <1>4, Closed DEF Abandon
  <2>3. closes[s] \in {0, 1} /\ s \notin table'
    BY <1>4, <2>1 DEF Abandon, Fits, Tabled
  <2>4. closes' \in [Ids -> 0..2]
    <3>1. \A t \in Ids : closes'[t] \in 0..2
      BY <2>2, <2>3 DEF Types
    <3> QED
      BY <1>4, <3>1 DEF Abandon, CloseAllOf
  <2>5. Fits(s)'
    BY <2>1, <2>2, <2>3 DEF Fits, Tabled
  <2>6. \A t \in Ids \ {s} : UNCHANGED <<closes[t], shell[t]>> /\ (t \in table' <=> t \in table)
    BY <1>4, <2>2 DEF Abandon, Types
  <2> QED
    BY <1>4, <2>2, <2>4, <2>5, <2>6, OneMoves DEF Abandon, Types, Points
<1>5. CASE ReadOutput(s) \/ ReadEnds(s)
  BY <1>5, PlainMove DEF ReadOutput, ReadEnds, Tabled, Points, Writing
<1>6. CASE Remove(s)
  <2>1. PICK to \in {"wait", "done"} :
          Goto(s, "remove", to) /\ to = IF s \in table THEN "wait" ELSE "done"
    BY <1>6 DEF Remove
  <2>2. pc[s] = "remove" /\ pc'[s] = to /\ to \in Points
    BY <2>1, GotoMoves DEF Points
  <2>3. Fits(s)'
    BY <1>6, <2>1, <2>2 DEF Remove, Fits, Tabled
  <2> QED
    BY <1>6, <2>1, <2>2, <2>3, OneMoves DEF Remove, Types
<1>7. CASE Wait(s)
  BY <1>7, PlainMove DEF Wait, Points
<1>8. CASE Close(s)
  <2>1. pc[s] = "close" /\ pc'[s] = "announce"
    BY <1>8, GotoMoves DEF Close, Points, Writing
  <2>2. /\ \A t \in Ids : closes'[t] = closes[t] + IF t \in {s} THEN 1 ELSE 0
        /\ \A t \in Ids : shell'[t] = IF t \in {s} THEN "ended" ELSE shell[t]
        /\ shell' \in [Ids -> {"none", "running", "ended"}]
    BY <1>8, Closed DEF Close
  <2>3. closes[s] = 0 /\ s \notin table'
    BY <1>8, <2>1 DEF Close, Fits, Tabled
  <2>4. closes' \in [Ids -> 0..2]
    <3>1. \A t \in Ids : closes'[t] \in 0..2
      BY <2>2, <2>3 DEF Types
    <3> QED
      BY <1>8, <3>1 DEF Close, CloseAllOf
  <2>5. Fits(s)'
    BY <2>1, <2>2, <2>3 DEF Fits, Tabled
  <2>6. \A t \in Ids \ {s} : UNCHANGED <<closes[t], shell[t]>> /\ (t \in table' <=> t \in table)
    BY <1>8, <2>2 DEF Close, Types
  <2> QED
    BY <1>8, <2>2, <2>4, <2>5, <2>6, OneMoves DEF Close, Types, Points, Writing
<1> QED
  BY <1>1, <1>2, <1>3, <1>4, <1>5, <1>6, <1>7, <1>8 DEF SessionStep

LEMMA Inductive == Inv /\ [Next]_vars => Inv'
<1> SUFFICES ASSUME Inv, [Next]_vars PROVE Inv'
  OBVIOUS
<1>1. CASE LinkDown \/ Cancel \/ Watcher
  BY <1>1, Aside DEF LinkDown, Cancel, Watcher, Inv, Types
<1>2. CASE UNCHANGED vars
  BY <1>2, Aside DEF vars, Inv, Types
<1>3. CASE LoopStep \/ Answer \/ Binary \/ LeaveLoop
  BY <1>3, LoopKeeps
<1>4. CASE \E s \in Ids : OpenTerminal(s) \/ DataHeader(s) \/ CloseSession(s) \/ ShellExits(s)
  BY <1>4, AskedKeeps
<1>5. CASE \E s \in Ids : SessionStep(s) \/ ReadOutput(s)
  BY <1>5, SessionKeeps
<1> QED
  BY <1>1, <1>2, <1>3, <1>4, <1>5 DEF Next

LEMMA InvAlways == Spec => []Inv
  BY InvInit, Inductive, PTL DEF Spec

-----------------------------------------------------------------------------
(* The theorems                                                            *)

(* Every variable keeps to its values: a terminal in the table has a shell *)
(* and none is closed more than twice.                                     *)
THEOREM Typing == Spec => []TypeOK
<1>1. Inv => TypeOK
  BY DEF Inv, Types, Fits, Tabled, TypeOK
<1> QED
  BY InvAlways, <1>1, PTL

(* The handle a goroutine waits on, or is about to close, is freed by      *)
(* nobody else: closeAll and close_session only close what they have taken *)
(* out of the table, and so has the goroutine before it waits.             *)
THEOREM AloneWithHandle == Spec => []WaitsOnLiveHandle
<1>1. Inv => WaitsOnLiveHandle
  BY DEF Inv, Fits, Tabled, WaitsOnLiveHandle
<1> QED
  BY InvAlways, <1>1, PTL

(* A terminal that has been closed is closed again only by its own         *)
(* goroutine, where terminal_ready failed after another had taken it out   *)
(* of the table; the loop, close_session and the goroutine after Wait      *)
(* never do it.                                                            *)
THEOREM SecondClose == Spec => ClosedTwiceOnlyAbandoned
<1> DEFINE Again(s) == closes[s] > 0 /\ closes'[s] # closes[s]
           Allowed(s) == pc[s] = "abandon" /\ s \notin table /\ closes[s] = 1
<1>1. ASSUME Inv, [Next]_vars, NEW s \in Ids, Again(s) PROVE Allowed(s)
  <2> USE DEF Inv
  <2>1. closes[s] \in 1..2 /\ closes' # closes
    BY <1>1 DEF Types
  <2>2. ASSUME NEW S \in SUBSET Ids, RemoveClosed(S) PROVE FALSE
    <3>1. closes'[s] = closes[s] + IF s \in S \cap table THEN 1 ELSE 0
      BY <1>1, <2>2, Closed DEF RemoveClosed
    <3>2. s \in table => closes[s] = 0
      BY <1>1 DEF Fits
    <3> QED
      BY <1>1, <2>1, <3>1, <3>2
  <2>3. ASSUME NEW t \in Ids, CloseAllOf({t}) PROVE s = t
    <3>1. closes'[s] = closes[s] + IF s \in {t} THEN 1 ELSE 0
      BY <1>1, <2>3, Closed
    <3> QED
      BY <1>1, <2>1, <3>1
  <2>4. CASE \E t \in Ids : Abandon(t)
    <3>1. pc[s] = "abandon"
      BY <2>3, <2>4 DEF Abandon, Goto
    <3> QED
      BY <1>1, <2>1, <3>1 DEF Fits, Tabled
  <2>5. CASE \E t \in Ids : Close(t)
    <3>1. pc[s] = "close"
      BY <2>3, <2>5 DEF Close, Goto
    <3> QED
      BY <1>1, <2>1, <3>1 DEF Fits
  <2>6. CASE DropPending \/ CloseAll \/ \E t \in Ids : CloseSession(t)
    BY <1>1, <2>2, <2>6 DEF DropPending, CloseAll, CloseSession, Types
  <2> QED
    BY <1>1, <2>1, <2>4, <2>5, <2>6
       DEF Next, vars, LinkDown, Cancel, Watcher, LoopStep, Answered, Forward,
           ReportWriteError, Return, Answer, Binary, LeaveLoop, OpenTerminal,
           DataHeader, SessionStep, Start, Add, Send, ReadEnds, Remove, Wait,
           ReadOutput, ShellExits
<1>2. Inv /\ [Next]_vars => \A s \in Ids : Again(s) => Allowed(s)
  BY <1>1
<1> QED
  BY <1>2, InvAlways, PTL DEF Spec, ClosedTwiceOnlyAbandoned

(* Every terminal is opened once, Close is called on it before             *)
(* handleMessages returns, and the call that Sessions counts is the first: *)
(* the terminals implement Sessions, which is blind to a second Close      *)
(* (SecondClose says when there is one).                                   *)
THEOREM Refinement == Spec => ImplementsSessions
<1>1. Init => Service!Init
  BY DEF Init, Service!Init, Session
<1>2. Inv /\ [Next]_vars => [Service!Next]_(Service!vars)
  <2> SUFFICES ASSUME Inv, [Next]_vars PROVE [Service!Next]_(Service!vars)
    OBVIOUS
  <2> USE DEF Inv
  <2>1. \A s \in Ids : Session[s] = IF closes[s] > 0 THEN "closed"
                                    ELSE IF shell[s] # "none" THEN "open" ELSE "none"
    BY DEF Session
  <2>2. CASE UNCHANGED Session /\ (loop' = "over") = (loop = "over")
    BY <2>2 DEF Service!vars
  <2>3. ASSUME NEW S \in SUBSET Ids, CloseAllOf(S), (loop' = "over") = (loop = "over"),
               \A s \in S : shell[s] # "none"
        PROVE  [Service!Next]_(Service!vars)
    <3> DEFINE Open == {s \in S : closes[s] = 0}
    <3>1. /\ \A s \in Ids : closes'[s] = closes[s] + IF s \in S THEN 1 ELSE 0
          /\ \A s \in Ids : shell'[s] = IF s \in S THEN "ended" ELSE shell[s]
      BY <2>3, Closed
    <3>2. \A s \in Open : Session[s] = "open"
      BY <2>1, <2>3
    <3>3. \A s \in Ids : Session'[s] = IF s \in Open THEN "closed" ELSE Session[s]
      <4> SUFFICES ASSUME NEW s \in Ids
                   PROVE  Session'[s] = IF s \in Open THEN "closed" ELSE Session[s]
        OBVIOUS
      <4>1. Session'[s] = IF closes'[s] > 0 THEN "closed"
                          ELSE IF shell'[s] # "none" THEN "open" ELSE "none"
        BY DEF Session
      <4>2. closes[s] \in 0..2
        BY DEF Types
      <4> QED
        BY <2>1, <3>1, <4>1, <4>2
    <3>4. Session' = [s \in Ids |-> IF s \in Open THEN "closed" ELSE Session[s]]
      <4>1. Session' = [s \in Ids |-> Session'[s]]
        BY DEF Session
      <4> HIDE DEF Open
      <4> QED
        BY <3>3, <4>1
    <3>5. Service!Close(Open)
      BY <2>3, <3>2, <3>4 DEF Service!Close
    <3> QED
      BY <3>5 DEF Service!Next
  <2>4. ASSUME NEW S \in SUBSET Ids, RemoveClosed(S), (loop' = "over") = (loop = "over")
        PROVE  [Service!Next]_(Service!vars)
    BY <2>3, <2>4 DEF RemoveClosed, Fits, Tabled
  <2>5. ASSUME NEW s \in Ids, Start(s) PROVE [Service!Next]_(Service!vars)
    <3>1. pc[s] = "starting" /\ UNCHANGED <<loop, closes>>
      BY <2>5 DEF Start, Goto
    <3>2. loop # "over" /\ closes[s] = 0 /\ shell[s] = "none"
      BY <3>1 DEF Over, AllGone, Fits
    <3>3. CASE UNCHANGED shell
      BY <2>2, <3>1, <3>3 DEF Session
    <3>4. CASE shell' = [shell EXCEPT ![s] = "running"]
      <4>1. \A t \in Ids : Session'[t] = IF t = s THEN "open" ELSE Session[t]
        BY <2>1, <3>1, <3>2, <3>4 DEF Session, Types
      <4>2. Session' = [Session EXCEPT ![s] = "open"]
        BY <4>1 DEF Session
      <4>3. Service!Open(s)
        BY <2>1, <3>1, <3>2, <4>2 DEF Service!Open
      <4> QED
        BY <4>3 DEF Service!Next
    <3> QED
      BY <2>5, <3>3, <3>4 DEF Start
  <2>6. ASSUME NEW s \in Ids, Abandon(s) \/ Close(s)
        PROVE  [Service!Next]_(Service!vars)
    <3>1. CloseAllOf({s}) /\ UNCHANGED loop /\ pc[s] \in {"abandon", "close"}
      BY <2>6 DEF Abandon, Close, Goto
    <3>2. shell[s] # "none"
      BY <3>1 DEF Fits, Tabled
    <3> QED
      BY <2>3, <3>1, <3>2
  <2>7. ASSUME NEW s \in Ids, ShellExits(s) PROVE [Service!Next]_(Service!vars)
    <3>1. \A t \in Ids : (shell'[t] = "none") = (shell[t] = "none")
      BY <2>7 DEF ShellExits, Types
    <3>2. UNCHANGED Session
      BY <2>7, <3>1 DEF ShellExits, Session
    <3> QED
      BY <2>2, <2>7, <3>2 DEF ShellExits
  <2>8. CASE Return
    <3>1. \A s \in Ids : Session[s] # "open"
      BY <2>1, <2>8 DEF Return, AllGone, Fits
    <3>2. UNCHANGED Session
      BY <2>8 DEF Return, Session
    <3>3. Service!Finish
      BY <2>8, <3>1, <3>2 DEF Return, Service!Finish
    <3> QED
      BY <3>3 DEF Service!Next
  <2>9. CASE UNCHANGED <<closes, shell>> /\ (loop' = "over") = (loop = "over")
    BY <2>2, <2>9 DEF Session
  <2>10. CASE \E s \in Ids : SessionStep(s) \/ ReadOutput(s)
    BY <2>5, <2>6, <2>9, <2>10
       DEF SessionStep, Add, Send, ReadOutput, ReadEnds, Remove, Wait
  <2>11. CASE LoopStep
    BY <2>4, <2>8, <2>9, <2>11
       DEF LoopStep, Answered, Forward, ReportWriteError, DropPending, CloseAll, Types
  <2>12. CASE LinkDown \/ Cancel \/ Watcher \/ Answer \/ Binary \/ LeaveLoop \/ UNCHANGED vars
    BY <2>9, <2>12 DEF LinkDown, Cancel, Watcher, Answer, Binary, LeaveLoop, Receives, vars
  <2>13. CASE \E s \in Ids : CloseSession(s)
    BY <2>4, <2>13 DEF CloseSession
  <2>14. CASE \E s \in Ids : OpenTerminal(s) \/ DataHeader(s)
    BY <2>9, <2>14 DEF OpenTerminal, DataHeader
  <2> QED
    BY <2>7, <2>10, <2>11, <2>12, <2>13, <2>14 DEF Next
<1> QED
  BY <1>1, <1>2, InvAlways, PTL DEF Spec, ImplementsSessions, Service!Spec
=============================================================================
