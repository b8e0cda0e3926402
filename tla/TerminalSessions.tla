-------------------------- MODULE TerminalSessions --------------------------
(***************************************************************************)
(* One call of handleMessages in internal/terminal/manager.go, on Windows  *)
(* (elsewhere Start always fails): the read loop of one WebSocket, and a   *)
(* goroutine for every terminal the backend opens, which copies what the   *)
(* shell writes to the WebSocket.  They share the table of terminals.      *)
(*                                                                         *)
(* Unlike the SSH tunnel's, the socket's writers take no lock: a goroutine *)
(* at one of the points of Writing, and the loop at one of LoopWriting, is *)
(* inside WriteMessage.  Close frees the terminal's handle and ends its    *)
(* shell; Wait returns when the shell has ended.  The backend gives every  *)
(* session an id of its own; resizes, which change nothing here, and what  *)
(* is copied are left out.                                                 *)
(***************************************************************************)
EXTENDS Naturals

CONSTANT Ids

VARIABLES
  done,      \* the loop's context is done
  sock,      \* our end of the WebSocket: "open" or "closed"
  link,      \* "up", or "down": the backend or the network has gone
  loop,      \* where the read loop is
  pending,   \* pendingSessionID, {} when it is ""
  table,     \* ids in sessions.sessions
  shell,     \* shell[s]: "none", "running" or "ended"
  closes,    \* closes[s]: how often its terminal was closed
  pc         \* pc[s]: where handleOpenTerminal is

vars == <<done, sock, link, loop, pending, table, shell, closes, pc>>
socket == <<done, sock, link>>

LoopWriting == {"report", "reject", "pong"}
Writing     == {"refused", "ready", "header", "data", "announce"}
LoopPoints  == LoopWriting \cup {"reading", "forward", "drop", "closing",
                                 "waiting", "over"}
Points      == Writing \cup {"none", "starting", "adding", "abandon", "bridge",
                             "remove", "wait", "close", "done"}

Init ==
  /\ done = FALSE /\ sock = "open" /\ link = "up"
  /\ loop = "reading" /\ pending = {} /\ table = {}
  /\ shell = [s \in Ids |-> "none"] /\ closes = [s \in Ids |-> 0]
  /\ pc = [s \in Ids |-> "none"]

-----------------------------------------------------------------------------
(* The WebSocket                                                           *)

\* a write on an open socket may succeed even when nobody reads it any more
SendOK    == sock = "open"
SendFails == sock = "closed" \/ link = "down"

LinkDown ==
  /\ link = "up" /\ link' = "down"
  /\ UNCHANGED <<done, sock, loop, pending, table, shell, closes, pc>>

Cancel ==
  /\ ~done /\ done' = TRUE
  /\ UNCHANGED <<sock, link, loop, pending, table, shell, closes, pc>>

Watcher ==
  /\ done /\ sock = "open" /\ sock' = "closed"
  /\ UNCHANGED <<done, link, loop, pending, table, shell, closes, pc>>

-----------------------------------------------------------------------------
(* Terminals                                                               *)

\* Close the terminals of S
CloseAllOf(S) ==
  /\ closes' = [s \in Ids |-> closes[s] + IF s \in S THEN 1 ELSE 0]
  /\ shell' = [s \in Ids |-> IF s \in S THEN "ended" ELSE shell[s]]

ShellExits(s) ==
  /\ shell[s] = "running" /\ shell' = [shell EXCEPT ![s] = "ended"]
  /\ UNCHANGED <<socket, loop, pending, table, closes, pc>>

-----------------------------------------------------------------------------
(* The read loop                                                           *)

Receives == loop = "reading" /\ sock = "open"

\* the signature of an open_terminal is good, or there is no verifier
OpenTerminal(s) ==
  /\ Receives /\ pc[s] = "none"
  /\ pc' = [pc EXCEPT ![s] = "starting"]
  /\ UNCHANGED <<socket, loop, pending, table, shell, closes>>

\* sendError for a bad signature, a pong
Answer ==
  /\ Receives /\ loop' \in {"reject", "pong"}
  /\ UNCHANGED <<socket, pending, table, shell, closes, pc>>

Answered ==
  /\ loop \in {"reject", "pong"} /\ loop' = "reading"
  /\ UNCHANGED <<socket, pending, table, shell, closes, pc>>

DataHeader(s) ==
  /\ Receives /\ pending' = {s}
  /\ UNCHANGED <<socket, loop, table, shell, closes, pc>>

\* a binary frame: the terminal is looked up, then written to
Binary ==
  /\ Receives /\ pending # {}
  /\ IF pending \subseteq table
     THEN loop' = "forward" /\ UNCHANGED pending
     ELSE pending' = {} /\ UNCHANGED loop
  /\ UNCHANGED <<socket, table, shell, closes, pc>>

\* the shell takes the input, or the write fails; it has no deadline either
Forward ==
  /\ loop = "forward"
  /\ \/ loop' = "reading" /\ pending' = {}
        /\ \A s \in pending : shell[s] = "running"
     \/ loop' = "report" /\ UNCHANGED pending
  /\ UNCHANGED <<socket, table, shell, closes, pc>>

ReportWriteError ==
  /\ loop = "report" /\ loop' = "drop"
  /\ UNCHANGED <<socket, pending, table, shell, closes, pc>>

\* sessions.remove(id), and Close if it was there
RemoveClosedKeeps(S) == CloseAllOf(S \cap table) /\ UNCHANGED table \* mutation:
                                                 \* delete is forgotten
RemoveClosed(S) == CloseAllOf(S \cap table) /\ table' = table \ S

DropPending ==
  /\ loop = "drop" /\ loop' = "reading"
  /\ RemoveClosed(pending) /\ pending' = {}
  /\ UNCHANGED <<socket, pc>>

CloseSession(s) ==
  /\ Receives
  /\ RemoveClosed({s})
  /\ UNCHANGED <<socket, loop, pending, pc>>

\* "disconnect", or ReadMessage fails
LeaveLoop ==
  /\ loop = "reading" /\ loop' = "closing"
  /\ Receives \/ SendFails
  /\ UNCHANGED <<socket, pending, table, shell, closes, pc>>

CloseAll ==
  /\ loop = "closing" /\ loop' = "waiting"
  /\ RemoveClosed(table)
  /\ UNCHANGED <<socket, pending, pc>>

AllGoneLate ==    \* mutation: wg.Add in the goroutine instead of before it
  \A s \in Ids : pc[s] \in {"none", "starting", "done"}
AllGone == \A s \in Ids : pc[s] \in {"none", "done"}

\* wg.Wait returns; maintainConnection closes the socket
Return ==
  /\ loop = "waiting" /\ AllGone
  /\ loop' = "over" /\ sock' = "closed"
  /\ UNCHANGED <<done, link, pending, table, shell, closes, pc>>

-----------------------------------------------------------------------------
(* handleOpenTerminal and bridgeTerminalToWS                               *)

Goto(s, from, to) == pc[s] = from /\ pc' = [pc EXCEPT ![s] = to]

\* inside WriteMessage, which returns without or with an error
Write(s, from, ok, failed) ==
  \/ SendOK /\ Goto(s, from, ok)
  \/ SendFails /\ Goto(s, from, failed)

Start(s) ==
  /\ \/ Goto(s, "starting", "adding") /\ shell' = [shell EXCEPT ![s] = "running"]
     \/ Goto(s, "starting", "refused") /\ UNCHANGED shell
  /\ UNCHANGED <<socket, loop, pending, table, closes>>

Add(s) ==
  /\ Goto(s, "adding", "ready") /\ table' = table \cup {s}
  /\ UNCHANGED <<socket, loop, pending, shell, closes>>

\* the four messages a session sends, and its two frames of data
Send(s) ==
  /\ \/ Write(s, "refused", "done", "done")
     \/ Write(s, "ready", "bridge", "abandon")
     \/ Write(s, "header", "data", "remove")
     \/ Write(s, "data", "bridge", "remove")
     \/ Write(s, "announce", "done", "done")
  /\ UNCHANGED <<socket, loop, pending, table, shell, closes>>

\* no terminal_ready: remove, and Close whether it was there or not
AbandonLeaks(s) ==   \* mutation: the terminal is only taken out of the table
  /\ Goto(s, "abandon", "done")
  /\ table' = table \ {s}
  /\ UNCHANGED <<socket, loop, pending, shell, closes>>
Abandon(s) ==
  /\ Goto(s, "abandon", "done")
  /\ table' = table \ {s} /\ CloseAllOf({s})
  /\ UNCHANGED <<socket, loop, pending>>

\* t.Read returns what the shell wrote, or an error: the shell has ended
ReadOutput(s) ==
  /\ shell[s] = "running" /\ Goto(s, "bridge", "header")
  /\ UNCHANGED <<socket, loop, pending, table, shell, closes>>

ReadEnds(s) ==
  /\ shell[s] = "ended" /\ Goto(s, "bridge", "remove")
  /\ UNCHANGED <<socket, loop, pending, table, shell, closes>>

RemoveUnchecked(s) ==   \* mutation: no return when closeAll has been here
  /\ Goto(s, "remove", "wait")
  /\ table' = table \ {s}
  /\ UNCHANGED <<socket, loop, pending, shell, closes>>
Remove(s) ==
  /\ Goto(s, "remove", IF s \in table THEN "wait" ELSE "done")
  /\ table' = table \ {s}
  /\ UNCHANGED <<socket, loop, pending, shell, closes>>

WaitHangs(s) ==   \* mutation: Wait waits on another handle
  /\ Goto(s, "wait", "wait")
  /\ UNCHANGED <<socket, loop, pending, table, shell, closes>>
Wait(s) ==
  /\ shell[s] = "ended" /\ Goto(s, "wait", "close")
  /\ UNCHANGED <<socket, loop, pending, table, shell, closes>>

Close(s) ==
  /\ Goto(s, "close", "announce") /\ CloseAllOf({s})
  /\ UNCHANGED <<socket, loop, pending, table>>

-----------------------------------------------------------------------------
LoopStep ==
  \/ Answered \/ Forward \/ ReportWriteError \/ DropPending \/ CloseAll \/ Return

SessionStep(s) ==
  \/ Start(s) \/ Add(s) \/ Send(s) \/ Abandon(s) \/ ReadEnds(s) \/ Remove(s)
  \/ Wait(s) \/ Close(s)

Next ==
  \/ LinkDown \/ Cancel \/ Watcher \/ LoopStep
  \/ Answer \/ Binary \/ LeaveLoop
  \/ \E s \in Ids : \/ OpenTerminal(s) \/ DataHeader(s) \/ CloseSession(s)
                    \/ SessionStep(s) \/ ReadOutput(s) \/ ShellExits(s)

\* a write that need not return: to a peer that does not read on a socket
\* that is open, or to a shell that does not read its input
LoopHeld ==
  \/ loop \in LoopWriting /\ ~SendFails
  \/ loop = "forward" /\ \A s \in pending : shell[s] = "running"

\* Goroutines are scheduled, writes that fail return, and so does reading a
\* socket that failed.  A shell need not end nor read, the backend need not
\* send anything nor read.
Fairness ==
  /\ WF_vars(Watcher) /\ WF_vars(~LoopHeld /\ LoopStep)
  /\ WF_vars(SendFails /\ LeaveLoop)
  /\ \A s \in Ids : WF_vars((pc[s] \in Writing => SendFails) /\ SessionStep(s))

Spec == Init /\ [][Next]_vars
FairSpec == Spec /\ Fairness

-----------------------------------------------------------------------------
(* Types.                                                                  *)
TypeOK ==
  /\ done \in BOOLEAN /\ sock \in {"open", "closed"} /\ link \in {"up", "down"}
  /\ loop \in LoopPoints /\ pending \subseteq Ids
  /\ table \subseteq {s \in Ids : shell[s] # "none"}
  /\ shell \in [Ids -> {"none", "running", "ended"}]
  /\ closes \in [Ids -> 0..2]
  /\ pc \in [Ids -> Points]

(* A goroutine that waits for its shell, or is about to close the terminal *)
(* after that, is alone with it: the handle is not freed under it.         *)
WaitsOnLiveHandle ==
  \A s \in Ids : pc[s] \in {"wait", "close"} => closes[s] = 0 /\ s \notin table

(* No terminal is lost: each is opened once, and handleMessages returns    *)
(* only when Close has been called on all, whatever order its goroutines   *)
(* run in.  For Sessions the first Close counts; how a second one can come *)
(* about is what ClosedTwiceOnlyAbandoned says.                            *)
Session == [s \in Ids |-> IF closes[s] > 0 THEN "closed"
                          ELSE IF shell[s] # "none" THEN "open" ELSE "none"]
Service == INSTANCE Sessions WITH session <- Session, over <- loop = "over"
ImplementsSessions == Service!Spec

(* A handle that has been freed is freed again in one case only: whoever   *)
(* took the terminal out of the table closed it, and its own goroutine,    *)
(* whose terminal_ready failed, closes it without asking.  Nobody does so  *)
(* a third time, and the loop never does.                                  *)
ClosedTwiceOnlyAbandoned ==
  [][\A s \in Ids : closes[s] > 0 /\ closes'[s] # closes[s]
       => pc[s] = "abandon" /\ s \notin table /\ closes[s] = 1]_vars

(* wg.Wait waits for ever only for a shell that does not end, or for a     *)
(* frame that the backend does not take.                                   *)
WaitsOnlyForShells ==
  <>[](loop = "waiting") =>
    <>[](\/ \E s \in Ids : shell[s] = "running"
         \/ ~SendFails /\ \E s \in Ids : pc[s] \in Writing)
=============================================================================
