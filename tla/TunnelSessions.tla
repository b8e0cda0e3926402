--------------------------- MODULE TunnelSessions ---------------------------
(***************************************************************************)
(* One call of handleMessages in internal/tunnel/ssh_tunnel.go: the read   *)
(* loop of one WebSocket, and a goroutine for every session the backend    *)
(* opens, which dials sshd and copies what it says to the WebSocket.  They *)
(* share the table of connections (under tun.mu) and the socket, whose     *)
(* writers take safeWS.mu.                                                 *)
(*                                                                         *)
(* The backend gives every session an id of its own, so a session's id     *)
(* also names its TCP connection and its goroutine.  What is copied has no *)
(* content; a frame is a data header (its session's id) or "other".        *)
(***************************************************************************)
CONSTANT Ids

VARIABLES
  done,      \* the loop's context is done
  sock,      \* our end of the WebSocket: "open" or "closed"
  link,      \* "up", or "down": the backend or the network has gone
  loop,      \* where the read loop is
  pending,   \* pendingSessionID, {} when it is ""
  table,     \* ids in tun.sessions
  conn,      \* conn[s]: the TCP connection, "none", "open" or "closed"
  pc,        \* pc[s]: where handleOpenTunnel is
  mu,        \* ids holding safeWS.mu between two frames
  last       \* the last frame written to the WebSocket

vars == <<done, sock, link, loop, pending, table, conn, pc, mu, last>>

LoopPoints == {"reading", "forward", "report", "release", "pong",
               "closing", "waiting", "over"}
Points == {"none", "dialing", "refused", "adding", "ready", "bridge",
           "header", "data", "eof", "closing", "done"}

Init ==
  /\ done = FALSE /\ sock = "open" /\ link = "up"
  /\ loop = "reading" /\ pending = {} /\ table = {}
  /\ conn = [s \in Ids |-> "none"] /\ pc = [s \in Ids |-> "none"]
  /\ mu = {} /\ last = "other"

-----------------------------------------------------------------------------
(* The WebSocket                                                           *)

\* a write on an open socket may succeed even when nobody reads it any more
Sent(ok) == IF ok THEN sock = "open" ELSE sock = "closed" \/ link = "down"

\* WriteMessage of a frame that is not data
Frame(ok) == mu = {} /\ Sent(ok) /\ last' = IF ok THEN "other" ELSE last

LinkDown ==
  /\ link = "up" /\ link' = "down"
  /\ UNCHANGED <<done, sock, loop, pending, table, conn, pc, mu, last>>

Cancel ==
  /\ ~done /\ done' = TRUE
  /\ UNCHANGED <<sock, link, loop, pending, table, conn, pc, mu, last>>

\* the goroutine that waits for the context
Watcher ==
  /\ done /\ sock = "open" /\ sock' = "closed"
  /\ UNCHANGED <<done, link, loop, pending, table, conn, pc, mu, last>>

-----------------------------------------------------------------------------
(* The table                                                               *)

Release(s) ==
  /\ table' = table \ {s}
  /\ conn' = IF s \in table THEN [conn EXCEPT ![s] = "closed"] ELSE conn

CloseAll ==
  /\ loop = "closing" /\ loop' = "waiting"
  /\ conn' = [s \in Ids |-> IF s \in table THEN "closed" ELSE conn[s]]
  /\ table' = {}
  /\ UNCHANGED <<done, sock, link, pending, pc, mu, last>>

-----------------------------------------------------------------------------
(* The read loop                                                           *)

Receives == loop = "reading" /\ sock = "open"

OpenTunnel(s) ==
  /\ Receives /\ pc[s] = "none"
  /\ pc' = [pc EXCEPT ![s] = "dialing"]
  /\ UNCHANGED <<done, sock, link, loop, pending, table, conn, mu, last>>

DataHeader(s) ==
  /\ Receives
  /\ pending' = {s}
  /\ UNCHANGED <<done, sock, link, loop, table, conn, pc, mu, last>>

\* a binary frame: the connection is looked up, then written to
Binary ==
  /\ Receives /\ pending # {}
  /\ IF pending \subseteq table
     THEN loop' = "forward" /\ UNCHANGED pending
     ELSE pending' = {} /\ UNCHANGED loop
  /\ UNCHANGED <<done, sock, link, table, conn, pc, mu, last>>

\* conn.Write returns when sshd takes the bytes, or fails when sshd has gone
\* or the connection was closed; it has no deadline, and may do neither
Forward ==
  /\ loop = "forward"
  /\ \/ /\ \A s \in pending : conn[s] = "open"
        /\ loop' = "reading" /\ pending' = {}
     \/ loop' = "report" /\ UNCHANGED pending
  /\ UNCHANGED <<done, sock, link, table, conn, pc, mu, last>>

\* sendTunnelClosed ignores its error
ReportWriteError ==
  /\ loop = "report" /\ loop' = "release"
  /\ \E ok \in BOOLEAN : Frame(ok)
  /\ UNCHANGED <<done, sock, link, pending, table, conn, pc, mu>>

ReleasePending ==
  /\ loop = "release" /\ loop' = "reading"
  /\ \E s \in pending : Release(s)
  /\ pending' = {}
  /\ UNCHANGED <<done, sock, link, pc, mu, last>>

CloseSession(s) ==
  /\ Receives
  /\ Release(s)
  /\ UNCHANGED <<done, sock, link, loop, pending, pc, mu, last>>

Ping ==
  /\ Receives /\ loop' = "pong"
  /\ UNCHANGED <<done, sock, link, pending, table, conn, pc, mu, last>>

Pong ==
  /\ loop = "pong" /\ loop' = "reading"
  /\ \E ok \in BOOLEAN : Frame(ok)
  /\ UNCHANGED <<done, sock, link, pending, table, conn, pc, mu>>

\* the "disconnect" command leaves the socket open
RemoteDisconnect ==
  /\ Receives /\ loop' = "closing"
  /\ UNCHANGED <<done, sock, link, pending, table, conn, pc, mu, last>>

ReadFails ==
  /\ loop = "reading" /\ (sock = "closed" \/ link = "down")
  /\ loop' = "closing"
  /\ UNCHANGED <<done, sock, link, pending, table, conn, pc, mu, last>>

AllGoneLate ==    \* mutation: wg.Add in the goroutine instead of before it
  \A s \in Ids : pc[s] \in {"none", "dialing", "done"}
AllGone == \A s \in Ids : pc[s] \in {"none", "done"}

\* wg.Wait returns; maintainTunnel closes the socket
Return ==
  /\ loop = "waiting" /\ AllGone
  /\ loop' = "over" /\ sock' = "closed"
  /\ UNCHANGED <<done, link, pending, table, conn, pc, mu, last>>

-----------------------------------------------------------------------------
(* handleOpenTunnel and bridgeTCPToWS                                      *)

Goto(s, from, to) == pc[s] = from /\ pc' = [pc EXCEPT ![s] = to]

Dial(s) ==
  /\ \/ Goto(s, "dialing", "adding") /\ conn' = [conn EXCEPT ![s] = "open"]
     \/ Goto(s, "dialing", "refused") /\ UNCHANGED conn
  /\ UNCHANGED <<done, sock, link, loop, pending, table, mu, last>>

RefuseHangs(s) ==      \* mutation: wg.Done not deferred, missing on this path
  /\ Goto(s, "refused", "refused")
  /\ \E ok \in BOOLEAN : Frame(ok)
  /\ UNCHANGED <<done, sock, link, loop, pending, table, conn, mu>>
Refuse(s) ==
  /\ Goto(s, "refused", "done")
  /\ \E ok \in BOOLEAN : Frame(ok)
  /\ UNCHANGED <<done, sock, link, loop, pending, table, conn, mu>>

Add(s) ==
  /\ Goto(s, "adding", "ready") /\ table' = table \cup {s}
  /\ UNCHANGED <<done, sock, link, loop, pending, conn, mu, last>>

ReadyUnchecked(s) ==   \* mutation: the error of the write is ignored
  /\ Goto(s, "ready", "bridge") /\ \E ok \in BOOLEAN : Frame(ok)
  /\ UNCHANGED <<done, sock, link, loop, pending, table, conn, mu>>
Ready(s) ==
  /\ \/ Goto(s, "ready", "bridge") /\ Frame(TRUE)
     \/ Goto(s, "ready", "closing") /\ Frame(FALSE)
  /\ UNCHANGED <<done, sock, link, loop, pending, table, conn, mu>>

\* sshd sends something
TCPData(s) ==
  /\ Goto(s, "bridge", "header") /\ conn[s] = "open"
  /\ UNCHANGED <<done, sock, link, loop, pending, table, conn, mu, last>>

\* sshd ends the session, or the connection was closed here
TCPEnds(s) ==
  /\ Goto(s, "bridge", "eof")
  /\ UNCHANGED <<done, sock, link, loop, pending, table, conn, mu, last>>

\* WriteDataFrame: lock, header, data, unlock
HeaderUnlocked(s) ==   \* mutation: two calls of WriteMessage
  /\ mu = {}
  /\ \/ Goto(s, "header", "data") /\ Sent(TRUE) /\ last' = s
     \/ Goto(s, "header", "closing") /\ Sent(FALSE) /\ UNCHANGED last
  /\ UNCHANGED <<done, sock, link, loop, pending, table, conn, mu>>
WriteHeader(s) ==
  /\ mu = {}
  /\ \/ Goto(s, "header", "data") /\ Sent(TRUE) /\ last' = s /\ mu' = {s}
     \/ Goto(s, "header", "closing") /\ Sent(FALSE) /\ UNCHANGED <<mu, last>>
  /\ UNCHANGED <<done, sock, link, loop, pending, table, conn>>

WriteData(s) ==
  /\ \/ Goto(s, "data", "bridge") /\ Sent(TRUE) /\ last' = "other"
     \/ Goto(s, "data", "closing") /\ Sent(FALSE) /\ UNCHANGED last
  /\ mu' = mu \ {s}
  /\ UNCHANGED <<done, sock, link, loop, pending, table, conn>>

TunnelClosed(s) ==
  /\ Goto(s, "eof", "closing")
  /\ \E ok \in BOOLEAN : Frame(ok)
  /\ UNCHANGED <<done, sock, link, loop, pending, table, conn, mu>>

CloseTunnel(s) ==
  /\ Goto(s, "closing", "done") /\ Release(s)
  /\ UNCHANGED <<done, sock, link, loop, pending, mu, last>>

-----------------------------------------------------------------------------
LoopStep ==
  \/ Forward \/ ReportWriteError \/ ReleasePending \/ Pong \/ ReadFails
  \/ CloseAll \/ Return

SessionStep(s) ==
  \/ Dial(s) \/ Refuse(s) \/ Add(s) \/ Ready(s) \/ WriteHeader(s)
  \/ WriteData(s) \/ TunnelClosed(s) \/ CloseTunnel(s)

Next ==
  \/ LinkDown \/ Cancel \/ Watcher \/ LoopStep
  \/ Binary \/ Ping \/ RemoteDisconnect
  \/ \E s \in Ids : \/ OpenTunnel(s) \/ DataHeader(s) \/ CloseSession(s)
                    \/ SessionStep(s) \/ TCPData(s) \/ TCPEnds(s)

\* No write has a deadline.  One to the WebSocket returns when the socket is
\* closed, or its peer has gone and TCP gives up; one to sshd when the
\* connection is closed.
Writing(s) == pc[s] \in {"refused", "ready", "header", "data", "eof"}
WritesReturn == sock = "closed" \/ link = "down"

LoopHeld ==
  \/ loop \in {"report", "pong"} /\ ~WritesReturn
  \/ loop = "forward" /\ \A s \in pending : conn[s] = "open"

\* Goroutines are scheduled, a dial returns, reading a connection that was
\* closed here fails.  The backend need not send anything nor read what it
\* is sent, nor need sshd, and sshd need not hang up.
Fairness ==
  /\ WF_vars(Watcher) /\ WF_vars(~LoopHeld /\ LoopStep)
  /\ \A s \in Ids :
       /\ WF_vars((Writing(s) => WritesReturn) /\ SessionStep(s))
       /\ WF_vars(conn[s] = "closed" /\ TCPEnds(s))

Spec == Init /\ [][Next]_vars
FairSpec == Spec /\ Fairness

-----------------------------------------------------------------------------
(* Types; safeWS.mu is held between a header and its data only.            *)
TypeOK ==
  /\ done \in BOOLEAN /\ sock \in {"open", "closed"} /\ link \in {"up", "down"}
  /\ loop \in LoopPoints
  /\ pending \subseteq Ids /\ table \subseteq Ids
  /\ mu \subseteq {s \in Ids : pc[s] = "data"}
  /\ conn \in [Ids -> {"none", "open", "closed"}]
  /\ pc \in [Ids -> Points]
  /\ last \in Ids \cup {"other"}

(* No connection to sshd is lost: one that is open is in the table, where  *)
(* close_session and closeAll find it, or about to be put there.           *)
NoOrphan == \A s \in Ids : conn[s] = "open" => s \in table \/ pc[s] = "adding"

(* A data frame follows its own header at once, whoever else writes: the   *)
(* backend never takes one session's bytes for another's.                  *)
HeaderThenData == \A s \in Ids : pc[s] = "data" => last = s

(* Sessions are opened and closed once, and handleMessages returns only    *)
(* when all are closed, whatever order its goroutines run in.              *)
Service == INSTANCE Sessions WITH session <- conn, over <- loop = "over"
ImplementsSessions == Service!Spec

(* Closing the socket ends the connection: once it is closed, and closeAll *)
(* is still to come, every session ends and handleMessages returns, unless *)
(* the read loop is held for ever by an sshd that does not read.           *)
ClosedSocketEnds ==
  (sock = "closed" /\ loop # "waiting") ~>
    (loop = "over"
     \/ [](loop = "forward" /\ \A s \in pending : conn[s] = "open"))

(* wg.Wait waits for ever only for a session that was put in the table     *)
(* after closeAll, on a socket that still took its tunnel_ready, or for a  *)
(* frame that the backend does not take.                                   *)
WaitsOnlyForLate ==
  <>[](loop = "waiting") =>
    <>[](table # {} \/ (~WritesReturn /\ \E s \in Ids : Writing(s)))
=============================================================================
