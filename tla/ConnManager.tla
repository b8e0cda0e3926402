---------------------------- MODULE ConnManager ----------------------------
(***************************************************************************)
(* The connection manager of internal/tunnel/ssh_tunnel.go: a switch       *)
(* ("wanted") that the agent's main goroutine turns on and off, and the    *)
(* maintainTunnel goroutine that keeps a WebSocket to the backend up while *)
(* the switch is on.  internal/terminal/manager.go and                     *)
(* internal/fileapi/manager.go hold the same struct and the same loop.     *)
(*                                                                         *)
(* Every section of the code between a Lock and an Unlock of m.mu, and     *)
(* every blocking call, is one action.  Each successful startLoop makes a  *)
(* loop, a done channel and a context; all three carry the loop's number,  *)
(* so "gen" stands for m.doneCh and m.loopCancel (0: both still nil).      *)
(* The length of the back-off is left out: no property reads a clock.      *)
(***************************************************************************)
EXTENDS Naturals

CONSTANT MaxLoops      \* bound: loops started in one behaviour

ASSUME MaxLoopsAssumption == MaxLoops \in Nat \ {0}

Loops == 1..MaxLoops

VARIABLES
  wanted,      \* m.wanted
  connected,   \* m.connected
  gen,         \* the loop m.doneCh and m.loopCancel belong to
  closed,      \* done channels that have been closed
  cancelled,   \* loops whose cancel function has been called
  rootDone,    \* the agent's context, parent of every loop's, is done
  caller,      \* where the agent's goroutine is in Connect/Disconnect/Stop
  pc,          \* where each loop is in maintainTunnel
  skipped      \* history: the last startLoop returned at "still running"

vars == <<wanted, connected, gen, closed, cancelled, rootDone, caller, pc,
          skipped>>

\* hello: capabilities; serve, handle: handleMessages reads, or does what a
\* message says; drain, linger: its deferred closeAll and wg.Wait; drop:
\* ws.Close
Linked  == {"hello", "serve", "handle", "drain", "linger", "drop"}
Running == Linked \cup {"check", "dial", "recheck", "backoff", "exit"}
CallerPoints == {"idle", "starting", "disconnecting", "stopping", "stopped"}

Live(l)    == pc[l] \in Running
CtxDone(l) == l \in cancelled \/ rootDone

Init ==
  /\ wanted = FALSE
  /\ connected = FALSE
  /\ gen = 0
  /\ closed = {}
  /\ cancelled = {}
  /\ rootDone = FALSE
  /\ caller = "idle"
  /\ pc = [l \in Loops |-> "none"]
  /\ skipped = FALSE

-----------------------------------------------------------------------------
(* The agent's goroutine.  Connect and Disconnect return at once when the  *)
(* switch is already where they want it: those calls are stuttering steps. *)

Connect ==
  /\ caller = "idle"
  /\ ~wanted
  /\ gen < MaxLoops                                   \* bound
  /\ wanted' = TRUE
  /\ caller' = "starting"
  /\ UNCHANGED <<connected, gen, closed, cancelled, rootDone, pc, skipped>>

Disconnect ==
  /\ caller = "idle"
  /\ wanted
  /\ wanted' = FALSE
  /\ caller' = "disconnecting"
  /\ UNCHANGED <<connected, gen, closed, cancelled, rootDone, pc, skipped>>

\* shutdown() calls Stop last: no call follows it
Stop ==
  /\ caller = "idle"
  /\ wanted' = FALSE
  /\ caller' = "stopping"
  /\ UNCHANGED <<connected, gen, closed, cancelled, rootDone, pc, skipped>>

SignalStop ==
  /\ caller \in {"disconnecting", "stopping"}
  /\ cancelled' = cancelled \cup ({gen} \ {0})
  /\ caller' = IF caller = "stopping" THEN "stopped" ELSE "idle"
  /\ UNCHANGED <<wanted, connected, gen, closed, rootDone, pc, skipped>>

PreviousUnchecked == TRUE   \* mutation: the previous loop is not asked for

\* no loop yet, or <-m.doneCh returns: the previous loop has stopped
PreviousStopped == gen = 0 \/ gen \in closed

StartLoop ==
  /\ caller = "starting"
  /\ caller' = "idle"
  /\ \/ /\ PreviousStopped
        /\ gen' = gen + 1
        /\ pc' = [pc EXCEPT ![gen'] = "check"]
        /\ skipped' = FALSE
     \/ /\ ~PreviousStopped
        /\ skipped' = TRUE
        /\ UNCHANGED <<gen, pc>>
  /\ UNCHANGED <<wanted, connected, closed, cancelled, rootDone>>

\* a signal, the service manager or shutdown cancels the agent's context
RootCancel ==
  /\ ~rootDone
  /\ rootDone' = TRUE
  /\ UNCHANGED <<wanted, connected, gen, closed, cancelled, caller, pc, skipped>>

-----------------------------------------------------------------------------
(* maintainTunnel                                                          *)

Goto(l, from, to) == pc[l] = from /\ pc' = [pc EXCEPT ![l] = to]

CheckWanted(l) ==
  /\ Goto(l, "check", IF wanted THEN "dial" ELSE "exit")
  /\ UNCHANGED <<wanted, connected, gen, closed, cancelled, rootDone, caller, skipped>>

\* Dial does not take the loop's context: it may succeed after a cancel
Dial(l) ==
  /\ \/ Goto(l, "dial", "hello") /\ connected' = TRUE
     \/ Goto(l, "dial", "recheck") /\ UNCHANGED connected
  /\ UNCHANGED <<wanted, gen, closed, cancelled, rootDone, caller, skipped>>

Hello(l) ==
  /\ Goto(l, "hello", "serve") \/ Goto(l, "hello", "drop")
  /\ UNCHANGED <<wanted, connected, gen, closed, cancelled, rootDone, caller, skipped>>

\* a message has come; what it makes the read loop write to, sshd or a
\* terminal or a disk, may hold it for ever
Handle(l) ==
  /\ Goto(l, "serve", "handle") \/ Goto(l, "handle", "serve")
  /\ UNCHANGED <<wanted, connected, gen, closed, cancelled, rootDone, caller, skipped>>

ReadFailsUnwatched(l) ==   \* mutation: no goroutine closes the socket on a cancel
  /\ ~CtxDone(l) /\ Goto(l, "serve", "linger")
  /\ UNCHANGED <<wanted, connected, gen, closed, cancelled, rootDone, caller, skipped>>

\* ReadMessage fails: the watcher closed the socket because the context is
\* done, or the backend or the network did.  In the second case the socket
\* still takes writes, so a session that is being opened can outlive
\* closeAll and keep wg.Wait waiting: "linger" (TunnelSessions).
ReadFails(l) ==
  /\ \/ CtxDone(l) /\ Goto(l, "serve", "drain")
     \/ Goto(l, "serve", "linger")
  /\ UNCHANGED <<wanted, connected, gen, closed, cancelled, rootDone, caller, skipped>>

RemoteDisconnect(l) ==
  /\ Goto(l, "serve", "linger")
  /\ wanted' = FALSE
  /\ UNCHANGED <<connected, gen, closed, cancelled, rootDone, caller, skipped>>

SessionsGone(l) ==
  /\ Goto(l, "drain", "drop") \/ Goto(l, "linger", "drop")
  /\ UNCHANGED <<wanted, connected, gen, closed, cancelled, rootDone, caller, skipped>>

Drop(l) ==
  /\ Goto(l, "drop", "recheck")
  /\ connected' = FALSE
  /\ UNCHANGED <<wanted, gen, closed, cancelled, rootDone, caller, skipped>>

RecheckGivesUp(l) ==   \* mutation: a lost link ends the loop
  /\ Goto(l, "recheck", "exit")
  /\ UNCHANGED <<wanted, connected, gen, closed, cancelled, rootDone, caller, skipped>>

Recheck(l) ==
  /\ Goto(l, "recheck", IF wanted THEN "backoff" ELSE "exit")
  /\ UNCHANGED <<wanted, connected, gen, closed, cancelled, rootDone, caller, skipped>>

BackoffOnce(l) ==      \* mutation: return for continue after the timer
  /\ Goto(l, "backoff", "exit")
  /\ UNCHANGED <<wanted, connected, gen, closed, cancelled, rootDone, caller, skipped>>

BackoffUntilDone(l) == \* mutation: the timer's case is missing from the select
  /\ CtxDone(l) /\ Goto(l, "backoff", "exit")
  /\ UNCHANGED <<wanted, connected, gen, closed, cancelled, rootDone, caller, skipped>>

\* a timer that fires first is taken before the cancel; one that has not
\* fired when the context is done loses the select
Backoff(l) ==
  /\ Goto(l, "backoff", IF CtxDone(l) THEN "exit" ELSE "check")
  /\ UNCHANGED <<wanted, connected, gen, closed, cancelled, rootDone, caller, skipped>>

\* the deferred function; it closes whatever m.doneCh is now
Exit(l) ==
  /\ Goto(l, "exit", "gone")
  /\ connected' = FALSE
  /\ closed' = closed \cup {gen}
  /\ UNCHANGED <<wanted, gen, cancelled, rootDone, caller, skipped>>

-----------------------------------------------------------------------------
CallerStep == SignalStop \/ StartLoop

LoopStep(l) ==
  \/ CheckWanted(l) \/ Dial(l) \/ Hello(l) \/ SessionsGone(l) \/ Drop(l)
  \/ Recheck(l) \/ Backoff(l) \/ Exit(l) \/ ReadFails(l) \/ Handle(l)

Next ==
  \/ Connect \/ Disconnect \/ Stop \/ RootCancel \/ CallerStep
  \/ \E l \in Loops : LoopStep(l) \/ RemoteDisconnect(l)

\* Goroutines are scheduled, dials and timers return.  Nothing makes a
\* healthy link end before its context is done, nor what a message started
\* return, nor a lingering session end.  A socket the watcher has closed
\* fails the read loop once it comes back to reading, however often it has
\* been away: hence the strong fairness.
Held == {"handle", "linger"}

Fairness ==
  /\ WF_vars(CallerStep)
  /\ \A l \in Loops :
       /\ WF_vars(pc[l] \notin Held \cup {"serve"} /\ LoopStep(l))
       /\ SF_vars(CtxDone(l) /\ ReadFails(l))

Spec == Init /\ [][Next]_vars
FairSpec == Spec /\ Fairness

-----------------------------------------------------------------------------
(* The manager as its users see it: OneLink's worker is the loop m.doneCh  *)
(* belongs to.                                                             *)
Worker ==
  IF \E l \in Loops : Live(l)
  THEN IF \E l \in Loops : pc[l] = "exit" THEN "leaving" ELSE "working"
  ELSE "none"

Told == rootDone \/ gen \in cancelled

Link == INSTANCE OneLink WITH worker <- Worker, told <- Told

(* The manager implements OneLink: whatever the calls, the loops and the   *)
(* remote side do, its users never see two workers, a link without one, or *)
(* a worker that gives up unasked.                                         *)
ImplementsOneLink == Link!Spec

(* Types.                                                                  *)
TypeOK ==
  /\ wanted \in BOOLEAN
  /\ connected \in BOOLEAN
  /\ gen \in 0..MaxLoops
  /\ closed \subseteq Loops
  /\ cancelled \subseteq Loops
  /\ rootDone \in BOOLEAN
  /\ caller \in CallerPoints
  /\ pc \in [Loops -> Running \cup {"none", "gone"}]
  /\ skipped \in BOOLEAN

(* A loop that still runs is the one m.doneCh belongs to, and that channel *)
(* is open: there are never two loops, and Exit never closes a channel     *)
(* twice (a panic that would take the agent down) nor another loop's.      *)
OneLoop == \A l \in Loops : Live(l) => l = gen /\ l \notin closed

(* IsConnected tells the truth: TRUE exactly while a loop holds a socket.  *)
ConnectedIsTrue == connected <=> \E l \in Loops : pc[l] \in Linked

(* The only way to be left with the switch on and no loop that will serve  *)
(* it is a startLoop that found the previous loop still winding down.      *)
ServedUnlessSkipped ==
  caller = "idle" /\ wanted /\ ~rootDone /\ ~skipped
    => \E l \in Loops : Live(l) /\ pc[l] # "exit" /\ l \notin cancelled

(* What the comments of Connect and of maintainTunnel promise ("Connect    *)
(* requests that the tunnel be established"): a manager that was asked to  *)
(* connect has a loop at work.  The code does not keep it.                 *)
WantedIsServed ==
  caller = "idle" /\ wanted /\ ~rootDone => \E l \in Loops : Live(l)

(* A manager that stays switched on goes on trying: it dials again and     *)
(* again, unless one link stays up, is held for ever by what a message     *)
(* started or by a session that outlived it, or startLoop was skipped and  *)
(* the loop it relied on has ended (no later Connect starts another).      *)
Abandoned == skipped /\ ~\E l \in Loops : Live(l)

WantedKeepsTrying ==
  <>[](wanted /\ ~rootDone) =>
    \/ []<>(\E l \in Loops : pc[l] = "dial")
    \/ \E l \in Loops : <>[](pc[l] \in Held \cup {"serve"})
    \/ <>[]Abandoned

(* A loop whose context is done ends, unless what a message made it do     *)
(* never returns, or it is waiting for a session that outlived its link.   *)
CancelledLoopsEnd ==
  \A l \in Loops :
    (Live(l) /\ CtxDone(l)) ~> (pc[l] = "gone" \/ [](pc[l] \in Held))
=============================================================================
