------------------------------ MODULE Sessions ------------------------------
(***************************************************************************)
(* What one WebSocket connection promises for the sessions it carries      *)
(* (TCP connections to sshd, terminals): a session is opened once and      *)
(* closed once, and the connection is over only when none is left open.    *)
(***************************************************************************)
CONSTANT Ids

VARIABLES
  session,   \* session[s]: "none", "open" or "closed"
  over       \* handleMessages has returned

vars == <<session, over>>

Init == session = [s \in Ids |-> "none"] /\ over = FALSE

Open(s) ==
  /\ ~over /\ session[s] = "none"
  /\ session' = [session EXCEPT ![s] = "open"]
  /\ UNCHANGED over

\* one of them, or all that are known at once
Close(S) ==
  /\ \A s \in S : session[s] = "open"
  /\ session' = [s \in Ids |-> IF s \in S THEN "closed" ELSE session[s]]
  /\ UNCHANGED over

Finish ==
  /\ ~over /\ over' = TRUE
  /\ \A s \in Ids : session[s] # "open"
  /\ UNCHANGED session

Next == Finish \/ (\E s \in Ids : Open(s)) \/ (\E S \in SUBSET Ids : Close(S))
Spec == Init /\ [][Next]_vars
=============================================================================
