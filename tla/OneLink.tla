------------------------------ MODULE OneLink ------------------------------
(***************************************************************************)
(* What a connection manager promises, whatever its loops, channels and    *)
(* contexts do: a switch, at most one worker, a link that only a worker    *)
(* holds, and a worker that gives up only if the switch is off or it was   *)
(* told to stop, and only after it has let go of the link.                 *)
(***************************************************************************)
VARIABLES
  wanted,    \* the switch
  worker,    \* "none", "working" or "leaving"
  told,      \* the worker has been told to stop
  connected  \* the worker holds a link

vars == <<wanted, worker, told, connected>>

Init == wanted = FALSE /\ worker = "none" /\ told = FALSE /\ connected = FALSE

Switch == wanted' = ~wanted /\ UNCHANGED <<worker, told, connected>>
Tell   == told' = TRUE /\ UNCHANGED <<wanted, worker, connected>>

Begin ==
  /\ worker = "none" /\ worker' = "working"
  /\ told' \in {FALSE, told}
  /\ UNCHANGED <<wanted, connected>>

Up ==
  /\ worker = "working" /\ ~connected /\ connected' = TRUE
  /\ UNCHANGED <<wanted, worker, told>>

Down == connected /\ connected' = FALSE /\ UNCHANGED <<wanted, worker, told>>

Leave ==
  /\ worker = "working" /\ ~connected
  /\ ~wanted \/ told
  /\ worker' = "leaving"
  /\ UNCHANGED <<wanted, told, connected>>

End ==
  /\ worker = "leaving" /\ worker' = "none"
  /\ UNCHANGED <<wanted, told, connected>>

Next == Switch \/ Tell \/ Begin \/ Up \/ Down \/ Leave \/ End
Spec == Init /\ [][Next]_vars
=============================================================================
