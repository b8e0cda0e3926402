---------------------------- MODULE ResultQueue ----------------------------
(***************************************************************************)
(* What the agent promises for probe results, whatever its reports meet:   *)
(* a queue.  Results enter at the back in the order they are produced and  *)
(* leave from the front, acknowledged or given up; none leaves twice.      *)
(***************************************************************************)
EXTENDS Functions, Sequences

VARIABLES
  produced,   \* results produced so far, numbered 1, 2, ...
  queue,      \* those that have not left
  acked,      \* those the backend has acknowledged
  dropped     \* those given up

vars == <<produced, queue, acked, dropped>>

Init == produced = 0 /\ queue = <<>> /\ acked = {} /\ dropped = {}

Produce ==
  /\ produced' = produced + 1
  /\ queue' = Append(queue, produced')
  /\ UNCHANGED <<acked, dropped>>

Front(n) == Range(SubSeq(queue, 1, n))
Leave(n) == queue' = SubSeq(queue, n + 1, Len(queue)) /\ UNCHANGED produced

Acknowledge(n) == Leave(n) /\ acked' = acked \cup Front(n) /\ UNCHANGED dropped
GiveUp(n)      == Leave(n) /\ dropped' = dropped \cup Front(n) /\ UNCHANGED acked

Next == Produce \/ \E n \in 1..Len(queue) : Acknowledge(n) \/ GiveUp(n)
Spec == Init /\ [][Next]_vars
=============================================================================
