------------------------- MODULE ConnManager_proofs -------------------------
(***************************************************************************)
(* Proofs about the connection manager, for any number of loops: types,    *)
(* the safety invariants of ConnManager, and that it implements OneLink.   *)
(***************************************************************************)
EXTENDS ConnManager, TLAPS

(* Loops are numbered in the order they start, and all but the last are    *)
(* gone; the closed channels are those of the loops that are gone.         *)
Generations ==
  /\ \A l \in Loops : l > gen <=> pc[l] = "none"
  /\ \A l \in Loops : l < gen => pc[l] = "gone"
  /\ closed = {l \in Loops : pc[l] = "gone"}
  /\ cancelled \subseteq 1..gen
  /\ caller = "starting" => gen < MaxLoops

LinkHeld == connected <=> gen # 0 /\ pc[gen] \in Linked

SwitchedOff == caller \in {"disconnecting", "stopping", "stopped"} => ~wanted

Serving ==
  wanted /\ caller # "starting" /\ ~rootDone /\ ~skipped
    => gen # 0 /\ Live(gen) /\ pc[gen] # "exit" /\ gen \notin cancelled

IInv == TypeOK /\ Generations /\ LinkHeld /\ SwitchedOff /\ Serving

LoopAction(l) == LoopStep(l) \/ RemoteDisconnect(l)

USE MaxLoopsAssumption DEF Loops
-----------------------------------------------------------------------------
LEMMA InitIInv == Init => IInv
<1> SUFFICES ASSUME Init PROVE IInv
    OBVIOUS
<1> USE DEF Init
<1>1. TypeOK
  <2>1. pc \in [Loops -> Running \cup {"none", "gone"}]
        OBVIOUS
  <2>2. gen \in 0..MaxLoops /\ closed \subseteq Loops /\ cancelled \subseteq Loops
        OBVIOUS
  <2>3. caller \in CallerPoints
        BY DEF CallerPoints
  <2>4. /\ wanted \in BOOLEAN /\ connected \in BOOLEAN
        /\ rootDone \in BOOLEAN /\ skipped \in BOOLEAN
        OBVIOUS
  <2> QED BY <2>1, <2>2, <2>3, <2>4 DEF TypeOK
<1>2. Generations
      BY DEF Generations
<1>3. LinkHeld /\ SwitchedOff /\ Serving
      BY DEF LinkHeld, SwitchedOff, Serving
<1> QED BY <1>1, <1>2, <1>3 DEF IInv

(* A loop that takes a step is the last one started. *)
LEMMA StepsAreOfTheLastLoop ==
  ASSUME IInv, NEW l \in Loops, pc[l] \in Running
  PROVE  l = gen
  BY DEF IInv, TypeOK, Generations, Running, Linked

LEMMA NextIInv == IInv /\ [Next]_vars => IInv'
<1> SUFFICES ASSUME IInv, [Next]_vars PROVE IInv'
    OBVIOUS
<1> USE DEF IInv, TypeOK, Generations, LinkHeld, SwitchedOff, Serving
<1>1. CASE Connect
      BY <1>1 DEF Connect, CallerPoints
<1>2. CASE Disconnect
      BY <1>2 DEF Disconnect, CallerPoints
<1>3. CASE Stop
      BY <1>3 DEF Stop, CallerPoints
<1>4. CASE SignalStop
      BY <1>4 DEF SignalStop, CallerPoints
<1>5. CASE StartLoop
  <2>1. CASE PreviousStopped /\ gen' = gen + 1
             /\ pc' = [pc EXCEPT ![gen'] = "check"] /\ skipped' = FALSE
    <3>1. /\ gen' \in Loops /\ pc[gen'] = "none" /\ pc'[gen'] = "check"
          /\ \A l \in Loops : l # gen' => pc'[l] = pc[l]
          /\ caller = "starting" /\ caller' = "idle"
          /\ UNCHANGED <<wanted, connected, closed, cancelled, rootDone>>
          BY <1>5, <2>1 DEF StartLoop
    <3>2. gen # 0 => pc[gen] = "gone"
          BY <2>1 DEF PreviousStopped
    <3>3. TypeOK'
      <4>1. pc' \in [Loops -> Running \cup {"none", "gone"}]
            BY <2>1, <3>1 DEF Running
      <4>2. gen' \in 0..MaxLoops /\ caller' \in CallerPoints
            BY <3>1 DEF CallerPoints
      <4> QED BY <2>1, <3>1, <4>1, <4>2
    <3>4. Generations'
          BY <2>1, <3>1, <3>2
    <3>5. LinkHeld'
          BY <3>1, <3>2 DEF Linked
    <3>6. SwitchedOff' /\ Serving'
          BY <2>1, <3>1 DEF Live, Running
    <3> QED BY <3>3, <3>4, <3>5, <3>6
  <2>2. CASE ~PreviousStopped /\ skipped' = TRUE /\ UNCHANGED <<gen, pc>>
        BY <1>5, <2>2 DEF StartLoop, CallerPoints
  <2> QED BY <1>5, <2>1, <2>2 DEF StartLoop
<1>6. CASE RootCancel
      BY <1>6 DEF RootCancel
<1>7. ASSUME NEW l \in Loops, LoopAction(l) PROVE IInv'
  <2>1. l = gen /\ pc[l] \in Running
        BY <1>7 DEF LoopAction, LoopStep, RemoteDisconnect, CheckWanted, Dial,
           Hello, ReadFails, SessionsGone, Drop, Recheck, Backoff, Exit, Handle,
           Goto, Running, Linked
  <2> USE <2>1 DEF Goto, Running, Linked, Live, CallerPoints
  <2>2. CASE CheckWanted(l)      BY <2>2 DEF CheckWanted
  <2>3. CASE Dial(l)
    <3>1. CASE Goto(l, "dial", "hello") /\ connected' = TRUE
          BY <2>3, <3>1 DEF Dial
    <3>2. CASE Goto(l, "dial", "recheck") /\ UNCHANGED connected
          BY <2>3, <3>2 DEF Dial
    <3> QED BY <2>3, <3>1, <3>2 DEF Dial
  <2>4. CASE Hello(l)            BY <2>4 DEF Hello
  <2>5. CASE ReadFails(l)        BY <2>5 DEF ReadFails
  <2>6. CASE RemoteDisconnect(l) BY <2>6 DEF RemoteDisconnect
  <2>7. CASE SessionsGone(l)     BY <2>7 DEF SessionsGone
  <2>8. CASE Drop(l)             BY <2>8 DEF Drop
  <2>9. CASE Recheck(l)          BY <2>9 DEF Recheck
  <2>10. CASE Backoff(l)         BY <2>10 DEF Backoff, CtxDone
  <2>11. CASE Exit(l)            BY <2>11 DEF Exit
  <2>12. CASE Handle(l)          BY <2>12 DEF Handle
  <2> QED BY <1>7, <2>2, <2>3, <2>4, <2>5, <2>6, <2>7, <2>8, <2>9, <2>10, <2>11,
             <2>12
          DEF LoopAction, LoopStep
<1>8. CASE UNCHANGED vars
      BY <1>8 DEF vars, Live
<1> QED BY <1>1, <1>2, <1>3, <1>4, <1>5, <1>6, <1>7, <1>8
        DEF Next, CallerStep, LoopAction

LEMMA Invariance == Spec => []IInv
  BY InitIInv, NextIInv, PTL DEF Spec

-----------------------------------------------------------------------------
(* Every reachable state is well typed. *)
THEOREM Typing == Spec => []TypeOK
  BY Invariance, PTL DEF IInv

(* There is never a second loop, and no done channel is closed twice: the  *)
(* check of m.doneCh in startLoop is enough.                               *)
THEOREM AtMostOneLoop == Spec => []OneLoop
<1>1. IInv => OneLoop
      BY StepsAreOfTheLastLoop DEF OneLoop, Live, IInv, Generations, Running,
         Linked
<1> QED BY <1>1, Invariance, PTL

(* IsConnected is TRUE exactly while a loop holds a socket. *)
THEOREM ConnectedMeansLinked == Spec => []ConnectedIsTrue
<1>1. IInv => ConnectedIsTrue
  <2> SUFFICES ASSUME IInv PROVE ConnectedIsTrue
      OBVIOUS
  <2>1. \A l \in Loops : pc[l] \in Linked => l = gen
        BY StepsAreOfTheLastLoop DEF Running
  <2>2. gen # 0 => gen \in Loops
        BY DEF IInv, TypeOK
  <2>3. \A l \in Loops : l # 0
        OBVIOUS
  <2> QED BY <2>1, <2>2, <2>3 DEF IInv, LinkHeld, ConnectedIsTrue
<1> QED BY <1>1, Invariance, PTL

(* A manager that was asked to connect is served, except after a startLoop *)
(* that found the previous loop winding down.                              *)
THEOREM ServedOrSkipped == Spec => []ServedUnlessSkipped
<1>1. IInv => ServedUnlessSkipped
      BY DEF IInv, TypeOK, Serving, ServedUnlessSkipped
<1> QED BY <1>1, Invariance, PTL

-----------------------------------------------------------------------------
(* OneLink's worker, read off the last loop alone. *)
LastWorker ==
  IF gen # 0 /\ pc[gen] \in Running
  THEN IF pc[gen] = "exit" THEN "leaving" ELSE "working"
  ELSE "none"

LEMMA WorkerIsLast == IInv => Worker = LastWorker
<1> SUFFICES ASSUME IInv PROVE Worker = LastWorker
    OBVIOUS
<1>1. \A l \in Loops : pc[l] \in Running => l = gen
      BY StepsAreOfTheLastLoop
<1>2. gen # 0 <=> gen \in Loops
      BY DEF IInv, TypeOK
<1>3. "exit" \in Running
      BY DEF Running
<1> QED BY <1>1, <1>2, <1>3 DEF Worker, LastWorker, Live

LEMMA InitImplements == Init => Link!Init
  BY DEF Init, Link!Init, Worker, Told, Live, Running, Linked

LEMMA NextImplements ==
  ASSUME IInv, IInv', [Next]_vars, Worker = LastWorker, Worker' = LastWorker'
  PROVE  [Link!Next]_Link!vars
<1> USE DEF IInv, TypeOK, LastWorker, Told, Link!vars
<1>1. CASE Connect \/ Disconnect
      BY <1>1 DEF Connect, Disconnect, Link!Next, Link!Switch
<1>2. CASE Stop
      BY <1>2 DEF Stop, Link!Next, Link!Switch
<1>3. CASE SignalStop
      BY <1>3 DEF SignalStop, Link!Next, Link!Tell
<1>4. CASE StartLoop
  <2>1. CASE PreviousStopped /\ gen' = gen + 1
             /\ pc' = [pc EXCEPT ![gen'] = "check"]
    <3>1. Worker = "none"
          BY <2>1 DEF PreviousStopped, Generations, Running, Linked
    <3>2. gen' \in Loops /\ pc'[gen'] = "check"
          BY <1>4, <2>1 DEF StartLoop, Generations
    <3>3. Worker' = "working"
          BY <3>2 DEF Running
    <3>4. Told' \in {FALSE, Told}
      <4>1. gen' \notin cancelled'
            BY <1>4, <2>1 DEF StartLoop, Generations
      <4>2. rootDone' = rootDone
            BY <1>4 DEF StartLoop
      <4> QED BY <4>1, <4>2
    <3> QED BY <1>4, <3>1, <3>3, <3>4 DEF StartLoop, Link!Next, Link!Begin
  <2>2. CASE UNCHANGED <<gen, pc>>
        BY <1>4, <2>2 DEF StartLoop
  <2> QED BY <1>4, <2>1, <2>2 DEF StartLoop
<1>5. CASE RootCancel
      BY <1>5 DEF RootCancel, Link!Next, Link!Tell
<1>6. ASSUME NEW l \in Loops, LoopAction(l) PROVE [Link!Next]_Link!vars
  <2>1. l = gen /\ pc[l] \in Running
        BY <1>6, StepsAreOfTheLastLoop DEF LoopAction, LoopStep,
           RemoteDisconnect, CheckWanted, Dial, Hello, ReadFails, SessionsGone,
           Drop, Recheck, Backoff, Exit, Handle, Goto, Running, Linked
  <2> USE <2>1 DEF Goto, Running, Linked, LinkHeld, Link!Next
  <2>2. CASE CheckWanted(l)      BY <2>2 DEF CheckWanted, Link!Leave
  <2>3. CASE Dial(l)             BY <2>3 DEF Dial, Link!Up
  <2>4. CASE Hello(l)            BY <2>4 DEF Hello
  <2>5. CASE ReadFails(l)        BY <2>5 DEF ReadFails
  <2>6. CASE RemoteDisconnect(l) BY <2>6 DEF RemoteDisconnect, Link!Switch
  <2>7. CASE SessionsGone(l)     BY <2>7 DEF SessionsGone
  <2>8. CASE Drop(l)             BY <2>8 DEF Drop, Link!Down
  <2>9. CASE Recheck(l)          BY <2>9 DEF Recheck, Link!Leave
  <2>10. CASE Backoff(l)         BY <2>10 DEF Backoff, CtxDone, Link!Leave
  <2>11. CASE Exit(l)            BY <2>11 DEF Exit, Link!End
  <2>12. CASE Handle(l)          BY <2>12 DEF Handle
  <2> QED BY <1>6, <2>2, <2>3, <2>4, <2>5, <2>6, <2>7, <2>8, <2>9, <2>10, <2>11,
             <2>12
          DEF LoopAction, LoopStep
<1>7. CASE UNCHANGED vars
      BY <1>7 DEF vars
<1> QED BY <1>1, <1>2, <1>3, <1>4, <1>5, <1>6, <1>7
        DEF Next, CallerStep, LoopAction

(* The manager implements OneLink. *)
THEOREM Refinement == Spec => ImplementsOneLink
<1> DEFINE Seen == Worker = LastWorker
<1>1. IInv => Seen
      BY WorkerIsLast
<1>2. (IInv /\ Seen) /\ (IInv /\ Seen)' /\ [Next]_vars
        => [Link!Next]_Link!vars
      BY NextImplements
<1> HIDE DEF Seen
<1> QED BY <1>1, <1>2, InitImplements, Invariance, PTL
        DEF Spec, ImplementsOneLink, Link!Spec
=============================================================================
