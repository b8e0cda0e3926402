------------------------------ MODULE Verifier ------------------------------
(***************************************************************************)
(* Signed messages, internal/auth/verifier.go: a message is accepted if    *)
(* its timestamp is within Skew seconds of the clock, its nonce is not in  *)
(* the table, and its signature is right.  Verify reads the clock twice,   *)
(* once for the timestamp and, under the lock, once for the expiry of the  *)
(* nonce; time passes and the table is cleaned up in between.              *)
(*                                                                         *)
(* A nonce names the one message the backend has signed with it, which may *)
(* arrive more than once.  A signature is only right or wrong.             *)
(***************************************************************************)
EXTENDS Integers, Sequences

CONSTANTS
  Callers,   \* goroutines that call Verify: the terminal and the file reader
  Nonces,
  Skew,      \* MaxTimestampSkew, 30 s
  TTL,       \* nonceTTL, 60 s
  MaxClock   \* bound: seconds

ASSUME VerifierAssumption ==
  Skew \in Nat /\ TTL \in Nat \ {0} /\ MaxClock \in Nat

NotSigned == -1

VARIABLES
  clock,     \* time.Now().Unix()
  nonces,    \* Verifier.nonces: expiry of each nonce, 0 if it is not there
  stamp,     \* the timestamp of the message signed with a nonce
  calls,     \* of each caller: the Verify it is in, between its two clocks
  accepted   \* history: the calls of Verify that accepted a nonce, in order

verifierVars == <<clock, nonces, stamp, calls, accepted>>

NoCall == [nonce |-> "", right |-> FALSE, at |-> 0]

VerifierInit ==
  /\ clock = 0
  /\ nonces = [n \in Nonces |-> 0]
  /\ stamp = [n \in Nonces |-> NotSigned]
  /\ calls = [c \in Callers |-> NoCall]
  /\ accepted = [n \in Nonces |-> <<>>]

Tick ==
  /\ clock < MaxClock /\ clock' = clock + 1
  /\ UNCHANGED <<nonces, stamp, calls, accepted>>

\* the backend signs a message, by a clock of its own
Sign(n, s) ==
  /\ stamp[n] = NotSigned
  /\ stamp' = [stamp EXCEPT ![n] = s]
  /\ UNCHANGED <<clock, nonces, calls, accepted>>

InWindow(n) == clock - stamp[n] <= Skew /\ stamp[n] - clock <= Skew

\* Verify up to the check of the timestamp; a refusal ends it there
Verify(c, n, right) ==
  /\ calls[c] = NoCall /\ stamp[n] # NotSigned /\ InWindow(n)
  /\ calls' = [calls EXCEPT ![c] = [nonce |-> n, right |-> right, at |-> clock]]
  /\ UNCHANGED <<clock, nonces, stamp, accepted>>

Fresh(c)   == nonces[calls[c].nonce] = 0
Accepts(c) == Fresh(c) /\ calls[c].right

\* recordNonce, then the signature: a wrong one has used up its nonce
Record(c) ==
  /\ calls[c] # NoCall
  /\ calls' = [calls EXCEPT ![c] = NoCall]
  /\ nonces' = IF Fresh(c) THEN [nonces EXCEPT ![calls[c].nonce] = clock + TTL]
                           ELSE nonces
  /\ accepted' = IF Accepts(c)
       THEN [accepted EXCEPT ![calls[c].nonce] =
               Append(@, [checked |-> calls[c].at, recorded |-> clock])]
       ELSE accepted
  /\ UNCHANGED <<clock, stamp>>

CleanupEarly ==      \* mutation: those that expire within a second, too
  /\ nonces' = [n \in Nonces |-> IF clock + 1 >= nonces[n] THEN 0 ELSE nonces[n]]
  /\ UNCHANGED <<clock, stamp, calls, accepted>>

\* one round of cleanupLoop; its ticker runs at any phase
Cleanup ==
  /\ nonces' = [n \in Nonces |-> IF clock >= nonces[n] THEN 0 ELSE nonces[n]]
  /\ UNCHANGED <<clock, stamp, calls, accepted>>

VerifierNext ==
  \/ Tick \/ Cleanup
  \/ \E n \in Nonces, s \in Nat : Sign(n, s)
  \/ \E c \in Callers : Record(c) \/ \E n \in Nonces, right \in BOOLEAN : Verify(c, n, right)

VerifierSpec == VerifierInit /\ [][VerifierNext]_verifierVars

-----------------------------------------------------------------------------
Acceptance == [checked : Nat, recorded : Nat]

\* The table and the calls under way are well-formed.
VerifierTypeOK ==
  /\ clock \in Nat
  /\ nonces \in [Nonces -> Nat]
  /\ stamp \in [Nonces -> Nat \cup {NotSigned}]
  /\ calls \in [Callers -> [nonce : Nonces \cup {""}, right : BOOLEAN, at : Nat]]
  /\ accepted \in [Nonces -> Seq(Acceptance)]

\* A message that is accepted a second time was stamped ahead of the clock that
\* accepted it first, and the second Verify was held up between its clocks, by
\* TTL - Skew seconds together: never if both keep below half of the Skew that
\* the code has (TTL is twice the Skew).
AcceptedAgain ==
  \A n \in Nonces : \A i, j \in 1..Len(accepted[n]) :
    i < j =>
      LET ahead  == stamp[n] - accepted[n][i].checked
          heldUp == accepted[n][j].recorded - accepted[n][j].checked
      IN  ahead + heldUp >= TTL - Skew
=============================================================================
