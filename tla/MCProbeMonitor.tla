--------------------------- MODULE MCProbeMonitor ---------------------------
(***************************************************************************)
(* An instance of ProbeMonitor for TLC: two targets that share a group,    *)
(* have groups of their own, change from one to the other, or go; one      *)
(* interval is the default and aligned, the other is not.                  *)
(***************************************************************************)
EXTENDS ProbeMonitor, TLC

CONSTANTS t1, t2

MCTargets == {t1, t2}
MCLists == {NoTargets, t1 :> 0 @@ t2 :> 0, t1 :> 0 @@ t2 :> 3}
=============================================================================
