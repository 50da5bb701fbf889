------------------------------ MODULE MCSystem ------------------------------
(***************************************************************************)
(* Instances of System for TLC: one finding on one target, or one on each  *)
(* of two targets.                                                         *)
(***************************************************************************)
EXTENDS System, TLC

CONSTANTS f1, f2, t1, t2

JustF1     == f1 :> t1
TwoTargets == f1 :> t1 @@ f2 :> t2

JustPlain == {[kev |-> FALSE, epss |-> 5, cvss |-> 75]}
=============================================================================
