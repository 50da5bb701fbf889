----------------------------- MODULE MCFindings -----------------------------
(***************************************************************************)
(* Instances of Findings for TLC: two fingerprints, on one target or on    *)
(* one each, and one CVE before and after its addition to KEV.             *)
(***************************************************************************)
EXTENDS Findings, TLC

CONSTANTS f1, f2, t1, t2

JustF1     == f1 :> t1
OneTarget  == f1 :> t1 @@ f2 :> t1
TwoTargets == f1 :> t1 @@ f2 :> t2

Plain  == [kev |-> FALSE, epss |-> 5, cvss |-> 75]
Listed == [kev |-> TRUE,  epss |-> 5, cvss |-> 75]

JustPlain      == {Plain}
PlainAndListed == {Plain, Listed}
=============================================================================
