------------------------------ MODULE Priority ------------------------------
(***************************************************************************)
(* The priority model of patchlight/patchlight.go: how the three signals   *)
(* of an enriched CVE (on CISA KEV, EPSS probability, CVSS base score)     *)
(* become a severity, and how core and notify order severities.            *)
(*                                                                         *)
(* EPSS is kept in hundredths (0..100 for 0.00..1.00) and CVSS in tenths   *)
(* (0..100 for 0.0..10.0), so that the code's float thresholds 0.5, 0.1,   *)
(* 9.0 and 7.0 are the integers 50, 10, 90 and 70.                         *)
(***************************************************************************)
EXTENDS Naturals

\* The signals of a Vuln that Rank looks at.
Vuln == [kev : BOOLEAN, epss : 0..100, cvss : 0..100]

Severity == {"critical", "high", "medium", "low", "info"}

\* Rank: the first case that applies decides.
Rank(v) ==
  IF v.kev THEN "critical"
  ELSE IF v.epss >= 50 \/ (v.cvss >= 90 /\ v.epss >= 10) THEN "high"
  ELSE IF v.cvss >= 70 THEN "medium"
  ELSE "low"

\* The total order on severities that the dispatcher sorts and filters by.
severityRank(s) ==
  CASE s = "critical" -> 4
    [] s = "high"     -> 3
    [] s = "medium"   -> 2
    [] s = "low"      -> 1
    [] OTHER          -> 0

=============================================================================
