------------------------------ MODULE MCFeeds -------------------------------
(***************************************************************************)
(* Instances of Feeds for TLC.                                             *)
(***************************************************************************)
EXTENDS Feeds, TLC

CONSTANTS s1, s2, s3, i1, i2, v1, v2

\* Scans are interchangeable.
ScanSymmetry == Permutations(Scans)

\* Every item is affected by every CVE.
SharedCVEs == [i \in Items |-> CVEs]
=============================================================================
