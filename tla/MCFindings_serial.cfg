\* One worker: scans cannot overlap; status requests interleave with them.
SPECIFICATION Spec
CONSTANTS
  f1 = f1
  f2 = f2
  t1 = t1
  t2 = t2
  Unreported = Unreported
  Malformed = Malformed
  NoRecord = NoRecord
  Targets = {t1}
  TargetOf <- JustF1
  Vulns <- PlainAndListed
  FPs = {f1}
  Scanners = {s1, s2}
  Users = {u1}
  ResolveAfter = 2
  Workers = 1
  MaxOverlap = 2
  MaxScans = 6
  StoreFaults = FALSE
INVARIANTS
  TypeOK
  NothingSilent
  ResolvedOnlyAfterAbsence
PROPERTIES
  OpenedOnlyAfterResolved
\* A behaviour ends when the bound MaxScans is reached.
CHECK_DEADLOCK FALSE
