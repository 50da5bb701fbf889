\* A status request during a scan.
SPECIFICATION Spec
CONSTANTS
  f1 = f1
  f2 = f2
  t1 = t1
  t2 = t2
  Unreported = Unreported
  Malformed = Malformed
  NoRecord = NoRecord
  Targets = {t1}
  TargetOf <- JustF1
  Vulns <- JustPlain
  FPs = {f1}
  Scanners = {s1}
  Users = {u1}
  ResolveAfter = 1
  Workers = 1
  MaxOverlap = 1
  MaxScans = 2
  StoreFaults = FALSE
PROPERTIES
  SuppressedIsTheUsersCall
\* A behaviour ends when the bound MaxScans is reached.
CHECK_DEADLOCK FALSE
