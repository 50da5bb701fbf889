\* Overlapping scans of one target, status requests and store errors.
SPECIFICATION Spec
CONSTANTS
  f1 = f1
  f2 = f2
  t1 = t1
  t2 = t2
  Unreported = Unreported
  Malformed = Malformed
  NoRecord = NoRecord
  Targets = {t1}
  TargetOf <- OneTarget
  Vulns <- JustPlain
  FPs = {f1, f2}
  Scanners = {s1, s2}
  Users = {u1}
  ResolveAfter = 1
  Workers = 2
  MaxOverlap = 2
  MaxScans = 2
  StoreFaults = TRUE
INVARIANTS
  ResolvedHasTime
PROPERTIES
  IdentityStable
\* A behaviour ends when the bound MaxScans is reached.
CHECK_DEADLOCK FALSE
