\* One scan, one finding: the shutdown against a scan with changes in hand.
SPECIFICATION SysSpec
CONSTANTS
  f1 = f1
  f2 = f2
  t1 = t1
  t2 = t2
  Unreported = Unreported
  Malformed = Malformed
  NoRecord = NoRecord
  ModuleID = ModuleID
  Targets = {t1}
  TargetOf <- JustF1
  Vulns <- JustPlain
  FPs = {f1}
  Scanners = {s1}
  Users = {}
  ResolveAfter = 1
  Workers = 1
  MaxOverlap = 1
  MaxScans = 1
  StoreFaults = FALSE
  Channels = {c1}
  MaxEnds = 1
INVARIANTS
  ExitLosesNothing
\* A behaviour ends when the bounds are reached.
CHECK_DEADLOCK FALSE
