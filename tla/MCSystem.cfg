\* One finding on each of two targets, two workers, two lives of the process.
SPECIFICATION SysSpec
CONSTANTS
  f1 = f1
  f2 = f2
  t1 = t1
  t2 = t2
  Unreported = Unreported
  Malformed = Malformed
  NoRecord = NoRecord
  ModuleID = ModuleID
  Targets = {t1, t2}
  TargetOf <- TwoTargets
  Vulns <- JustPlain
  FPs = {f1, f2}
  Scanners = {s1, s2}
  Users = {}
  ResolveAfter = 1
  Workers = 2
  MaxOverlap = 1
  MaxScans = 3
  StoreFaults = TRUE
  Channels = {c1}
  MaxEnds = 1
INVARIANTS
  SysTypeOK
  ConsumerAgrees
  ExitSettlesAll
PROPERTIES
  NothingRepeated
\* A behaviour ends when the bounds are reached.
CHECK_DEADLOCK FALSE
