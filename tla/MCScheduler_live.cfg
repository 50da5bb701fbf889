\* A dead target and a live one.
SPECIFICATION FairSpec
CONSTANTS
  t1 = t1
  t2 = t2
  g1 = g1
  g2 = g2
  g3 = g3
  a1 = a1
  c1 = c1
  Targets = {t1, t2}
  Saved = {t1, t2}
  Dead = {t1}
  Goroutines = {g1, g2}
  Adders = {}
  Callers = {}
  Workers = 1
  RetryBase = 1
  RetryMax = 1
  MaxFailures = 1
PROPERTIES
  StopCompletes
  EveryTargetSwept
CHECK_DEADLOCK FALSE
