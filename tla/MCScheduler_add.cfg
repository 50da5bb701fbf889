\* One target, everything that can scan it.
SPECIFICATION FairSpec
CONSTANTS
  t1 = t1
  t2 = t2
  g1 = g1
  g2 = g2
  g3 = g3
  a1 = a1
  c1 = c1
  Targets = {t1}
  Saved = {t1}
  Dead = {}
  Goroutines = {g1, g2}
  Adders = {a1}
  Callers = {c1}
  Workers = 1
  RetryBase = 1
  RetryMax = 2
  MaxFailures = 2
INVARIANTS
  TypeOK
  SlotsAccounted
  BackoffEarned
  StopEndsSweeps
PROPERTIES
  AddedIsScanned
