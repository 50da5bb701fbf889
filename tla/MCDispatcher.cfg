\* Windows of two events, one channel, two attempts.
SPECIFICATION FairSpec
CONSTANTS
  m1 = m1
  m2 = m2
  f1 = f1
  f2 = f2
  f3 = f3
  Offers <- MCOffers
  Channels = {c1}
  MaxBatch = 2
  Retries = 2
  MinSeverity = "medium"
  MaxEvents = 3
INVARIANTS
  TypeOK
  NoEventStranded
  EachEventOnce
  DedupIsPerWindow
PROPERTIES
  EventuallySettled
  CloseCompletes
  ImplementsOutbox
\* After Close, or with no caller, the dispatcher rests.
CHECK_DEADLOCK FALSE
