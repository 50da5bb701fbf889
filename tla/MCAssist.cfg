\* Every evidence in turn, over one change of the finding or the tier.
SPECIFICATION Spec
CONSTANTS
  NoFinding = NoFinding
  SecretKeys <- Secrets
  Values <- AllValues
  maxEvidenceKeys = 1
  maxEvidenceString = 2
  maxEvidenceList = 1
  maxEvidenceDepth = 2
  Findings <- SomeFindings
  Refreshed <- SomeRefreshed
  Texts <- SomeTexts
  MaxRetries = 2
  MaxChanges = 1
INVARIANTS
  TypeOK
  PacketClean
  TierDecidesNow
  NarrationIsQuiet
PROPERTIES
  EveryRequestAnswered
\* The one request is answered and nothing is left to change.
CHECK_DEADLOCK FALSE
