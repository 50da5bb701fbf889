\* Every short name, every short dictionary answer, every kind of component.
SPECIFICATION Spec
CONSTANTS
  TailLength = 4
  AnswerLength = 2
  Runes <- MCRunes
  Asks <- AllAsks
  Aliases <- MCAliases
  OSPrefixes <- MCPrefixes
  OSSuffixes <- MCSuffixes
  Digits <- MCDigits
INVARIANTS
  TypeOK
  SavedAsScheduled
