SPECIFICATION FairSpec
CONSTANTS
  Letters = {"m"}
  Known = {"m"}
  Patterns <- MCPatterns
INVARIANTS
  TypeOK
  SubstrInRange
PROPERTIES
  TrivialReturns
CHECK_DEADLOCK FALSE
