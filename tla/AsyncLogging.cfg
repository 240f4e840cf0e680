SPECIFICATION FairSpec
CONSTANTS
  MaxLines = 9
  Capacity = 2
  MaxBacklog = 3
  Null = Null
INVARIANTS
  NoAssertFails
  LinesConserved
PROPERTIES
  BackendKeepsUp
CHECK_DEADLOCK FALSE
