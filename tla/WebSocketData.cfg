SPECIFICATION FairSpec
CONSTANTS
  HeadLen = 2
  LenMod = 4
  Scripts <- Sessions
INVARIANTS
  PayloadIntact
  InSync
PROPERTIES
  ReplyProtocol
  SessionEnds
CHECK_DEADLOCK FALSE
