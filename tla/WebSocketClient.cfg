SPECIFICATION LookupFairSpec
CONSTANTS
  Base = 2
  L7 = 2
  Scripts <- Results
  HttpEnd = 1
  KeyEnd = 2
  RespLen = 3
  DataMax = 13
  ConnectTimeout = 1
  RespondTimeout = 3
  Retries = 3
  Polls = 2
INVARIANTS
  LookupAnswer
  LinkedOnce
  RecvWhole
  RecvLoses
PROPERTIES
  CallsReturn
CHECK_DEADLOCK FALSE
