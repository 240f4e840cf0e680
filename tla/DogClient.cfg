SPECIFICATION FairSpec
CONSTANTS
  NumThreads = 2
  NumFiles = 4
  Packets = 4
  Window = 2
  SleepSuffices = TRUE
INVARIANTS
  NoEarlyClose
  NoStaleEvent
  EndsLast
PROPERTIES
  Ends
CHECK_DEADLOCK FALSE
