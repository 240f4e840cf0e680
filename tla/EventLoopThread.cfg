SPECIFICATION ThreadFairSpec
CONSTANTS
  Functors = {f1, f2}
  Callers = {c1}
  Owner = c1
INVARIANTS
  TidAssertHolds
  LoopUsable
  
PROPERTIES
  OwnerCallsReturn
CHECK_DEADLOCK FALSE
