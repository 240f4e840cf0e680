\* A peer that resets the connection during a session.
SPECIFICATION Spec
CONSTANTS
  HeadLen = 2
  LenMod = 4
  Scripts <- Short
INVARIANTS
  SurvivesReset
CHECK_DEADLOCK FALSE
