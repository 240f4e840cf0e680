\* A 64-bit length with one high byte set.
SPECIFICATION Spec
CONSTANTS
  HeadLen = 2
  LenMod = 4
  Scripts <- Oversize
INVARIANTS
  OversizeRefused
CHECK_DEADLOCK FALSE
