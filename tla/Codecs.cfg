\* One step from every input: the conversion runs and its result is checked.
SPECIFICATION Spec
CONSTANTS
  SmallBuffer = 30
  MaxNumericSize = 6
  DateTime = 5
  NestingLimit = 3
INVARIANTS
  KeysAgree
  PaddingReference
  TextInside
  ParsesBack
  StringsSurvive
  LineKept
CHECK_DEADLOCK FALSE
