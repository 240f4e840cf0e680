SPECIFICATION FairSpec
CONSTANTS
  Functors = {f1, f2, f3}
  Callers = {c1, c2}
INVARIANTS
  NoStrandedFunctor
  WakeupReadable
PROPERTIES
  ImplementsExecutor
  EveryFunctorRuns
  QuitLeaves
CHECK_DEADLOCK FALSE
