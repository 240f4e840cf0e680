\* Four items, the names "a" and "A"; addresses are interchangeable.
SPECIFICATION MCSpec
CONSTANTS
  Items = {i1, i2, i3, i4}
  Nil = Nil
  Letters = {"a"}
  MaxCount = 2
  MaxContainers = 2
  MaxObjects = 1
  MaxAstray = 1
  MaxMarked = 2
SYMMETRY Addresses
INVARIANTS
  ListsLinked
  OwnedOnce
  NamesFreedRight
PROPERTY
  ImplementsForest
CHECK_DEADLOCK FALSE
