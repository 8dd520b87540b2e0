SPECIFICATION FairSpec
CONSTANTS
  Capacity = 3
  Interruptible = TRUE
  Mortal = {"sender", "receiver"}
  Size <- Sizes
CHECK_DEADLOCK FALSE
INVARIANTS
  TypeOK
  BoundariesKept
  WholeUnlessShort
PROPERTY AllDelivered
