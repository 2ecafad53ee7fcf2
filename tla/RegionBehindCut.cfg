SPECIFICATION Spec
CONSTANTS
  W = 7
  Rounds = 12
  MemoryEnd = 64
  Grain = 2
  AtTheEnd = TRUE
INVARIANTS
  RegionWithinBlock
CHECK_DEADLOCK FALSE
