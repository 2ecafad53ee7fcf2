SPECIFICATION Spec
CONSTANTS
  W = 7
  Rounds = 12
  MemoryEnd = 64
  Grain = 2
  AtTheEnd = FALSE
INVARIANTS
  RegionInBlock
  RegionAligned
  RegionLargest
PROPERTIES
  Termination
CHECK_DEADLOCK FALSE
