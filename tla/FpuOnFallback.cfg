SPECIFICATION Spec
CONSTANTS
  Partitions = {"root", "child"}
  Root = "root"
  Parent <- PairParent
  Blocks = {"br", "bc"}
  Areas = {"r1", "c1", "c2"}
  Vidts = {"vr", "vc"}
  NULL = NULL
  BlockOf <- PairBlockOf
  Aligned = {"r1", "c1", "c2"}
  Room <- PairRoom
  BigEnough = {"vr", "vc"}
  Indices <- MCIndices
  CLI_SAVE_INDEX = 8
  STI_SAVE_INDEX = 9
  DOUBLE_FAULT_LEVEL = 10
  Interrupts = {15}
  Faults = {}
  YieldIndices = {0}
  Mappings <- LossyMappings
  VidtChoices <- LossyVidts
  Pointers <- LossyPointers
  UserContexts <- LossyContexts
  InitialMemory <- SoundMemory
INVARIANTS
  FpuPrivate
CHECK_DEADLOCK FALSE
