SPECIFICATION Spec
CONSTANTS
  Partitions = {"root", "child", "grandchild"}
  Root = "root"
  Parent <- ChainParent
  Blocks = {"br", "bc", "bg"}
  Areas = {"r1", "c1", "g1"}
  Vidts = {"vr", "vc", "vg"}
  NULL = NULL
  BlockOf <- ChainBlockOf
  Aligned = {"r1", "c1", "g1"}
  Room <- ChainRoom
  BigEnough = {"vr", "vc", "vg"}
  Indices <- MCIndices
  CLI_SAVE_INDEX = 8
  STI_SAVE_INDEX = 9
  DOUBLE_FAULT_LEVEL = 10
  Interrupts = {15}
  Faults = {4}
  YieldIndices = {0}
  Mappings <- ChainMappings
  VidtChoices <- ChainVidts
  Pointers <- ChainPointers
  UserContexts <- ChainContexts
  InitialMemory <- ChainMemory
PROPERTIES
  InterruptReachesRoot
  FaultReachesAncestor
  FaultHandled
CHECK_DEADLOCK FALSE
