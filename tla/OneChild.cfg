SPECIFICATION Spec
CONSTANTS
  Top = 7
  RAM <- OneChildRAM
  RootPD = 8
  RootKS = 9
  RootBlocks <- OneChildBlocks
  RootVidt = 1
  Entries = 5
  MaxPrepare = 2
  Regions = {}
  MinBlock = 1
  PDSize = 1
  KSSize = 1
  VidtSize = 1
  PDHomes <- OneChildPDs
  KSHomes <- OneChildKSs
  CutPoints = {5, 6}
  VidtPoints = {}
  GrantRights <- OneChildGrants
  Callers <- OneChildCallers
INVARIANTS
  TypeOK
  noDupMappedPaddrList
  CutBlocksContiguous
  FreeListExact
  sharedBlockIsInChild
  maxNbPrepareIsMaxNbKernels
VIEW LiveData
CHECK_DEADLOCK FALSE
