SPECIFICATION Spec
CONSTANTS
  Top = 6
  RAM <- CollectRAM
  RootPD = 7
  RootKS = 8
  RootBlocks <- CollectBlocks
  RootVidt = 1
  Entries = 4
  MaxPrepare = 2
  Regions = {}
  MinBlock = 1
  PDSize = 1
  KSSize = 1
  VidtSize = 1
  PDHomes <- CollectPDs
  KSHomes <- CollectKSs
  CutPoints = {3, 4, 5, 6}
  VidtPoints = {}
  GrantRights <- CollectGrants
  Callers <- AnyCollectCallers
INVARIANTS
  inclFreeSlotsBlockEntries
VIEW LiveData
CHECK_DEADLOCK FALSE
