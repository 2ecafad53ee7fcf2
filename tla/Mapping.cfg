SPECIFICATION Spec
CONSTANTS
  Top = 7
  RAM <- MappingRAM
  RootPD = 8
  RootKS = 9
  RootBlocks <- MappingBlocks
  RootVidt = 1
  Entries = 4
  MaxPrepare = 1
  Regions = {0, 1}
  MinBlock = 1
  PDSize = 1
  KSSize = 1
  VidtSize = 2
  PDHomes <- MappingPDs
  KSHomes <- MappingKSs
  CutPoints = {5, 6}
  VidtPoints = {4, 5}
  GrantRights <- MappingGrants
  Callers <- MappingCallers
INVARIANTS
  MPUFromAccessibleBlocks
  Consistency
PROPERTIES
  VIDTInMappedMemory
VIEW LiveData
CHECK_DEADLOCK FALSE
