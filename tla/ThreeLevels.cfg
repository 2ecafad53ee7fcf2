SPECIFICATION Spec
CONSTANTS
  Top = 6
  RAM <- ThreeLevelsRAM
  RootPD = 7
  RootKS = 8
  RootBlocks <- ThreeLevelsBlocks
  RootVidt = 1
  Entries = 5
  MaxPrepare = 1
  Regions = {}
  MinBlock = 1
  PDSize = 1
  KSSize = 1
  VidtSize = 1
  PDHomes <- ThreeLevelsPDs
  KSHomes <- ThreeLevelsKSs
  CutPoints = {4, 5, 6}
  VidtPoints = {}
  GrantRights <- ThreeLevelsGrants
  Callers <- ThreeLevelsCallers
INVARIANTS
  KernelDataIsolation
  VerticalSharing
  PartitionTree
  childsBlocksPropsInParent
  accessibleParentPaddrIsAccessibleIntoChild
  accessibleChildPaddrIsAccessibleIntoParent
  AccessibleNoPDFlag
  RightsNeverGrow
  PartitionsIsolation
  noChildImpliesAddressesNotShared
  Consistency
PROPERTIES
  ImplementsAbstract
VIEW LiveData
CHECK_DEADLOCK FALSE
