SPECIFICATION MPUSpec
CONSTANTS
  Top = 8
  RAM <- MPURAM
  RootPD = 9
  RootKS = 10
  RootBlocks <- MPUBlocks
  RootVidt = 1
  Entries = 4
  MaxPrepare = 1
  Regions <- MPURegions
  MinBlock = 1
  PDSize = 1
  KSSize = 1
  VidtSize = 1
  PDHomes <- MPUPDs
  KSHomes <- MPUKSs
  CutPoints = {8}
  VidtPoints = {}
  GrantRights <- MPUGrants
  Callers <- MPUCallers
  NoInstr = NoInstr
  Instructions <- MPUInstructions
  RegionArgs <- MPURegionArgs
INVARIANTS
  MPUTypeOK
  LUTFollowsMPU
  RegistersFollowLUT
PROPERTIES
  NoFalseFault
  AccessServed
VIEW MPUView
CHECK_DEADLOCK FALSE
