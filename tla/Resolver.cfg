SPECIFICATION MCSpec
CONSTANTS
  PkgSeq <- MCPkgSeq
  DepSeq <- MCDepSeq
  NameOf <- MCNameOf
  VersionOf <- MCVersionOf
  PriorityOf <- MCPriorityOf
  SizeOf <- MCSizeOf
  DiskSizeOf <- MCSizeOf
  Providers <- MCProviders
  ExactProviders <- MCExactProviders
  OwnProviders <- MCOwnProviders
  Worlds <- MCWorlds
  Requests <- MCRequests
  NONE = NONE
  MaxInt = 100
  SizeModulus = 100
INVARIANTS
  TypeOK
  RequirementsAreMet
  GoTogether
  RequestsAreHonoured
  NoGratuitousRemovals
  FiguresDecide
  BestIsFirstOfBest
  OnlyBranchesAreSplit
PROPERTIES
  DecisionsStand
  Termination
