SPECIFICATION Spec
CONSTANTS
  PkgSeq <- MCPkgSeq
  DepSeq <- MCDepSeq
  NameOf <- MCNameOf
  VersionOf <- MCVersionOf
  PriorityOf <- MCPriorityOf
  SizeOf <- MCSizeOf
  DiskSizeOf <- MCSizeOf
  Providers <- MCProviders
  ExactProviders <- MCExactProviders
  OwnProviders <- MCOwnProviders
  Worlds <- SharedWorlds
  Requests <- SharedRequests
  NONE = NONE
  MaxInt = 100
  SizeModulus = 100
INVARIANT LargerBranchesCanBeDropped
