\* Every command on every kind of machine, with and without a directory base.
SPECIFICATION V2pSpec
CONSTANTS
  Unreadable <- MCUnreadable
  Undefined  <- MCUndefined
  NoDirBase  <- MCNoDirBase
  Nothing    <- MCNothing
  VirtAddrs  <- MCVirtAddrs
  Contents   <- MCContents
  Targets    <- MCTargets
  DirBases   <- MCDirBases
  Requests   <- MCRequests
  PteBases   <- MCPteBases
  PfnBases   <- MCPfnBases
  MaxCalls   = 2
INVARIANTS V2pTypeOK ShownTranslation SelfMapAddresses RecordOfThePage
CHECK_DEADLOCK FALSE
