\* Is every translation that succeeds shown?
SPECIFICATION V2pSpec
CONSTANTS
  Unreadable <- MCUnreadable
  Undefined  <- MCUndefined
  NoDirBase  <- MCNoDirBase
  Nothing    <- MCNothing
  VirtAddrs  <- MCVirtAddrs
  Contents   <- MCContents
  Targets    <- MCTargets
  DirBases   <- MCDirBases
  Requests   <- MCRequests
  PteBases   <- MCPteBases
  PfnBases   <- MCPfnBases
  MaxCalls   = 2
INVARIANTS TranslationIsShown
CHECK_DEADLOCK FALSE
