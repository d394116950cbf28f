\* Two Translates on one object, as !v2p makes with a directory base.
SPECIFICATION Spec
CONSTANTS
  Unreadable <- MCUnreadable
  Undefined  <- MCUndefined
  VirtAddrs  <- MCTwoVirtAddrs
  Contents   <- MCFewContents
  Targets    <- MCRunningTargets
  DirBases   <- MCTableBases
  MaxCalls   = 2
INVARIANTS ResultIsOfLastWalk
PROPERTIES ImplementsMmu
CHECK_DEADLOCK FALSE
