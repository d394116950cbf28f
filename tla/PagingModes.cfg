\* Every machine and both constructors, one Translate of any kind of walk.
SPECIFICATION Spec
CONSTANTS
  Unreadable <- MCUnreadable
  Undefined  <- MCUndefined
  VirtAddrs  <- MCVirtAddrs
  Contents   <- MCContents
  Targets    <- MCTargets
  DirBases   <- MCAliasedBases
  MaxCalls   = 1
INVARIANTS TypeOK TranslationCorrect RegistersSelectTables
CHECK_DEADLOCK FALSE
