\* Listings of three threads while any call of the engine may fail.
SPECIFICATION Spec
CONSTANTS
  Builds     <- MCBuilds
  Fields     <- MCFields
  OffsetIn   <- MCOffsetIn
  InfoIn     <- MCInfoIn
  Unknown    = 1000000
  ThreadList <- MCThreadList
  Machines   <- MCMachines
  MaxGarbage = 4
  MaxFailures = 2
  MaxChanges = 2
INVARIANTS TypeOK ThreadRestored RowsAreThreads LayoutOfTheTeb
PROPERTIES TsEnds
