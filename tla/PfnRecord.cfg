\* Sessions of commands with symbols that are loaded, exchanged and unloaded.
SPECIFICATION Spec
CONSTANTS
  Builds   <- MCBuilds
  Fields   <- MCFields
  OffsetIn <- MCOffsetIn
  InfoIn   <- MCInfoIn
  SizeIn   <- MCSizeIn
  Unknown  = 1000000
INVARIANTS AskedOnce OneBuildDecodes
CHECK_DEADLOCK FALSE
