\* Does every record that passes the test of the database lie where it is decoded?
SPECIFICATION Spec
CONSTANTS
  Builds   <- MCBuilds
  Fields   <- MCFields
  OffsetIn <- MCOffsetIn
  InfoIn   <- MCInfoIn
  SizeIn   <- MCSizeIn
  Unknown  = 1000000
INVARIANTS RecordInside
CHECK_DEADLOCK FALSE
