SPECIFICATION Spec
CONSTANTS
  NumRows = 2
  d1 = d1
  Drainers = {d1}
  BatchSize = 1
  MaxAttempts = 2
  MaxCrashes = 1
  OldRelease = {"other"}
  RevivedKinds = {}
INVARIANTS
  UnknownQueuesWait
CHECK_DEADLOCK FALSE
