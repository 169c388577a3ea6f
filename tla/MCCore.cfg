SPECIFICATION CoreSpec
CONSTANTS
  NumJobs = 2
  MaxBuckets = 3
  MaxTime = 2
  HoldAmounts = {1, 2}
  L0Key = gift
  NoOrder = NoOrder
  NoCycle = NoCycle
  pack = pack
  plan = plan
  gift = gift
  undo = undo
  cycle1 = cycle1
  Keys <- MCKeys
  Orders <- MCKeys
  Cycles = {cycle1}
  GrantCalls <- MCGrantCalls
  ClawbackCalls <- MCClawbackCalls
  NumRows = 2
  d1 = d1
  d2 = d2
  Drainers = {d1, d2}
  BatchSize = 1
  MaxAttempts = 2
  MaxCrashes = 1
  OldRelease = {"settlement", "email", "other"}
  RevivedKinds = {"other"}
  w1 = w1
  w2 = w2
  Workers = {w1, w2}
  RunAttempts = 3
  MaxStalls = 1
  MaxReplays = 1
  MaxSubmits = 3
  Legs = 2
  Faults = {}
SYMMETRY Symmetry
INVARIANTS
  TypesOK
  BucketsWithinCapacity
  HoldsAreBacked
  BooksAgree
  ProcessedWasHandedOver
  HandedOverIntact
  SettledAsFinished
  NoSecondPurchase
PROPERTIES
  NoOverdraft
  HoldsImplemented
  ProcessedIsFinal
  PromiseKept
CHECK_DEADLOCK FALSE
