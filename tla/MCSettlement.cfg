SPECIFICATION SettlementSpec
CONSTANTS
  w1 = w1
  w2 = w2
  Workers = {w1}
  MaxAttempts = 2
  MaxStalls = 1
  MaxReplays = 1
  MaxSubmits = 2
  Legs = 2
  Faults = {"lock lost", "ack lost", "gateway gone"}
  Cost = 2
PROPERTIES
  FailedIsFinal
  LedgerKeepsPromise
  HoldIsReleased
  JobsEnd
CHECK_DEADLOCK FALSE
