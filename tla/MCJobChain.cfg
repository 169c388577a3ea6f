SPECIFICATION Spec
CONSTANTS
  w1 = w1
  Workers = {w1}
  MaxAttempts = 2
  MaxStalls = 1
  MaxReplays = 0
  MaxSubmits = 3
  Legs = 3
  Faults = {}
INVARIANTS
  NoSecondPurchase
CHECK_DEADLOCK FALSE
