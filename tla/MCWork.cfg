SPECIFICATION Spec
CONSTANTS
  r1 = r1
  r2 = r2
  r3 = r3
  sameKey = sameKey
  otherKey = otherKey
  j1 = j1
  j2 = j2
  t1 = t1
  t2 = t2
  e1 = e1
  e2 = e2
  None = None
  Requests = {r1, r2, r3}
  KeyOf <- MCKeyOf
  Jobs = {j1, j2}
  MaxRows = 3
  Worst = 2
  Bills = {0, 3}
  Price = 3
  Cap = 5
  Runs = {1, 2}
  Tabs = {t1, t2}
  Edits = {e1, e2}
  MaxRev = 2
  Works = {1}
INVARIANTS
  TypesOK
  OneChargePerKey
  OwedIsHeld
  LossesAreBooked
PROPERTIES
  HoldsSettle
  ApprovedUnderCap
  BookingsClose
  RenderOutcomeStands
  NothingSavedIsLost
  ReapedInOrder
CHECK_DEADLOCK FALSE
