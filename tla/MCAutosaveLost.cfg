SPECIFICATION Spec
CONSTANTS
  None = None
  t1 = t1
  e1 = e1
  e2 = e2
  Tabs = {t1}
  Edits = {e1, e2}
  MaxRev = 2
PROPERTIES
  EditsAreKept
CHECK_DEADLOCK FALSE
