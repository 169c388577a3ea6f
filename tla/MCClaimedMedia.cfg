SPECIFICATION Spec
CONSTANTS
  Works = {1}
PROPERTIES
  ClaimedMediaStay
CHECK_DEADLOCK FALSE
