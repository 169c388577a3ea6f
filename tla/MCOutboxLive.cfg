SPECIFICATION PollingSpec
CONSTANTS
  NumRows = 2
  d1 = d1
  Drainers = {d1}
  BatchSize = 1
  MaxAttempts = 2
  MaxCrashes = 1
  OldRelease = {"other"}
  RevivedKinds = {"other"}
PROPERTIES
  SettlementsHandedOver
  OrdinaryRowsDelivered
CHECK_DEADLOCK FALSE
