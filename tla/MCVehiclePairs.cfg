SPECIFICATION Spec
CONSTANTS
  r1 = r1
  r2 = r2
  x1 = x1
  None = none
  Vehicles <- MCVehicles
  Numbers = {r1, r2, x1}
  Choices <- ContestedChoices
  Workers = {w1, w2}
  Flushers = {}
  MaxCrashes = 1
PROPERTIES
  UniqueWhenSerialised
  DeletedStaysDeleted
  PurgeOnlyExpired
CHECK_DEADLOCK FALSE
