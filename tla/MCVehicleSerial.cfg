SPECIFICATION FairSpec
CONSTANTS
  r1 = r1
  r2 = r2
  x1 = x1
  None = none
  Vehicles <- MCVehicles
  Numbers = {r1, r2, x1}
  Choices <- SharedChoices
  Workers = {w1}
  Flushers = {f1}
  MaxCrashes = 1
INVARIANTS
  TypeOK
PROPERTIES
  ConsistentUnlessMoved
  ConvergesUnlessMoved
CHECK_DEADLOCK FALSE
