SPECIFICATION Spec
CONSTANTS
  a = a
  b = b
  c = c
  d = d
  broken = broken
  car = car
  folder1 = folder1
  folder2 = folder2
  None = none
  Messages <- MCMessages
  Vehicles = {car}
  Named <- MCNamed
  Folders = {folder1, folder2}
  Folder <- MCFolder
  Contents = {a, b, c, d, broken}
  Images <- MCImages
  Corrupt = {broken}
  Found <- SharedIds
  Limit = 2
  MaxCrashes = 1
  MaxFaults = 1
INVARIANTS
  TypeOK
  DoneMeansComplete
  FewSlots
PROPERTIES
  EveryMessageSeen
CHECK_DEADLOCK FALSE
