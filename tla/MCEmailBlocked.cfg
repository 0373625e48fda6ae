SPECIFICATION Spec
CONSTANTS
  a = a
  b = b
  c = c
  d = d
  broken = broken
  car = car
  folder1 = folder1
  folder2 = folder2
  None = none
  Messages <- TwoMessages
  Vehicles = {car}
  Named <- MCNamed
  Folders = {folder1, folder2}
  Folder <- MCFolder
  Contents = {a, b, c, d, broken}
  Images <- TwoImages
  Corrupt = {broken}
  Found <- FirstHasNoId
  Limit = 2
  MaxCrashes = 0
  MaxFaults = 0
PROPERTIES
  IdentifiedMessagesSeen
CHECK_DEADLOCK FALSE
