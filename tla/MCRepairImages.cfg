SPECIFICATION Spec
CONSTANTS
  b1 = b1
  b2 = b2
  None = none
  Images <- TwoImages
  Bodies = {b1, b2}
  Uploads <- ThreeUploads
  MaxSeq = 2
  Workers = {w1}
  Flushers = {f1}
  Touched = {1}
  MaxEvents = 1
  MaxEdited = 1
INVARIANTS
  TypeOK
  NoTwins
PROPERTIES
  NoMissingRow
  GhostsOnlyByRace
  PurgeResumable
CHECK_DEADLOCK FALSE
