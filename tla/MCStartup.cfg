SPECIFICATION Spec
CONSTANTS
  v = v
  r = r
  i = i
  f = f
  g = g
  Items = {v, r, i}
  Table <- MCTable
  Parent <- MCParent
  Stored <- MCStored
  Server = server
  Tool = tool
  None = none
  Flushers = {f, g}
  MaxClock = 3
  MaxCrashes = 1
CONSTRAINT
  Bound
INVARIANTS
  TypeOK
PROPERTIES
  SchemaWholeIfOneOpens
  StaleExplainedIfInTurn
  DriftNoticedIfApart
CHECK_DEADLOCK FALSE
