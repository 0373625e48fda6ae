SPECIFICATION Spec
CONSTANTS
  k1 = k1
  k2 = k2
  k3 = k3
  t = t
  d = d
  e = e
  Keys = {k1, k2, k3}
  Temps = {t}
  Dir <- MCDir
  Values = {a}
  Torn = torn
  None = none
INVARIANTS
  TypeOK
  MigrationFaithful
CHECK_DEADLOCK FALSE
