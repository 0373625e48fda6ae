SPECIFICATION Spec
CONSTANTS
  Keys = {k1}
  Ignored = {}
  Values = {a, b}
  Torn = torn
  None = none
  Writers = {w1, w2}
  Temps = {t1, t2}
  MaxCrashes = 1
SYMMETRY Symmetry
INVARIANTS
  TypeOK
  NoOrphan
  ChangesHeard
PROPERTIES
  ImplementsAtomicFile
CHECK_DEADLOCK FALSE
