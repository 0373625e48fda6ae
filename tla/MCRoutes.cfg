SPECIFICATION Spec
CONSTANTS
  newUpper = newUpper
  dotDot = dotDot
  New = new
  None = none
  Vehicles <- MCVehicles
  Numbers <- MCNumbers
  Upper <- MCUpper
  Dots = {dotDot}
  Texts = {newUpper}
  Typed <- MCTyped
  Users = {u1, u2}
  Score <- MCScore
  Pool = 2
  Limit = 1
SYMMETRY Windows
INVARIANTS
  TypeOK
  LinksResolveUnlessClash
  FormHitsShown
  ExactFirst
CHECK_DEADLOCK FALSE
