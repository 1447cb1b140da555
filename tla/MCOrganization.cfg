CONSTANTS
  nothing = nothing
  one = one
  two = two
  Call <- MCCall
  Request <- MCRequest
  Limit = 1
  MaxFailures = 1
  Nothing = nothing
SPECIFICATION Spec
SYMMETRY Symmetry
INVARIANTS
  TypeOK
  RegisteredOnce
  PagesAreComplete
  StopSilencesNobody
CHECK_DEADLOCK FALSE
