CONSTANTS
  SlotStep = 2
  e1 = e1
  e2 = e2
  none = none
  b1 = b1
  b2 = b2
  cut = cut
  dye = dye
  r1 = r1
  r2 = r2
  c1 = c1
  c2 = c2
  Employee <- Employees
  Branch <- Branches
  Service <- Services
  BranchOf <- BranchTable
  Duration <- DurationTable
  BookRequest <- Requests
  BookArgs <- Bodies
  CloseRequest <- Closers
  CloseArgs <- Closings
  Roster <- Rosters
  Window <- Windows
  NoEmployee = none
SPECIFICATION Spec
INVARIANT
  OfferedSlotsAreFree
CHECK_DEADLOCK FALSE
