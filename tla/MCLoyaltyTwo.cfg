CONSTANTS
  ann = ann
  bea = bea
  haircut = haircut
  colour = colour
  dye = dye
  brush = brush
  once = once
  again = again
  second = second
  third = third
  other = other
  Client <- Clients
  Invoice <- Invoices
  Call <- Calls
  Asks <- MCAsks
  PointValue = 2000
SPECIFICATION Spec
INVARIANT
  BalanceIsEarned
CHECK_DEADLOCK FALSE
