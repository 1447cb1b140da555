CONSTANTS
  haircut = haircut
  brush = brush
  bill = bill
  ann = ann
  dye = dye
  arbat = arbat
  tverskaya = tverskaya
  zoe = zoe
  max = max
  one = one
  two = two
  nobody = nobody
  never = never
  refused = refused
  Appointment <- MCAppointment
  Invoice <- MCInvoice
  Client <- MCClient
  Consumable <- MCConsumable
  Branch <- MCBranch
  Employee <- MCEmployee
  Event <- MCEvent
  Handler <- MCHandler
  Window <- MCWindow
  Nobody = nobody
  Never = never
  Caller <- MCCaller
  Refused = refused
  MaxFailures = 1
SPECIFICATION Spec
SYMMETRY Symmetry
INVARIANTS
  TypeOK
  HandledIsHeard
  ReportsMatchEvents
CHECK_DEADLOCK FALSE
