SPECIFICATION FairSpec
CONSTANTS
  dye = dye
  gel = gel
  wax = wax
  visit = visit
  touchup = touchup
  first = first
  second = second
  third = third
  supply = supply
  empty = empty
  Item <- MCItem
  Event <- MCEvent
  Norms <- MCNorms
  Delivery <- MCDelivery
  EventOf <- MCEventOf
  Request <- MCRequest
  Asked <- MCAsked
  Threshold <- MCThreshold
  Opening <- MCOpening
INVARIANTS
  TypeOK
  StockNeverNegative
  HistoryRestoresStock
  MarkedIffWrittenOff
  AnnouncementsAreTrue
PROPERTIES
  AlertsMatchStock
  ImplementsWarehouse
  TransactionsEnd
CHECK_DEADLOCK FALSE
