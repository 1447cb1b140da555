CONSTANTS
  ann = ann
  zoe = zoe
  max = max
  haircut = haircut
  brush = brush
  first = first
  second = second
  other = other
  pay = pay
  payToo = payToo
  payOther = payOther
  Event <- MCEvent
  Client <- MCClient
  ClientOf <- MCClientOf
  Employee <- MCEmployee
  EmployeeOf <- MCEmployeeOf
  Price <- MCPrice
  Delivery <- MCDelivery
  EventOf <- MCEventOf
  Payment <- MCPayment
  InvoiceOf <- MCInvoiceOf
  PointValue = 2000
SPECIFICATION Spec
INVARIANT
  PaidEarnsPoints
CHECK_DEADLOCK FALSE
