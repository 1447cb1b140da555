CONSTANTS
  early = early
  late = late
  Message <- MCMessage
  Mix <- MCMix
  Prefetch = 2
  RetryLimit = 2
  DeliveryLimit = 2
SPECIFICATION Spec
INVARIANT
  SecondChance
CHECK_DEADLOCK FALSE
