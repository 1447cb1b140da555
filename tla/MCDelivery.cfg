CONSTANTS
  early = early
  late = late
  Message <- MCMessage
  Mix <- MCMix
  Prefetch = 2
  RetryLimit = 2
  DeliveryLimit = 2
SPECIFICATION FairSpec
INVARIANTS
  TypeOK
  EffectOnce
  AckedIsDone
  DeadAfterRetries
PROPERTIES
  EverythingSettles
CHECK_DEADLOCK FALSE
