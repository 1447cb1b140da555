CONSTANTS
  ann = ann
  ben = ben
  zoe = zoe
  max = max
  old = old
  new = new
  one = one
  two = two
  nobody = nobody
  notoken = notoken
  never = never
  Request <- MCRequest
  Call <- MCCall
  Route <- MCRoute
  Subject <- MCSubject
  Owner <- MCOwner
  Kid <- MCKid
  FirstKid = old
  Nobody = nobody
  NoToken = notoken
  Never = never
  Cooldown = 2
  RetryCooldown = 1
  Ttl = 2
  MissingTtl = 1
  Capacity = 1
  LookupTime = 1
  RefreshTime = 1
  MaxClock = 3
SPECIFICATION Spec
SYMMETRY Symmetry
INVARIANTS
  TypeOK
PROPERTIES
  StaleMissBounded
  RefreshesAreSpaced
  OwnObjectsOnly
CHECK_DEADLOCK FALSE
