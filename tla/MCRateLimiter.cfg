CONSTANTS
  IPs = {ip1, ip2}
  NoIP = NoIP
  Requests = {r1, r2}
  Buckets = {b1, b2}
  NoBucket = NoBucket
  Rate = 1
  Cost = 1
  Full = 2
  TTL = 3
  MaxDelay = 1
  Horizon = 9
SPECIFICATION Spec
SYMMETRY Symmetry
INVARIANTS
  RateBound
  Forgotten
PROPERTIES
  ForgettingIsInvisible
