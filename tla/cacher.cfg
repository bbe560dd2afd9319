\* an expiration longer than the period, so that entries survive a sweep
CONSTANTS
  p1 = p1
  p2 = p2
  k1 = k1
  k2 = k2
  Clients = {p1, p2}
  Keys = {k1, k2}
  Expiration = 2
  Period = 1
SPECIFICATION Spec
INVARIANTS
  NoMapRace
  StalenessBound
PROPERTIES
  FreshKept
  CallsReturn
  ExpiredGo
  InvalidatorStops
