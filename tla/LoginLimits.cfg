SPECIFICATION Spec
CONSTANTS
  IPs = {a, b}
  Workers = {w1, w2}
  Limit = 2
  GlobalMax = 3
  Window = 2
  a = a
  b = b
  p = p
  Trusted = {p}
  Headers <- MCHeaders
  Routes <- MCRoutes
  Junk = Junk
INVARIANTS
  WindowExact
  OvershootBounded
  ClientKeyed
PROPERTY NoLockout
