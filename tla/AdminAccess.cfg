SPECIFICATION Spec
CONSTANTS
  Sessions = {s1}
  Codes = {c1, c2}
  Devices = {d1, d2}
  Workers = {w1, w2}
  TTL = 1
  CodeTTL = 1
  Modes = {TRUE, FALSE}
  None = None
INVARIANTS
  RedeemedOnce
  NoSuccessor
  DemoCodeLives
PROPERTIES
  IdleSessionRefused
  LogoutHolds
