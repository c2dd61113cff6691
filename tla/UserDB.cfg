SPECIFICATION MCSpec
CONSTANTS
  Users = {alice}
  Passwords = {p, q}
  Workers = {w1, w2, w3}
  Admins = {w1, w2}
  Settings = {"enabled", "until"}
  Ops = {"check", "password", "add", "delete", "set"}
  OldHashes = TRUE
  TTL = 2
  None = None
  DaysPerWeek = 3
  MinutesPerDay = 3
  Spellings = {TRUE}
INVARIANTS
  SettingsMatchRows
  ChangeTakesEffect
  BlockedExactly
  AcceptedDisjoint
PROPERTY OldPasswordDies
