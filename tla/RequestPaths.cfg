SPECIFICATION MCSpec
CONSTANTS
  alice = alice
  bob = bob
  site = site
  push = push
  i1 = i1
  Users = {alice, bob}
  IPs = {i1}
  Workers = {w1, w2}
  Hosts = {site, push, denied}
  Passthrough = {push}
  Denied = {denied}
  MITMEnabled = TRUE
  SessionTTL = 1
  Limit = 1
  Kinds = {"connect", "forward"}
  Changes <- MCChanges
  Offered <- MCOffered
  None = None
INVARIANT
  OwnerServed
  PausedGetsNowhere
PROPERTIES
  SessionsScoped
  PauseHolds
