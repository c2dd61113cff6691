SPECIFICATION MCSpec
CONSTANTS
  alice = alice
  bob = bob
  site = site
  push = push
  i1 = i1
  Users = {alice}
  IPs = {i1}
  Workers = {w1, w2}
  Hosts = {site}
  Passthrough = {}
  Denied = {}
  MITMEnabled = TRUE
  SessionTTL = 1
  Limit = 1
  Kinds = {"connect", "forward"}
  Changes <- MCPausedAlone
  Offered <- MCOfferedAlone
  None = None
PROPERTY DisabledHolds
