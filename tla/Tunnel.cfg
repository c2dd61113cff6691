SPECIFICATION Spec
CONSTANTS
  c1 = c1
  c2 = c2
  alice = alice
  Conns = {c1, c2}
  Users = {alice}
  Owner <- MCOwner
  Servers = {doh}
  DoH = {doh}
  Default = Default
  Settings = {doh}
  Failing = {c2}
  None = None
  Sends <- MCSends
  liveChanSize = 1
CHECK_DEADLOCK FALSE
INVARIANTS
  OneResolverPerServer
  EntryComplete
PROPERTIES
  VerdictSound
  FinPropagates
  ChunksAccountedFor
