SPECIFICATION FairSpec
CONSTANTS
  alice = alice
  bob = bob
  Users <- OneUser
  Ports = {1}
  InRange = {1}
  Slots = {1, 2, 3, 4}
  Workers = {w1}
  Configs <- EveryConfig
  Ops <- PauseOps
  AssignPorts = {}
  InitPort <- OneInitPort
  Absent = {}
  MaxOps = 2
  MaxFaults = 1
  MaxClock = 1
  NoUser = NoUser
  NoSlot = 0
INVARIANT NoOrphan
PROPERTIES
  ListenersConverge
  MITMKeepsPortsOpen
CHECK_DEADLOCK FALSE
