SPECIFICATION Spec
CONSTANTS
  alice = alice
  bob = bob
  Users <- TwoUsers
  Ports = {1, 2}
  InRange = {1, 2}
  Slots = {1, 2}
  Workers = {w1, w2}
  Configs <- PlainOnly
  Ops = {"UpdatePort", "Create", "Delete", "Shutdown"}
  AssignPorts = {0, 1, 2}
  InitPort <- TwoInitPort
  Absent = {bob}
  MaxOps = 2
  MaxFaults = 0
  MaxClock = 0
  NoUser = NoUser
  NoSlot = 0
SYMMETRY WorkerSymmetry
INVARIANTS
  MapsAgree
  NoZombie
  PortsUnique
CHECK_DEADLOCK FALSE
