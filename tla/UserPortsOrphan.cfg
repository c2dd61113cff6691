SPECIFICATION Spec
CONSTANTS
  alice = alice
  bob = bob
  Users <- OneUser
  Ports = {1}
  InRange = {1}
  Slots = {1, 2, 3}
  Workers = {w1}
  Configs <- PlainOnly
  Ops = {"UpdatePort"}
  AssignPorts = {1}
  InitPort <- OneInitPort
  Absent = {}
  MaxOps = 1
  MaxFaults = 0
  MaxClock = 0
  NoUser = NoUser
  NoSlot = 0
INVARIANT NoOrphan
