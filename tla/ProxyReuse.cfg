SPECIFICATION Spec
CONSTANTS
  c1 = c1
  c2 = c2
  c3 = c3
  Clients <- ThreeClients
  MaxFd = 7
  MaxBatch = 2
  PumpMethods <- BufferOnly
INVARIANT
  OwnSockets
CHECK_DEADLOCK FALSE
