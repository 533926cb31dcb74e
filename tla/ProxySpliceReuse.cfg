SPECIFICATION Spec
CONSTANTS
  c1 = c1
  c2 = c2
  c3 = c3
  Clients <- ThreeClients
  MaxFd = 10
  MaxBatch = 1
  PumpMethods <- SpliceOnly
INVARIANT
  OwnSockets
CHECK_DEADLOCK FALSE
