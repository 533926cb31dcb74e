SPECIFICATION FairSpec
CONSTANTS
  c1 = c1
  c2 = c2
  c3 = c3
  Clients <- ThreeClients
  MaxFd = 7
  MaxBatch = 2
  PumpMethods <- BothPumps
INVARIANTS
  ListIsLive
  OnlyCreatepipeLeaks
  ExitReleasesAll
PROPERTIES
  DropEmptiesList
  OnlyFinalizersSteal
  TerminateExits
CHECK_DEADLOCK FALSE
