SPECIFICATION FairSpec
CONSTANTS
  MaxSend = 3
  BufSize = 2
  Leftovers <- NoLeftover
INVARIANTS
  FinAfterDrain
  GracefulClose
  NoLostWakeup
  Conservation
  QuietIsDone
PROPERTIES
  ShutdownIsFinal
  NeverSpins
  RelaySpec
  HalfCloseForwarded
  BothEndsClose
CHECK_DEADLOCK FALSE
