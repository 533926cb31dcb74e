SPECIFICATION FairSpec
CONSTANTS
  MaxSend = 3
  PipeCap = 2
  PipeSlots = 1
  Leftovers <- NoLeftover
INVARIANTS
  PipeAccounting
  NoFalseEof
PROPERTIES
  RelaySpec
  EndFreesConnection
CHECK_DEADLOCK FALSE
