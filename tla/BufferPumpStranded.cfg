SPECIFICATION Spec
CONSTANTS
  MaxSend = 2
  BufSize = 2
  Leftovers <- SomeLeftover
INVARIANT
  NothingStranded
CHECK_DEADLOCK FALSE
