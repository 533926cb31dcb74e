SPECIFICATION ConnSpec
CONSTANTS
  MaxSend = 2
  BufSize = 11
  Leftovers <- NoLeftover
  MethodReplies <- Conforming
  ConnectReplies <- Ipv4Replies
  MaxPayload = 2
INVARIANTS
  CarriedInFull
  QuietIsDone
PROPERTY
  EndIsPassedOn
  ImplementsRelay
CHECK_DEADLOCK FALSE
