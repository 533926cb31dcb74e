SPECIFICATION Spec
CONSTANTS
  PumpMethods <- SpliceOnly
  MethodReplies <- Conforming
  ConnectReplies <- Ipv4Only
  BufSize = 12
  MaxPayload = 1
INVARIANT
  SignalCloses
CHECK_DEADLOCK FALSE
