SPECIFICATION Spec
CONSTANTS
  PumpMethods <- BothPumps
  MethodReplies <- Conforming
  ConnectReplies <- Ipv6Only
  BufSize = 23
  MaxPayload = 1
INVARIANT
  PayloadAligned
CHECK_DEADLOCK FALSE
