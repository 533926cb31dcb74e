SPECIFICATION FairSpec
CONSTANTS
  PumpMethods <- BothPumps
  MethodReplies <- AllMethodReplies
  ConnectReplies <- AllConnectReplies
  BufSize = 23
  MaxPayload = 23
INVARIANTS
  WaitingIsTimed
  PumpIsUntimed
  PumpAfterSuccess
  Ipv4PayloadAligned
  RoomToRead
  NoSpuriousDrop
  OnlyLocalFaultsCrash
PROPERTY
  HandshakeTerminates
CHECK_DEADLOCK FALSE
