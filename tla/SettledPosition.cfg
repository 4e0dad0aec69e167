SPECIFICATION Spec
CONSTANTS
  MaxSeeks = 1
  Length = 2
  PacketLimit = 1
  FrameLimit = 1
  CodecDepth = 1
  CanClose = FALSE
INVARIANT SettledPositionIsOfItsSeek
CHECK_DEADLOCK FALSE
