SPECIFICATION Spec
CONSTANTS
  MaxSeeks = 2
  Length = 1
  PacketLimit = 1
  FrameLimit = 1
  CodecDepth = 1
  CanClose = FALSE
INVARIANTS
  ShownIsOfItsSeek
  AppliedMeansPositioned
  FramePoolIsWhole
CHECK_DEADLOCK FALSE
