\* A file longer than both queues, the codec and all hands hold.
SPECIFICATION FairSpec
CONSTANTS
  MaxSeeks = 1
  Length = 4
  PacketLimit = 1
  FrameLimit = 1
  CodecDepth = 1
  CanClose = TRUE
ACTION_CONSTRAINT PausedWhileSeeking
PROPERTIES
  SeekSettles
CHECK_DEADLOCK FALSE
