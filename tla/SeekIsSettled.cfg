SPECIFICATION FairSpec
CONSTANTS
  MaxSeeks <- OneSeekOfADecoder
  Length = 1
  Capacity = 1
CHECK_DEADLOCK FALSE
PROPERTY SeekIsSettled
