\* One frame to a seek, and rings of one frame: full, empty and raced over.
SPECIFICATION FairSpec
CONSTANTS
  MaxSeeks <- SeeksOfAllKinds
  Length = 1
  Capacity = 1
\* A paused player with an idle owner has nothing to do.
CHECK_DEADLOCK FALSE
INVARIANTS
  ReaderIsHeldOff
  CommitIsOfItsStream
PROPERTIES
  ResetIsApplied
