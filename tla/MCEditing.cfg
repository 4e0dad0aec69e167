SPECIFICATION MCSpec
CONSTANTS
  N = 3
  MaxFaults = 2
\* A group of files comes to its end; an editor goes on up to its bounds.
CHECK_DEADLOCK FALSE
INVARIANTS
  OldIsKept
  AllOrNothing
  NothingIsLeft
  HandlesDoNotCross
  PlayerFollows
PROPERTIES
  ForeignIsKept
  KeepsDecisions
  EditsWhatIsSelected
