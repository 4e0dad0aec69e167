\* Four revisions: a cut, made smooth, made too short for it, and made hard.
CONSTANTS
  Duration = 4
  Frame = 1
  Positions <- NoPositions
  Suggestions <- TwoSuggestions
  MinBefore = 1
  MinAfter = 2
  MinBetween = 3
  MaxHistory = 4
  MaxExports = 0
  MaxQueue = 1
SPECIFICATION Spec
CHECK_DEADLOCK FALSE
INVARIANT CommittedEditIsPlayed
