CONSTANTS
  Leases = {l1, l2}
  Revisions = {1}
  MaxSessions = 2
  MaxRequests = 1
  MaxDrops = 1
SPECIFICATION MCSpec
\* The coordinator under the leases may be shut down.
CHECK_DEADLOCK FALSE
INVARIANTS
  PlaybackOwnsTheGpu
  PauseFollowsLeases
  SuspendedHoldsNothing
  NoSignalIsLost
  OperationHasItsResource
  HandoffsAgree
  LeaseCoversPlayback
PROPERTIES
  KeepsLifecycle
  EditsAreKept
  QuitPreempts
  RetainedCommandRuns
