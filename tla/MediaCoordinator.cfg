CONSTANTS
  Kinds <- AllKinds
  MaxTasks <- TwoTasks
  \* Playback's lease and one more, so that a lease can outlive another.
  Leases = {l1, l2}
SPECIFICATION MCSpec
\* The program may stop once the coordinator is shut down or gone.
CHECK_DEADLOCK FALSE
INVARIANTS
  EachTaskOnce
  RequestsAreExclusive
PROPERTIES
  CancelHitsItsTask
  KeepsLifecycles
  EndedIsDelivered
  CallsTakeEffect
