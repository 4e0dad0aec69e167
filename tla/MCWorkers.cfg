CONSTANTS
  MaxGeneration = 4
  MaxTransitions = 3
SPECIFICATION MCSpec
\* Every one of the five can come to its end.
CHECK_DEADLOCK FALSE
INVARIANTS
  CompletionIsFresh
  OutcomeMatchesOutput
  ThreadIsOwned
PROPERTIES
  DeliveryIsFreshAndOnce
  KeepsLifecycle
  CompletionIsTaken
  LastRequestSettles
  CallsAndStopsReturn
