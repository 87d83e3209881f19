SPECIFICATION MessageFairSpec
CONSTANTS
  ProcessCount = 3
  MaxTimeout = 1
INVARIANTS
  BlockedIsListed
  NoStaleTag
  RunnerHasNoTimeout
  LastMessageNotLost
PROPERTIES
  ImplementsFlag
  TimedWaitReturns
