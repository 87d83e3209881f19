SPECIFICATION TMutexFairSpec
CONSTANTS
  ProcessCount = 3
  MaxTimeout = 1
  ForceWaiters = FALSE
INVARIANTS
  Exclusion
  NoLostWakeup
  MapIsBlocked
PROPERTIES
  ImplementsMutex
  FreeMutexIsTaken
