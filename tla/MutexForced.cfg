SPECIFICATION TMutexSpec
CONSTANTS
  ProcessCount = 2
  MaxTimeout = 1
  ForceWaiters = TRUE
INVARIANT NoLostWakeup
