SPECIFICATION ContextFairSpec
CONSTANTS
  ProcessCount = 3
  MaxTimeout = 2
INVARIANTS
  ContextsIntact
  ReadyRuns
  SpinEnds
  InversionOnlyBySelfWake
  NoStaleTimeout
PROPERTIES
  SleepIsTimed
  TickEndsInversion
  SleepEnds
  TopPriorityRuns
