SPECIFICATION ChFairSpec
CONSTANTS
  ProcessCount = 2
  MaxTimeout = 1
  Size = 2
  item1 = item1
  item2 = item2
  Item <- MCItem
  Batches <- MCBatches
INVARIANTS
  NobodyWaitsInVain
  MapsAreBlocked
PROPERTIES
  ImplementsDeque
  TimedPopReturns
