SPECIFICATION Spec
CONSTANTS
  Counts <- AllCounts
  CodeBytes <- SomeCodeBytes
INVARIANTS
  TextsFit
  CodesInPriorityOrder
