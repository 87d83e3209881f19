SPECIFICATION Spec
CONSTANTS
  Counts <- AllCounts
  CodeBytes <- SomeCodeBytes
INVARIANT OilPressureInSensorRange
