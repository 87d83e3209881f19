SPECIFICATION DecoderSpec
CONSTANTS
  Radix = 3
  MemSize = 2
  AdcChannels = 1
  H1 = 1
  H2 = 2
  SumMod = 16
  CountMod = 2
INVARIANTS
  AdcBigEndian
