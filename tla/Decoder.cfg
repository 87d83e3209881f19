SPECIFICATION DisplaySpec
CONSTANTS
  Radix = 2
  MemSize = 2
  AdcChannels = 2
  H1 = 1
  H2 = 0
  SumMod = 16
  CountMod = 2
INVARIANTS
  DecoderTypeOK
  IndexInBounds
  ImageOfFrame
  RestOfLastFrame
PROPERTIES
  ImplementsPacket
  GoodPacketIsShown
