SPECIFICATION Spec
CONSTANTS
  Pages = 2
  WIDTH = 3
  Nibble = 2
  PacketMod = 3
  QueueSize = 1
  Contrasts = {100}
INVARIANTS
  PicturesDoNotMix
  DisplaySetUp
  OneButtonCycle
PROPERTIES
  PacketIsShown
