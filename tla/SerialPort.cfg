SPECIFICATION SerialFairSpec
CONSTANTS
  ProcessCount = 3
  MaxTimeout = 1
  _rx_buf_size = 3
  Byte = {0, 1}
INVARIANTS
  GUIFirst
  NoSleepWithData
PROPERTIES
  ImplementsFifo
  ReaderProgress
