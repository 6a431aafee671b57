SPECIFICATION Spec
CONSTANTS
  Messages <- OneAndFour
  MaxChunkSize = 1
  ChunksPerPacket = 5
  MaxNak = 2
  NakReach = 3
  NakListBelow = 2
  ResendPerFactor = 1
  NetLossFactor = 2
  Limited = TRUE
  Closers = {1, 2}
  Reconnects = TRUE
  Duplicates = TRUE
  MaxInFlight <- One
PROPERTY
  IsReliable
CHECK_DEADLOCK FALSE
