SPECIFICATION Spec
CONSTANTS
  Messages <- OneAndFour
  MaxChunkSize = 1
  ChunksPerPacket = 1
  MaxNak = 127
  NakReach = 255
  NakListBelow = 8
  ResendPerFactor = 2
  NetLossFactor = 0
  Limited = FALSE
  Closers = {}
  Reconnects = FALSE
  Duplicates = FALSE
  MaxInFlight <- ReorderedAcks
INVARIANT
  NakPositionAssert
