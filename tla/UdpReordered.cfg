SPECIFICATION Spec
CONSTANTS
  Messages <- SharedChunk
  MaxChunkSize = 2
  ChunksPerPacket = 1
  MaxNak = 2
  NakReach = 3
  NakListBelow = 2
  ResendPerFactor = 2
  NetLossFactor = 0
  Limited = FALSE
  Closers = {}
  Reconnects = FALSE
  Duplicates = TRUE
  MaxInFlight <- Two
INVARIANTS
  TypeOK
  WindowContiguous
  AckedWasProcessed
  ResendsAreUnacked
  ChunksInOrder
  WaitingAheadOfGap
PROPERTY
  IsReliable
