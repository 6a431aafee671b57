SPECIFICATION FairSpec
CONSTANTS
  Messages <- ShortAndLong
  MaxChunkSize = 1
  ChunksPerPacket = 3
  MaxNak = 2
  NakReach = 3
  NakListBelow = 2
  ResendPerFactor = 2
  NetLossFactor = 0
  Limited = FALSE
  Closers = {}
  Reconnects = FALSE
  Duplicates = FALSE
  MaxInFlight <- One
PROPERTY
  IsLive
