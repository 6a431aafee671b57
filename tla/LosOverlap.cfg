SPECIFICATION Spec
CONSTANTS
  Units = {u1, u2}
  Keys <- OneCorner
  Instances = {i1, i2, i3}
  NoKey = NoKey
  NoInstance = NoInstance
  Raycast = TRUE
  SightOnly = TRUE
  CacheSize = 1
  Linger = 1
  RelosDelay = 1
  Rects <- WholeMap
  MaxChanges = 1
INVARIANT
  RaysAreRenewed
