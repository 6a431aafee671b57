SPECIFICATION Spec
CONSTANTS
  Units = {u1, u2}
  Keys <- TwoPlaces
  Instances = {i1, i2, i3, i4}
  NoKey = NoKey
  NoInstance = NoInstance
  Raycast = TRUE
  SightOnly = TRUE
  CacheSize = 1
  Linger = 1
  RelosDelay = 1
  Rects <- Craters
  MaxChanges = 1
INVARIANTS
  TypeOK
  RefsAreHeld
  MapIsSum
  RaysAreRenewed
  StatusAsserts
PROPERTY
  IsSight
