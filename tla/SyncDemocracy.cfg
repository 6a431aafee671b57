SPECIFICATION Spec
CONSTANTS
  NumPlayers = 2
  LocalClient = 0
  SyncTimeout = 0
  MsgTimeout = 1
  KeyInterval = 1
  MaxNewFrames = 1
  Worlds = {1}
  MaxFrame = 2
  MaxReturns = 1
INVARIANTS
  TypeOK
  DesyncIsNoticed
  NoAnswerOutlivesItsFrame
  OutstandingIsBounded
  NobodyIsWarnedAbout
PROPERTY
  OnlyDriftIsReported
