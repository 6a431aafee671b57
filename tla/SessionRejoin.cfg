SPECIFICATION Spec
CONSTANTS
  NumScripted = 2
  Spectators = {2}
  MaxGuests = 0
  NumConns = 3
  ConnName <- TwiceAndOther
  LocalConns = {}
  UdpReconnects = TRUE
  AllowSpecJoin = FALSE
  AIHosts = {}
  RejoinAtOnce = FALSE
  RacyStart = FALSE
  MaxPackets = 9
INVARIANTS
  TypeOK
  SameHistory
  AcceptedAreGreeted
  ReconnectsAreNotGreeted
  PresenceIsAnnounced
CHECK_DEADLOCK FALSE
