SPECIFICATION FairSpec
CONSTANTS
  NumScripted = 1
  Spectators = {}
  MaxGuests = 1
  NumConns = 2
  ConnName <- HostAndGuest
  LocalConns = {1}
  UdpReconnects = FALSE
  AllowSpecJoin = TRUE
  AIHosts = {1}
  RejoinAtOnce = FALSE
  RacyStart = TRUE
  MaxPackets = 2
INVARIANTS
  NothingComesTwice
PROPERTIES
  ServerEnds
  StartsWhenReady
CHECK_DEADLOCK FALSE
