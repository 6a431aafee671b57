SPECIFICATION FairSpec
CONSTANTS
  NumPlayers = 2
  NumTeams = 3
  MaxAIs = 2
  TeamOf <- OneEach
  AllyOf <- AllAllied
  ScriptAIs <- FirstHosts
  ScriptLeader <- FirstLeads
  Host = 1
  Controllers = {1, 2}
  Gifts = FALSE
  MaxCommands = 2
  MaxDeaths = 1
INVARIANTS
  TypeOK
  SlotsAreAccountedFor
  AIsAreHeard
  ActiveIsControlled
  SameAIs
  ClientsAreNotSurprised
PROPERTIES
  KilledIsGone
CHECK_DEADLOCK FALSE
