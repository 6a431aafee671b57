------------------------------ MODULE TeamControl ------------------------------
(***************************************************************************)
(* Who controls the teams: the players and skirmish AIs of a CGameServer   *)
(* and the copy of them that every client keeps.                           *)
(*                                                                         *)
(* A client asks the server, the server decides and broadcasts, and every  *)
(* client, the one that asked included, changes its copy when it reads the *)
(* broadcast.  Meanwhile its commands are checked against the old copy.    *)
(* Connections are the channels of ReliableChannel; that all clients read  *)
(* the same is SameHistory of GameSession.  A team dies in the simulation, *)
(* that is, in the same frame for everybody.  Nobody leaves, but a client  *)
(* may end where it uses what is not there; its host's server is taken to  *)
(* go on, as a dedicated one does.  Nobody cheats.                         *)
(***************************************************************************)
EXTENDS Integers, Sequences, FiniteSets

CONSTANTS
  NumPlayers, NumTeams,
  MaxAIs,       \* MAX_AIS, the number of AI slots
  TeamOf,       \* TeamOf[p]: the team of player p
  AllyOf,       \* AllyOf[t]: the allyteam of team t
  ScriptAIs,    \* <<host, team>> of each AI in the start script
  ScriptLeader, \* ScriptLeader[t]: the leader of team t by the start script
  Host,         \* the player whose client runs the server, None if it is dedicated
  Controllers,  \* whom the host has allowed /aicontrol (aiControlFlags)
  Gifts,        \* whether an AI is killed with its units given to another team
  MaxCommands,  \* bound: how many commands the users give
  MaxDeaths     \* bound: how many teams die

Players == 1..NumPlayers
Teams == 1..NumTeams
Slots == 1..MaxAIs
None == 0

ASSUME TeamAssumption ==
  /\ {NumPlayers, NumTeams, MaxAIs, MaxCommands, MaxDeaths} \subseteq Nat
  /\ TeamOf \in [Players -> Teams] /\ AllyOf \in [Teams -> Nat]
  /\ ScriptAIs \in Seq(Players \X Teams) /\ Len(ScriptAIs) <= MaxAIs
  /\ ScriptLeader \in [Teams -> Players] /\ Host \in Players \cup {None}
  /\ Controllers \subseteq Players
  /\ Gifts \in BOOLEAN

VARIABLES
  spectator, leader, active, \* of the server's players and teams
  skirmishAIs,               \* skirmishAIs[s]: the AI in slot s
  freeSkirmishAIs,           \* the slots to hand out, the last one first
  aiClientLinks,             \* whose packets for which AI are relayed
  client,                    \* client[c]: the copy that c's client keeps
  up, down,                  \* packets on the way to and from the server
  commands, deaths           \* how many there were

serverVars == <<spectator, leader, active, skirmishAIs, freeSkirmishAIs, aiClientLinks>>
bounds == <<commands, deaths>>
vars == <<serverVars, client, up, down, bounds>>

States == {"CONSTRUCTED", "INITIALIZING", "RELOADING", "DIEING", "DEAD"}

(* INITIALIZING and the ALIVE that follows are one state here: all that is  *)
(* ever asked of a state is whether it is RELOADING                        *)
NoAI == [host |-> None, team |-> None, status |-> "CONSTRUCTED"]
NewAI(p, t) == [host |-> p, team |-> t, status |-> "CONSTRUCTED"]

Packet(kind, p, t, s) == [kind |-> kind, player |-> p, team |-> t, slot |-> s]

First(S) == CHOOSE x \in S : \A y \in S : x <= y

PlayersIn(t, watching) == {p \in Players : TeamOf[p] = t /\ ~watching[p]}
AIsIn(t, ais) == {s \in Slots : ais[s].host # None /\ ais[s].team = t}
HostedIn(t, ais, p) == {s \in AIsIn(t, ais) : ais[s].host = p}
NumControllers(t, watching, ais) ==
  Cardinality(PlayersIn(t, watching)) + Cardinality(AIsIn(t, ais))

SinglePlayer == NumPlayers <= 1
Allied(p, t) == AllyOf[TeamOf[p]] = AllyOf[t]

InScript(s) == s <= Len(ScriptAIs)
ScriptedAI(s) ==
  IF InScript(s)
    THEN [NewAI(ScriptAIs[s][1], ScriptAIs[s][2]) EXCEPT !.status = "INITIALIZING"]
    ELSE NoAI

(* mutant: slots are counted from zero in the one list and from one in the *)
(* other                                                                   *)
FreeSlotsFromZero == [n \in 1..(MaxAIs - Len(ScriptAIs)) |-> MaxAIs - Len(ScriptAIs) - n]

FreeSlots == [n \in 1..(MaxAIs - Len(ScriptAIs)) |-> MaxAIs + 1 - n]

(* The game has been loaded and everybody is in it. *)
Init ==
  /\ spectator = [p \in Players |-> FALSE]
  /\ leader = ScriptLeader
  /\ skirmishAIs = [s \in Slots |-> ScriptedAI(s)]
  /\ active = [t \in Teams |-> NumControllers(t, spectator, skirmishAIs) > 0]
  /\ freeSkirmishAIs = FreeSlots
  /\ aiClientLinks = [p \in Players |-> {s \in Slots : skirmishAIs[s].host = p}]
  /\ client = [c \in Players |->
       [spectator |-> spectator, leader |-> leader, dead |-> {}, ai |-> skirmishAIs,
        inCreation |-> {t \in Teams : HostedIn(t, skirmishAIs, c) # {}},
        running |-> {s \in Slots : skirmishAIs[s].host = c}, ended |-> FALSE]]
  /\ up = [c \in Players |-> <<>>] /\ down = [c \in Players |-> <<>>]
  /\ commands = 0 /\ deaths = 0
--------------------------------------------------------------------------------
(* The server. *)

Broadcast(packet) == down' = [c \in Players |-> Append(down[c], packet)]

(* ResignPlayer, on either side: who leads a team after p, if p led it *)
NextLeader(t, p, leads, watching, ais) ==
  IF leads[t] # p THEN leads[t]
  ELSE IF PlayersIn(t, watching) # {} THEN First(PlayersIn(t, watching))
  ELSE IF AIsIn(t, ais) # {} THEN ais[First(AIsIn(t, ais))].host
  ELSE None

ResignPlayer(p) ==
  /\ Broadcast(Packet("RESIGN", p, None, None))
  /\ spectator' = [spectator EXCEPT ![p] = TRUE]
  /\ leader' = [t \in Teams |-> NextLeader(t, p, leader, spectator', skirmishAIs)]
  /\ active' = [t \in Teams |->
       active[t] /\ (leader[t] = p => NumControllers(t, spectator', skirmishAIs) > 0)]
  /\ UNCHANGED <<skirmishAIs, freeSkirmishAIs, aiClientLinks>>

Release(s) ==
  /\ skirmishAIs' = [skirmishAIs EXCEPT ![s] = NoAI]
  /\ freeSkirmishAIs' = Append(freeSkirmishAIs, s)

Abandon(t) ==
  /\ leader' = [leader EXCEPT ![t] = None]
  /\ active' = [active EXCEPT ![t] = FALSE]

(* mutant: the team is left in play *)
AbandonIfLeader(last, t) ==
  /\ leader' = [leader EXCEPT ![t] = IF last THEN None ELSE @]
  /\ UNCHANGED active

AbandonIf(last, t) == IF last THEN Abandon(t) ELSE UNCHANGED <<leader, active>>

GiveawayRefused(p, t) ==
  /\ ~SinglePlayer
  /\ \/ spectator[p]
     \/ t # TeamOf[p] /\ leader[t] # p
     \/ HostedIn(t, skirmishAIs, p) # {} /\ ~Allied(p, t)

(* Which AI of team t goes when p gives its units away: the first, and if  *)
(* p has none there, whatever the memory behind an empty list holds.       *)
GivenAIs(t, p) ==
  LET ids == HostedIn(t, skirmishAIs, p) IN
  IF ids # {} THEN {First(ids)} ELSE Slots

HandleGiveaway(p, t) ==
  LET own == t = TeamOf[p]
      deserted == PlayersIn(t, spectator) = {}
  IN
  IF GiveawayRefused(p, t) THEN UNCHANGED <<serverVars, down>>
  ELSE
    /\ Broadcast(Packet("GIVEAWAY", p, t, None))
    /\ spectator' = IF own THEN [spectator EXCEPT ![p] = TRUE] ELSE spectator
    /\ IF ~own /\ deserted
         THEN \E s \in GivenAIs(t, p) : Release(s)
         ELSE UNCHANGED <<skirmishAIs, freeSkirmishAIs>>
    /\ AbandonIf((own \/ deserted) /\ NumControllers(t, spectator, skirmishAIs) = 1, t)
    /\ UNCHANGED aiClientLinks

HandleResign(p) ==
  IF spectator[p] /\ ~SinglePlayer
    THEN UNCHANGED <<serverVars, down>>
    ELSE ResignPlayer(p)

(* only the host's word is taken, by a dedicated server everybody's who is *)
(* in sync; clients ignore the broadcasts                                  *)
HandleTeamDied(p, t) ==
  IF Host \notin {p, None} THEN UNCHANGED <<serverVars, down>>
  ELSE
    /\ Abandon(t)
    /\ spectator' = [q \in Players |-> spectator[q] \/ TeamOf[q] = t]
    /\ UNCHANGED <<down, skirmishAIs, freeSkirmishAIs, aiClientLinks>>

MayCreateAI(p, t) ==
  /\ p \in Controllers
  /\ leader[t] = p \/ SinglePlayer \/ (Allied(p, t) /\ leader[t] = None)

(* mutant: takes the first slot, although the last one is struck off the list *)
ReserveFirstId == freeSkirmishAIs[1]

ReserveSkirmishAIId == freeSkirmishAIs[Len(freeSkirmishAIs)]

(* mutant: nobody listens to the new AI *)
LinkForgotten(p, s) == UNCHANGED aiClientLinks

Link(p, s) == aiClientLinks' = [aiClientLinks EXCEPT ![p] = @ \cup {s}]

HandleAICreated(p, t) ==
  LET s == ReserveSkirmishAIId IN
  IF ~MayCreateAI(p, t) \/ freeSkirmishAIs = <<>> THEN UNCHANGED <<serverVars, down>>
  ELSE
    /\ freeSkirmishAIs' = SubSeq(freeSkirmishAIs, 1, Len(freeSkirmishAIs) - 1)
    /\ Link(p, s)
    /\ skirmishAIs' = [skirmishAIs EXCEPT ![s] = NewAI(p, t)]
    /\ Broadcast(Packet("AI_CREATED", p, t, s))
    /\ IF leader[t] = None
         THEN /\ leader' = [leader EXCEPT ![t] = p]
              /\ active' = [active EXCEPT ![t] = TRUE]
         ELSE UNCHANGED <<leader, active>>
    /\ UNCHANGED spectator

MayChangeAI(p, s) ==
  /\ skirmishAIs[s].host # None
  /\ skirmishAIs[s].host = p \/ leader[skirmishAIs[s].team] = p \/ SinglePlayer

(* mutants: an AI that is reloaded loses its slot; one that was told to    *)
(* reload after it was told to die keeps it                                *)
EndsAnyway(ai, state) == state = "DEAD"
EndsIfDieing(ai, state) == state = "DEAD" /\ ai.status = "DIEING"

Ends(ai, state) == state = "DEAD" /\ ai.status # "RELOADING"

HandleAIState(p, s, state) ==
  LET ai == skirmishAIs[s] IN
  IF ~MayChangeAI(p, s) THEN UNCHANGED <<serverVars, down>>
  ELSE
    /\ Broadcast(Packet(state, p, None, s))
    /\ IF Ends(ai, state)
         THEN /\ Release(s)
              /\ aiClientLinks' = [aiClientLinks EXCEPT ![p] = @ \ {s}]
              /\ AbandonIf(NumControllers(ai.team, spectator, skirmishAIs) = 1, ai.team)
         ELSE /\ skirmishAIs' = [skirmishAIs EXCEPT ![s].status = state]
              /\ UNCHANGED <<freeSkirmishAIs, aiClientLinks, leader, active>>
    /\ UNCHANGED spectator

(* ProcessPacket *)
ServerRead(p) ==
  /\ up[p] # <<>>
  /\ LET m == Head(up[p]) IN
     CASE m.kind = "GIVEAWAY" -> HandleGiveaway(p, m.team)
       [] m.kind = "RESIGN" -> HandleResign(p)
       [] m.kind = "TEAM_DIED" -> HandleTeamDied(p, m.team)
       [] m.kind = "AI_CREATED" -> HandleAICreated(p, m.team)
       [] OTHER -> HandleAIState(p, m.slot, m.kind)
  /\ up' = [up EXCEPT ![p] = Tail(@)]
  /\ UNCHANGED <<client, bounds>>

(* the console's command to make a player watch *)
SpecPlayer(p) ==
  /\ commands < MaxCommands /\ commands' = commands + 1
  /\ ~spectator[p] /\ ResignPlayer(p)
  /\ UNCHANGED <<client, up, deaths>>

(* a frame in which team t dies, as every simulation will find *)
CreateNewFrame(t) ==
  /\ deaths < MaxDeaths /\ deaths' = deaths + 1
  /\ Broadcast(Packet("NEWFRAME", None, t, None))
  /\ UNCHANGED <<serverVars, client, up, commands>>
--------------------------------------------------------------------------------
(* The clients: what a packet makes of a client's copy, and what the client *)
(* sends for it.                                                           *)

Replies(c, packets) == up' = [up EXCEPT ![c] = @ \o packets]
State(c, s, state) == Packet(state, c, None, s)

ReadGiveaway(c, m) ==
  LET me == client[c]
      watching == me.spectator
      n == Cardinality(PlayersIn(m.team, watching))
      own == m.team = TeamOf[m.player]
      last == (own \/ n = 0) /\ NumControllers(m.team, watching, me.ai) = 1
  IN
  /\ client' = [client EXCEPT
       ![c].spectator[m.player] = @ \/ (own /\ n # 1),
       ![c].leader[m.team] = IF last THEN None ELSE @]
  /\ UNCHANGED up

ReadResign(c, m) ==
  LET me == client[c]
      watching == [me.spectator EXCEPT ![m.player] = TRUE]
  IN
  /\ client' = [client EXCEPT
       ![c].spectator = watching,
       ![c].leader = [t \in Teams |-> NextLeader(t, m.player, @, watching, me.ai)]]
  /\ UNCHANGED up

(* mutant: the AIs of other clients are not added *)
AddOwnSkirmishAI(me, m) ==
  IF m.team \notin me.inCreation \/ me.ai[m.slot].host # None THEN me
  ELSE [me EXCEPT !.ai[m.slot] = NewAI(m.player, m.team),
                  !.inCreation = @ \ {m.team}]

(* AddSkirmishAI does nothing if the slot is taken *)
AddSkirmishAI(me, m) ==
  IF me.ai[m.slot].host # None THEN me
  ELSE [me EXCEPT !.ai[m.slot] = NewAI(m.player, m.team),
                  !.inCreation = @ \ {m.team}]

(* Whoever asked for the AI finds what it has to create in inCreation. *)
ReadAICreated(c, m) ==
  LET mine == m.player = c
      me == AddSkirmishAI(client[c], m)
  IN
  /\ client' = [client EXCEPT ![c] =
       [me EXCEPT !.leader[m.team] = IF @ = None THEN m.player ELSE @,
                  !.running = IF mine THEN @ \cup {m.slot} ELSE @]]
  /\ IF mine THEN Replies(c, <<State(c, m.slot, "INITIALIZING")>>) ELSE UNCHANGED up

RemoveSkirmishAI(me, s) ==
  [me EXCEPT !.ai[s] = NoAI, !.inCreation = @ \ {me.ai[s].team}]

(* DestroySkirmishAI.  For an AI that is not running any more it looks into *)
(* the list of team -1; if the client survives that (see ClientEnds) it    *)
(* finds nothing there, and sends DEAD as ever.                            *)
Destroyed(c, m) ==
  /\ client' = [client EXCEPT ![c].ai[m.slot].status = m.kind,
                              ![c].running = @ \ {m.slot}]
  /\ Replies(c, <<State(c, m.slot, "DEAD")>>)

Recreated(c, m) ==
  /\ client' = [client EXCEPT ![c].ai[m.slot].status = m.kind,
                              ![c].running = @ \cup {m.slot}]
  /\ Replies(c, <<State(c, m.slot, "INITIALIZING")>>)

Removed(c, m) ==
  LET me == client[c]
      t == me.ai[m.slot].team
      last == NumControllers(t, me.spectator, me.ai) = 1
  IN
  /\ client' = [client EXCEPT ![c] =
       [RemoveSkirmishAI(me, m.slot) EXCEPT !.leader[t] = IF last THEN None ELSE @]]
  /\ UNCHANGED up

ReadAIState(c, m) ==
  LET ai == client[c].ai[m.slot]
      isLocal == ai.host = c
      reloads == ai.status = "RELOADING"
  IN
  CASE isLocal /\ m.kind \in {"DIEING", "RELOADING"} -> Destroyed(c, m)
    [] isLocal /\ m.kind = "DEAD" /\ reloads -> Recreated(c, m)
    [] m.kind = "DEAD" /\ ~reloads -> Removed(c, m)
    [] OTHER -> /\ client' = [client EXCEPT ![c].ai[m.slot].status = m.kind]
                /\ UNCHANGED up

(* CTeam::Died: the client tells the server, and has its AIs in the team   *)
(* killed, in the order of their slots                                     *)
ReadNewFrame(c, m) ==
  LET me == client[c]
      ids == HostedIn(m.team, me.ai, c)
  IN
  IF m.team \in me.dead THEN UNCHANGED <<client, up>>
  ELSE
    /\ client' = [client EXCEPT
         ![c].dead = @ \cup {m.team},
         ![c].spectator = [p \in Players |-> @[p] \/ TeamOf[p] = m.team]]
    /\ \E order \in [1..Cardinality(ids) -> ids] :
         /\ \A a, b \in DOMAIN order : a < b => order[a] < order[b]
         /\ Replies(c, <<Packet("TEAM_DIED", c, m.team, None)>>
                         \o [n \in DOMAIN order |-> State(c, order[n], "DIEING")])

(* A null pointer is used: for the AI that was asked for, or the one whose *)
(* state has changed.                                                      *)
Missing(c, m) ==
  \/ m.kind = "AI_CREATED" /\ m.player = c /\ m.team \notin client[c].inCreation
  \/ m.kind \in States /\ client[c].ai[m.slot].host = None

(* DestroySkirmishAI for an instance that was killed: Kill has set its team *)
(* to -1, which is the index of the list that is searched.                 *)
DestroyedTwice(c, m) ==
  /\ m.kind \in {"DIEING", "RELOADING"}
  /\ client[c].ai[m.slot].host = c /\ m.slot \notin client[c].running

Reads(c) == down[c] # <<>> /\ ~client[c].ended

ClientEnds(c) ==
  /\ Reads(c) /\ (Missing(c, Head(down[c])) \/ DestroyedTwice(c, Head(down[c])))
  /\ client' = [client EXCEPT ![c].ended = TRUE]
  /\ UNCHANGED <<serverVars, up, down, bounds>>

(* ClientReadNet *)
ClientRead(c) ==
  /\ Reads(c) /\ ~Missing(c, Head(down[c]))
  /\ LET m == Head(down[c]) IN
     CASE m.kind = "GIVEAWAY" -> ReadGiveaway(c, m)
       [] m.kind = "RESIGN" -> ReadResign(c, m)
       [] m.kind = "AI_CREATED" -> ReadAICreated(c, m)
       [] m.kind = "NEWFRAME" -> ReadNewFrame(c, m)
       [] OTHER -> ReadAIState(c, m)
  /\ down' = [down EXCEPT ![c] = Tail(@)]
  /\ UNCHANGED <<serverVars, bounds>>
--------------------------------------------------------------------------------
(* The users. *)

Asks(c, packet) ==
  /\ ~client[c].ended /\ commands < MaxCommands /\ commands' = commands + 1
  /\ up' = [up EXCEPT ![c] = Append(@, packet)]
  /\ UNCHANGED <<serverVars, down, deaths>>

(* the quit dialogue *)
GiveAway(c) ==
  LET me == client[c] IN
  /\ ~me.spectator[c] /\ TeamOf[c] \notin me.dead
  /\ Asks(c, Packet("GIVEAWAY", c, TeamOf[c], None))
  /\ UNCHANGED client

Resign(c) ==
  /\ ~client[c].spectator[c]
  /\ Asks(c, Packet("RESIGN", c, None, None))
  /\ UNCHANGED client

(* /aikill and /aireload, and a crash of the AI, which is handled as if it *)
(* had been killed                                                         *)
AIKill(c, t, kind) ==
  LET ids == HostedIn(t, client[c].ai, c) IN
  /\ ids # {} /\ t \notin client[c].dead
  /\ IF kind = "GIVEAWAY"
       THEN Asks(c, Packet("GIVEAWAY", c, t, None))
       ELSE Asks(c, State(c, First(ids), kind))
  /\ UNCHANGED client

KillKinds == {"DIEING", "RELOADING"} \cup (IF Gifts THEN {"GIVEAWAY"} ELSE {})

AIControl(c, t) ==
  LET me == client[c] IN
  /\ me.leader[t] = c \/ SinglePlayer \/ (Allied(c, t) /\ me.leader[t] = None)
  /\ t \notin me.dead /\ AIsIn(t, me.ai) = {} /\ t \notin me.inCreation
  /\ client' = [client EXCEPT ![c].inCreation = @ \cup {t}]
  /\ Asks(c, Packet("AI_CREATED", c, t, None))

Next ==
  \/ \E p \in Players :
       \/ ServerRead(p) \/ SpecPlayer(p) \/ ClientRead(p) \/ ClientEnds(p)
       \/ GiveAway(p) \/ Resign(p)
       \/ \E t \in Teams : AIControl(p, t) \/ \E kind \in KillKinds : AIKill(p, t, kind)
  \/ \E t \in Teams : CreateNewFrame(t)

Spec == Init /\ [][Next]_vars

(* Both loops, the server's and a client's, read what there is. *)
Fairness == \A p \in Players : WF_vars(ServerRead(p)) /\ WF_vars(ClientRead(p))

FairSpec == Spec /\ Fairness
--------------------------------------------------------------------------------
(* Properties. *)

AIs == [host : Players \cup {None}, team : Teams \cup {None}, status : States]
Kinds == States \cup {"GIVEAWAY", "RESIGN", "TEAM_DIED", "AI_CREATED", "NEWFRAME"}
Packets == [kind : Kinds, player : Players \cup {None},
            team : Teams \cup {None}, slot : Slots \cup {None}]
Copies == [spectator : [Players -> BOOLEAN], leader : [Teams -> Players \cup {None}],
           dead : SUBSET Teams, ai : [Slots -> AIs],
           inCreation : SUBSET Teams, running : SUBSET Slots, ended : BOOLEAN]

(* The types of the server's fields, of the clients' and of what is sent. *)
TypeOK ==
  /\ spectator \in [Players -> BOOLEAN]
  /\ leader \in [Teams -> Players \cup {None}] /\ active \in [Teams -> BOOLEAN]
  /\ skirmishAIs \in [Slots -> AIs]
  /\ freeSkirmishAIs \in Seq(Slots)
  /\ aiClientLinks \in [Players -> SUBSET Slots]
  /\ client \in [Players -> Copies]
  /\ up \in [Players -> Seq(Packets)] /\ down \in [Players -> Seq(Packets)]
  /\ commands \in 0..MaxCommands /\ deaths \in 0..MaxDeaths

(* Every slot is either in use or free, and free only once, however often  *)
(* an AI is killed, reloaded and killed again while the first request is   *)
(* under way: a slot freed twice would be given to two AIs.                *)
SlotsAreAccountedFor ==
  /\ \A s \in Slots :
       skirmishAIs[s].host = None <=> \E n \in DOMAIN freeSkirmishAIs : freeSkirmishAIs[n] = s
  /\ \A m, n \in DOMAIN freeSkirmishAIs : freeSkirmishAIs[m] = freeSkirmishAIs[n] => m = n

(* What an AI's host sends for it is relayed as long as the AI lives, also *)
(* when its slot had other owners before.                                  *)
AIsAreHeard ==
  \A s \in Slots : skirmishAIs[s].host # None => s \in aiClientLinks[skirmishAIs[s].host]

(* A team in play has somebody to play it and a leader ("team has no       *)
(* controller left now" is when it is taken out).                          *)
ActiveIsControlled ==
  \A t \in Teams : active[t] => leader[t] # None /\ NumControllers(t, spectator, skirmishAIs) > 0

(* A client that has read everything knows of the same AIs, in the same    *)
(* slots, as the server: the lists of a team's AIs are to be "consistent". *)
SameAIs == \A c \in Players : down[c] = <<>> => client[c].ai = skirmishAIs

(* When a client reads that the state of an AI has changed, it knows that   *)
(* AI: it looks up and changes it without asking whether it is there.      *)
ClientsAreNotSurprised ==
  \A c \in Players : down[c] # <<>> /\ Head(down[c]).kind \in States =>
    client[c].ai[Head(down[c]).slot].host # None

(* DestroySkirmishAI finds the instance it has to kill: "assert(false)" is  *)
(* what it does otherwise.  Two commands about one AI violate this.        *)
DestroyAssert == \A c \in Players : Reads(c) => ~DestroyedTwice(c, Head(down[c]))

(* An AI whose host has it killed is gone in the end, its slot at the       *)
(* server and its instance at the host, whatever else is asked meanwhile,  *)
(* as long as no client meets a packet that it is not made for.            *)
NobodyFails ==
  \A c \in Players : Reads(c) => ~Missing(c, Head(down[c])) /\ ~DestroyedTwice(c, Head(down[c]))
Condemned(p, s) ==
  up[p] # <<>> /\ Head(up[p]) = State(p, s, "DIEING") /\ skirmishAIs[s].host = p
Gone(p, s) == skirmishAIs[s].host = None /\ s \notin client[p].running
KilledIsGone ==
  []NobodyFails => \A p \in Players, s \in Slots : Condemned(p, s) ~> Gone(p, s)

(* An AI that is only ever told to reload stays: its management state is   *)
(* not reset, as it "will be reinitialized instantly".  Violated if it     *)
(* reports from its first reload while the second is under way.            *)
NeverDieing(s) == \A p \in Players : up[p] # <<>> => Head(up[p]) # State(p, s, "DIEING")
ReloadedStays ==
  \A s \in Slots :
    InScript(s) /\ [](NobodyFails /\ NeverDieing(s)) => [](skirmishAIs[s].host # None)
================================================================================
