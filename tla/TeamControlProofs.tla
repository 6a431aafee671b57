--------------------------- MODULE TeamControlProofs ---------------------------
(***************************************************************************)
(* Proofs about TeamControl, for every number of players, teams and slots, *)
(* every start script and any commands in any order: what the server knows *)
(* of AIs, slots and leaders stays consistent.  What depends on the slots  *)
(* holds if AIs are not given away (~Gifts), as that makes the server read *)
(* behind an empty list.                                                   *)
(***************************************************************************)
EXTENDS TeamControl, FiniteSetTheorems, WellFoundedInduction, TLAPS

(* What client p sends: a state is that of a slot; what is given away is   *)
(* the player's own, if no AI is.                                          *)
Asked(p) ==
  {m \in Packets :
    /\ m.kind \in States => m.slot \in Slots
    /\ m.kind \in {"GIVEAWAY", "TEAM_DIED", "AI_CREATED"} => m.team \in Teams
    /\ m.kind = "GIVEAWAY" /\ ~Gifts => m.team = TeamOf[p]
    /\ m.kind # "NEWFRAME"}

(* What the server sends. *)
Told ==
  {m \in Packets :
    /\ m.kind \in States \cup {"AI_CREATED"} => m.slot \in Slots
    /\ m.kind \in {"AI_CREATED", "NEWFRAME", "GIVEAWAY"} => m.team \in Teams
    /\ m.kind \in {"AI_CREATED", "RESIGN", "GIVEAWAY"} => m.player \in Players
    /\ m.kind # "TEAM_DIED"}

ServerTypes ==
  /\ spectator \in [Players -> BOOLEAN]
  /\ leader \in [Teams -> Players \cup {None}]
  /\ active \in [Teams -> BOOLEAN]
  /\ skirmishAIs \in [Slots -> AIs]
  /\ \A s \in Slots : skirmishAIs[s].host # None => skirmishAIs[s].team \in Teams
  /\ freeSkirmishAIs \in Seq(Slots)
  /\ aiClientLinks \in [Players -> SUBSET Slots]

ToldTypes == down \in [Players -> Seq(Told)]

AskedTypes ==
  /\ up = [p \in Players |-> up[p]]
  /\ \A p \in Players : up[p] \in Seq(Asked(p))

(* The slots, as long as no AI is given away. *)
Accounted == ~Gifts => SlotsAreAccountedFor

(* The part of the invariant that is the server's own. *)
ServerIsSound == ServerTypes /\ ToldTypes /\ Accounted /\ AIsAreHeard

Inductive == ServerIsSound /\ AskedTypes
--------------------------------------------------------------------------------
(* Numbers and sets. *)

LEMMA Types ==
  /\ NumPlayers \in Nat /\ NumTeams \in Nat /\ MaxAIs \in Nat
  /\ Players \subseteq Nat /\ Slots \subseteq Nat /\ Teams \subseteq Nat
  /\ None \notin Players /\ None \notin Slots /\ None \notin Teams
  /\ \A p \in Players : TeamOf[p] \in Teams
<1>1. NumPlayers \in Nat /\ NumTeams \in Nat /\ MaxAIs \in Nat
  BY TeamAssumption DEF TeamAssumption
<1>2. \A p \in Players : TeamOf[p] \in Teams
  BY TeamAssumption DEF TeamAssumption
<1> QED
  BY <1>1, <1>2 DEF Players, Slots, Teams, None

LEMMA FiniteSlots ==
  ASSUME NEW S, S \subseteq Slots
  PROVE  IsFiniteSet(S) /\ Cardinality(S) \in Nat
<1>1. IsFiniteSet(Slots)
  BY Types, FS_Interval DEF Slots
<1> QED
  BY <1>1, FS_Subset, FS_CardinalityType

LEMMA FinitePlayers ==
  ASSUME NEW S, S \subseteq Players
  PROVE  IsFiniteSet(S) /\ Cardinality(S) \in Nat
<1>1. IsFiniteSet(Players)
  BY Types, FS_Interval DEF Players
<1> QED
  BY <1>1, FS_Subset, FS_CardinalityType

(* First is the least element of a set of numbers. *)
LEMMA FirstIsLeast ==
  ASSUME NEW S, S \subseteq Nat, S # {}
  PROVE  First(S) \in S
<1> DEFINE R == OpToRel(<, Nat)
<1>1. IsWellFoundedOn(R, Nat)
  BY NatLessThanWellFounded
<1>2. \A x, y \in Nat : y < x => <<y, x>> \in R
  BY DEF OpToRel
<1> HIDE DEF R
<1>3. PICK x \in S : \A y \in S : ~ (<<y, x>> \in R)
  BY <1>1, WFMin
<1>4. \A y \in S : ~ (y < x)
  BY <1>2, <1>3
<1>5. \A y \in S : x <= y
  BY <1>4
<1> QED
  BY <1>5 DEF First

(* A function on 1..n is a sequence of length n. *)
LEMMA FunctionIsSeq ==
  ASSUME NEW S, NEW n \in Nat, NEW f \in [1..n -> S]
  PROVE  f \in Seq(S) /\ Len(f) = n
  OBVIOUS

(* The head of a sequence is an element, its tail a sequence. *)
LEMMA HeadAndTail ==
  ASSUME NEW S, NEW q \in Seq(S), q # <<>>
  PROVE  Head(q) \in S /\ Tail(q) \in Seq(S)
  OBVIOUS
--------------------------------------------------------------------------------
(* The server's slots. *)

(* A broadcast is what the server sends. *)
LEMMA BroadcastIsTold ==
  ASSUME ToldTypes, NEW m \in Told, Broadcast(m)
  PROVE  ToldTypes'
  BY DEF ToldTypes, Broadcast

(* A slot that is released is free; an AI's slot was not before. *)
LEMMA ReleaseKeepsSlots ==
  ASSUME ServerTypes, NEW s \in Slots, Release(s)
  PROVE  /\ skirmishAIs' \in [Slots -> AIs]
         /\ freeSkirmishAIs' \in Seq(Slots)
         /\ \A u \in Slots : skirmishAIs'[u] = IF u = s THEN NoAI ELSE skirmishAIs[u]
         /\ SlotsAreAccountedFor /\ skirmishAIs[s].host # None => SlotsAreAccountedFor'
<1> DEFINE q == freeSkirmishAIs
           r == freeSkirmishAIs'
<1>1. NoAI \in AIs /\ NoAI.host = None
  BY DEF NoAI, AIs, States
<1>2. /\ skirmishAIs' \in [Slots -> AIs]
      /\ \A u \in Slots : skirmishAIs'[u] = IF u = s THEN NoAI ELSE skirmishAIs[u]
  BY <1>1 DEF Release, ServerTypes
<1>3. q \in Seq(Slots) /\ r = Append(q, s)
  BY DEF Release, ServerTypes
<1>4. /\ r \in Seq(Slots) /\ Len(r) = Len(q) + 1 /\ Len(q) \in Nat
      /\ DOMAIN r = 1..Len(r) /\ DOMAIN q = 1..Len(q)
      /\ r[Len(r)] = s
      /\ \A n \in 1..Len(q) : r[n] = q[n]
  BY <1>3
<1>5. ASSUME SlotsAreAccountedFor, skirmishAIs[s].host # None
      PROVE  SlotsAreAccountedFor'
  <2>1. \A n \in DOMAIN q : q[n] # s
    BY <1>5 DEF SlotsAreAccountedFor
  <2>2. ASSUME NEW u \in Slots
        PROVE  skirmishAIs'[u].host = None <=> \E n \in DOMAIN r : r[n] = u
    <3>1. CASE u = s
      BY <1>1, <1>2, <1>4, <3>1
    <3>2. CASE u # s
      <4>1. (\E n \in DOMAIN r : r[n] = u) <=> \E n \in DOMAIN q : q[n] = u
        BY <1>4, <3>2
      <4> QED
        BY <1>2, <1>5, <3>2, <4>1 DEF SlotsAreAccountedFor
    <3> QED
      BY <3>1, <3>2
  <2>3. ASSUME NEW m \in DOMAIN r, NEW n \in DOMAIN r, r[m] = r[n]
        PROVE  m = n
    BY <1>4, <1>5, <2>1, <2>3 DEF SlotsAreAccountedFor
  <2> HIDE DEF q, r
  <2> QED
    BY <2>2, <2>3 DEF SlotsAreAccountedFor, r
<1> HIDE DEF q, r
<1> QED
  BY <1>2, <1>4, <1>5 DEF r, q

(* The slot that is reserved is a free one, and only that is taken.        *)
LEMMA ReserveKeepsSlots ==
  ASSUME ServerTypes, freeSkirmishAIs # <<>>,
         NEW s, s = ReserveSkirmishAIId, NEW ai \in AIs, ai.host # None,
         skirmishAIs' = [skirmishAIs EXCEPT ![s] = ai],
         freeSkirmishAIs' = SubSeq(freeSkirmishAIs, 1, Len(freeSkirmishAIs) - 1)
  PROVE  /\ s \in Slots
         /\ skirmishAIs' \in [Slots -> AIs]
         /\ freeSkirmishAIs' \in Seq(Slots)
         /\ \A u \in Slots : skirmishAIs'[u] = IF u = s THEN ai ELSE skirmishAIs[u]
         /\ SlotsAreAccountedFor => SlotsAreAccountedFor'
<1> DEFINE q == freeSkirmishAIs
           r == freeSkirmishAIs'
<1>1. q \in Seq(Slots) /\ Len(q) \in Nat \ {0} /\ DOMAIN q = 1..Len(q)
  BY DEF ServerTypes
<1>2. s = q[Len(q)] /\ s \in Slots
  BY <1>1 DEF ReserveSkirmishAIId
<1>3. /\ skirmishAIs' \in [Slots -> AIs]
      /\ \A u \in Slots : skirmishAIs'[u] = IF u = s THEN ai ELSE skirmishAIs[u]
  BY <1>2 DEF ServerTypes
<1>4. /\ r \in Seq(Slots) /\ Len(r) = Len(q) - 1 /\ DOMAIN r = 1..Len(r)
      /\ \A n \in 1..Len(r) : r[n] = q[n]
  BY <1>1
<1>5. ASSUME SlotsAreAccountedFor
      PROVE  SlotsAreAccountedFor'
  <2>1. \A n \in DOMAIN r : r[n] # s
    BY <1>1, <1>2, <1>4, <1>5 DEF SlotsAreAccountedFor
  <2>2. ASSUME NEW u \in Slots
        PROVE  skirmishAIs'[u].host = None <=> \E n \in DOMAIN r : r[n] = u
    <3>1. CASE u = s
      BY <1>3, <2>1, <3>1
    <3>2. CASE u # s
      <4>1. \A n \in DOMAIN q : n \in DOMAIN r \/ n = Len(q)
        <5>1. \A k \in Nat \ {0} : \A n \in 1..k : n \in 1..(k - 1) \/ n = k
          OBVIOUS
        <5> HIDE DEF q, r
        <5> QED
          BY <1>1, <1>4, <5>1
      <4>2. \A n \in DOMAIN r : n \in DOMAIN q /\ q[n] = r[n]
        BY <1>1, <1>4
      <4>3. \A n \in DOMAIN q : q[n] = u => n \in DOMAIN r /\ r[n] = u
        BY <1>1, <1>2, <1>4, <2>1, <3>2, <4>1
      <4>4. (\E n \in DOMAIN r : r[n] = u) <=> \E n \in DOMAIN q : q[n] = u
        BY <4>2, <4>3
      <4> QED
        BY <1>3, <1>5, <3>2, <4>4 DEF SlotsAreAccountedFor
    <3> QED
      BY <3>1, <3>2
  <2>3. ASSUME NEW m \in DOMAIN r, NEW n \in DOMAIN r, r[m] = r[n]
        PROVE  m = n
    BY <1>1, <1>4, <1>5, <2>3 DEF SlotsAreAccountedFor
  <2> HIDE DEF q, r
  <2> QED
    BY <2>2, <2>3 DEF SlotsAreAccountedFor, r
<1> HIDE DEF q, r
<1> QED
  BY <1>2, <1>3, <1>4, <1>5 DEF r
--------------------------------------------------------------------------------
(* The server's handlers. *)

(* Who leads after somebody has resigned is a player or nobody. *)
LEMMA NextLeaderType ==
  ASSUME NEW t \in Teams, NEW p \in Players, NEW leads \in [Teams -> Players \cup {None}],
         NEW watching, NEW ais \in [Slots -> AIs]
  PROVE  NextLeader(t, p, leads, watching, ais) \in Players \cup {None}
<1>1. PlayersIn(t, watching) \subseteq Players /\ AIsIn(t, ais) \subseteq Slots
  BY DEF PlayersIn, AIsIn
<1>2. PlayersIn(t, watching) # {} => First(PlayersIn(t, watching)) \in Players
  BY <1>1, FirstIsLeast, Types
<1>3. AIsIn(t, ais) # {} => ais[First(AIsIn(t, ais))].host \in Players \cup {None}
  BY <1>1, FirstIsLeast, Types DEF AIs
<1> QED
  BY <1>2, <1>3 DEF NextLeader

LEMMA ResignKeepsServer ==
  ASSUME ServerIsSound, NEW p \in Players, ResignPlayer(p)
  PROVE  ServerIsSound'
<1> USE DEF ServerIsSound
<1>1. Packet("RESIGN", p, None, None) \in Told
  BY DEF Packet, Told, Packets, Kinds, States
<1>2. ToldTypes'
  BY <1>1, BroadcastIsTold DEF ResignPlayer
<1>3. spectator' \in [Players -> BOOLEAN]
  BY DEF ResignPlayer, ServerTypes
<1>4. leader' \in [Teams -> Players \cup {None}]
  BY NextLeaderType DEF ResignPlayer, ServerTypes
<1>5. active' \in [Teams -> BOOLEAN]
  BY DEF ResignPlayer, ServerTypes
<1>6. UNCHANGED <<skirmishAIs, freeSkirmishAIs, aiClientLinks>>
  BY DEF ResignPlayer
<1>7. Accounted' /\ AIsAreHeard'
  BY <1>6 DEF Accounted, SlotsAreAccountedFor, AIsAreHeard
<1> QED
  BY <1>2, <1>3, <1>4, <1>5, <1>6, <1>7 DEF ServerTypes

(* A player's own team is given away, and another one's with an AI of it.  *)
LEMMA GiveawayKeepsServer ==
  ASSUME ServerIsSound, NEW p \in Players, NEW t \in Teams, ~Gifts => t = TeamOf[p],
         HandleGiveaway(p, t)
  PROVE  ServerIsSound'
<1> USE DEF ServerIsSound
<1> DEFINE own == t = TeamOf[p]
           deserted == PlayersIn(t, spectator) = {}
           last == (own \/ deserted) /\ NumControllers(t, spectator, skirmishAIs) = 1
<1>1. CASE GiveawayRefused(p, t)
  <2>1. UNCHANGED <<serverVars, down>>
    BY <1>1 DEF HandleGiveaway
  <2> QED
    BY <2>1 DEF serverVars, ServerTypes, ToldTypes, Accounted, SlotsAreAccountedFor, AIsAreHeard
<1>2. CASE ~GiveawayRefused(p, t)
  <2>1. /\ Broadcast(Packet("GIVEAWAY", p, t, None))
        /\ spectator' \in {spectator, [spectator EXCEPT ![p] = TRUE]}
        /\ IF ~own /\ deserted THEN \E s \in GivenAIs(t, p) : Release(s)
           ELSE UNCHANGED <<skirmishAIs, freeSkirmishAIs>>
        /\ AbandonIf(last, t)
        /\ UNCHANGED aiClientLinks
    BY <1>2 DEF HandleGiveaway
  <2> HIDE DEF last
  <2>2. Packet("GIVEAWAY", p, t, None) \in Told
    BY DEF Packet, Told, Packets, Kinds, States
  <2>3. ToldTypes'
    BY <2>1, <2>2, BroadcastIsTold
  <2>4. /\ leader' \in [Teams -> Players \cup {None}] /\ active' \in [Teams -> BOOLEAN]
        /\ spectator' \in [Players -> BOOLEAN]
    BY <2>1 DEF ServerTypes, AbandonIf, Abandon
  <2>5. CASE ~own /\ deserted
    <3>1. PICK s \in GivenAIs(t, p) : Release(s)
      BY <2>1, <2>5
    <3>2. s \in Slots
      <4> DEFINE ids == HostedIn(t, skirmishAIs, p)
      <4>1. ids \subseteq Slots
        BY DEF HostedIn, AIsIn
      <4>2. s \in IF ids # {} THEN {First(ids)} ELSE Slots
        BY <3>1 DEF GivenAIs
      <4> HIDE DEF ids
      <4> QED
        BY <4>1, <4>2, FirstIsLeast, Types
    <3>3. /\ skirmishAIs' \in [Slots -> AIs] /\ freeSkirmishAIs' \in Seq(Slots)
          /\ \A u \in Slots : skirmishAIs'[u] = IF u = s THEN NoAI ELSE skirmishAIs[u]
      BY <3>1, <3>2, ReleaseKeepsSlots
    <3>4. NoAI.host = None
      BY DEF NoAI
    <3>5. Gifts
      BY <2>5
    <3>6. Accounted'
      BY <3>5 DEF Accounted
    <3>7. AIsAreHeard'
      BY <2>1, <3>3, <3>4 DEF AIsAreHeard
    <3>8. \A u \in Slots : skirmishAIs'[u].host # None => skirmishAIs'[u].team \in Teams
      BY <3>3, <3>4 DEF ServerTypes
    <3> QED
      BY <2>1, <2>3, <2>4, <3>3, <3>6, <3>7, <3>8 DEF ServerTypes
  <2>6. CASE ~(~own /\ deserted)
    <3>1. UNCHANGED <<skirmishAIs, freeSkirmishAIs>>
      BY <2>1, <2>6
    <3>2. Accounted' /\ AIsAreHeard'
      BY <2>1, <3>1 DEF Accounted, SlotsAreAccountedFor, AIsAreHeard
    <3> QED
      BY <2>1, <2>3, <2>4, <3>1, <3>2 DEF ServerTypes
  <2> QED
    BY <2>5, <2>6
<1> QED
  BY <1>1, <1>2

LEMMA TeamDiedKeepsServer ==
  ASSUME ServerIsSound, NEW p \in Players, NEW t \in Teams, HandleTeamDied(p, t)
  PROVE  ServerIsSound'
<1> USE DEF ServerIsSound
<1>1. ToldTypes' /\ Accounted' /\ AIsAreHeard'
  BY DEF HandleTeamDied, serverVars, ToldTypes, Accounted, SlotsAreAccountedFor, AIsAreHeard
<1>2. CASE Host \notin {p, None}
  BY <1>1, <1>2 DEF HandleTeamDied, serverVars, ServerTypes
<1>3. CASE Host \in {p, None}
  BY <1>1, <1>3 DEF HandleTeamDied, Abandon, ServerTypes
<1> QED
  BY <1>2, <1>3

LEMMA AICreatedKeepsServer ==
  ASSUME ServerIsSound, NEW p \in Players, NEW t \in Teams, HandleAICreated(p, t)
  PROVE  ServerIsSound'
<1> USE DEF ServerIsSound
<1> DEFINE s == ReserveSkirmishAIId
           refused == ~MayCreateAI(p, t) \/ freeSkirmishAIs = <<>>
<1>1. CASE refused
  <2>1. UNCHANGED <<serverVars, down>>
    BY <1>1 DEF HandleAICreated
  <2> QED
    BY <2>1 DEF serverVars, ServerTypes, ToldTypes, Accounted, SlotsAreAccountedFor, AIsAreHeard
<1>2. CASE ~refused
  <2>1. /\ freeSkirmishAIs # <<>>
        /\ freeSkirmishAIs' = SubSeq(freeSkirmishAIs, 1, Len(freeSkirmishAIs) - 1)
        /\ aiClientLinks' = [aiClientLinks EXCEPT ![p] = @ \cup {s}]
        /\ skirmishAIs' = [skirmishAIs EXCEPT ![s] = NewAI(p, t)]
        /\ Broadcast(Packet("AI_CREATED", p, t, s))
        /\ UNCHANGED spectator
        /\ leader' \in {leader, [leader EXCEPT ![t] = p]}
        /\ active' \in {active, [active EXCEPT ![t] = TRUE]}
    BY <1>2 DEF HandleAICreated, Link
  <2>2. NewAI(p, t) \in AIs /\ NewAI(p, t).host = p /\ NewAI(p, t).team = t /\ p # None
    BY Types DEF NewAI, AIs, States
  <2> HIDE DEF s
  <2>3. /\ s \in Slots
        /\ skirmishAIs' \in [Slots -> AIs] /\ freeSkirmishAIs' \in Seq(Slots)
        /\ \A u \in Slots : skirmishAIs'[u] = IF u = s THEN NewAI(p, t) ELSE skirmishAIs[u]
        /\ Accounted'
    BY <2>1, <2>2, ReserveKeepsSlots DEF s, Accounted
  <2>4. Packet("AI_CREATED", p, t, s) \in Told
    BY <2>3 DEF Packet, Told, Packets, Kinds, States
  <2>5. ToldTypes'
    BY <2>1, <2>4, BroadcastIsTold
  <2>6. /\ aiClientLinks' \in [Players -> SUBSET Slots]
        /\ leader' \in [Teams -> Players \cup {None}] /\ active' \in [Teams -> BOOLEAN]
    <3>1. aiClientLinks' \in [Players -> SUBSET Slots]
      BY <2>1, <2>3 DEF ServerTypes
    <3>2. leader' \in [Teams -> Players \cup {None}]
      BY <2>1 DEF ServerTypes
    <3>3. active' \in [Teams -> BOOLEAN]
      BY <2>1 DEF ServerTypes
    <3> QED
      BY <3>1, <3>2, <3>3
  <2>7. \A u \in Slots : skirmishAIs'[u].host # None => skirmishAIs'[u].team \in Teams
    BY <2>2, <2>3 DEF ServerTypes
  <2>8. AIsAreHeard'
    <3> SUFFICES ASSUME NEW u \in Slots, skirmishAIs'[u].host # None
                 PROVE  u \in aiClientLinks'[skirmishAIs'[u].host]
      BY DEF AIsAreHeard
    <3>1. CASE u = s
      BY <2>1, <2>2, <2>3, <3>1 DEF ServerTypes
    <3>2. CASE u # s
      <4>1. skirmishAIs'[u] = skirmishAIs[u] /\ skirmishAIs[u].host \in Players
        BY <2>3, <3>2 DEF ServerTypes, AIs
      <4> QED
        BY <2>1, <4>1 DEF AIsAreHeard, ServerTypes
    <3> QED
      BY <3>1, <3>2
  <2> QED
    BY <2>1, <2>3, <2>5, <2>6, <2>7, <2>8 DEF ServerTypes
<1> QED
  BY <1>1, <1>2

LEMMA AIStateKeepsServer ==
  ASSUME ServerIsSound, NEW p \in Players, NEW s \in Slots, NEW state \in States,
         HandleAIState(p, s, state)
  PROVE  ServerIsSound'
<1> USE DEF ServerIsSound
<1> DEFINE ai == skirmishAIs[s]
<1>1. CASE ~MayChangeAI(p, s)
  <2>1. UNCHANGED <<serverVars, down>>
    BY <1>1 DEF HandleAIState
  <2> QED
    BY <2>1 DEF serverVars, ServerTypes, ToldTypes, Accounted, SlotsAreAccountedFor, AIsAreHeard
<1>2. CASE MayChangeAI(p, s)
  <2>1. ai.host # None /\ ai.team \in Teams /\ ai \in AIs
    BY <1>2 DEF MayChangeAI, ServerTypes
  <2>2. Packet(state, p, None, s) \in Told
    BY DEF Packet, Told, Packets, Kinds, States
  <2>3. ToldTypes' /\ UNCHANGED spectator
    BY <1>2, <2>2, BroadcastIsTold DEF HandleAIState
  <2>4. CASE Ends(ai, state)
    <3> DEFINE last == NumControllers(ai.team, spectator, skirmishAIs) = 1
    <3>1. /\ Release(s) /\ AbandonIf(last, ai.team)
          /\ aiClientLinks' = [aiClientLinks EXCEPT ![p] = @ \ {s}]
      BY <1>2, <2>4 DEF HandleAIState
    <3> HIDE DEF last
    <3>2. /\ skirmishAIs' \in [Slots -> AIs] /\ freeSkirmishAIs' \in Seq(Slots)
          /\ \A u \in Slots : skirmishAIs'[u] = IF u = s THEN NoAI ELSE skirmishAIs[u]
          /\ Accounted'
      BY <2>1, <3>1, ReleaseKeepsSlots DEF Accounted
    <3>3. NoAI.host = None
      BY DEF NoAI
    <3>4. leader' \in [Teams -> Players \cup {None}] /\ active' \in [Teams -> BOOLEAN]
      BY <2>1, <3>1 DEF ServerTypes, AbandonIf, Abandon
    <3>5. \A u \in Slots : skirmishAIs'[u].host # None => skirmishAIs'[u].team \in Teams
      BY <3>2, <3>3 DEF ServerTypes
    <3>6. AIsAreHeard'
      <4> SUFFICES ASSUME NEW u \in Slots, skirmishAIs'[u].host # None
                   PROVE  u \in aiClientLinks'[skirmishAIs'[u].host]
        BY DEF AIsAreHeard
      <4>1. u # s /\ skirmishAIs'[u] = skirmishAIs[u] /\ skirmishAIs[u].host \in Players
        BY <3>2, <3>3 DEF ServerTypes, AIs
      <4> QED
        BY <3>1, <4>1 DEF AIsAreHeard, ServerTypes
    <3> QED
      BY <2>3, <3>1, <3>2, <3>4, <3>5, <3>6 DEF ServerTypes
  <2>5. CASE ~Ends(ai, state)
    <3>1. /\ skirmishAIs' = [skirmishAIs EXCEPT ![s].status = state]
          /\ UNCHANGED <<freeSkirmishAIs, aiClientLinks, leader, active>>
      BY <1>2, <2>5 DEF HandleAIState
    <3>2. skirmishAIs' \in [Slots -> AIs]
      BY <3>1 DEF ServerTypes, AIs
    <3>3. \A u \in Slots : /\ skirmishAIs'[u].host = skirmishAIs[u].host
                           /\ skirmishAIs'[u].team = skirmishAIs[u].team
      BY <3>1 DEF ServerTypes, AIs
    <3>4. Accounted' /\ AIsAreHeard'
      BY <3>1, <3>3 DEF Accounted, SlotsAreAccountedFor, AIsAreHeard
    <3> QED
      BY <2>3, <3>1, <3>2, <3>3, <3>4 DEF ServerTypes
  <2> QED
    BY <2>4, <2>5
<1> QED
  BY <1>1, <1>2
--------------------------------------------------------------------------------
(* What the clients send. *)

(* A client's answers are appended to what it sent before. *)
LEMMA RepliesAreAsked ==
  ASSUME AskedTypes, NEW c \in Players, NEW q \in Seq(Asked(c)), Replies(c, q)
  PROVE  AskedTypes'
<1>1. up = [p \in Players |-> up[p]] /\ up' = [up EXCEPT ![c] = up[c] \o q]
  BY DEF AskedTypes, Replies
<1>2. up' = [p \in Players |-> up'[p]]
  BY <1>1
<1>3. \A p \in Players : up'[p] = IF p = c THEN up[c] \o q ELSE up[p]
  BY <1>1
<1>4. up[c] \o q \in Seq(Asked(c))
  BY DEF AskedTypes
<1> QED
  BY <1>2, <1>3, <1>4 DEF AskedTypes

LEMMA StateIsAsked ==
  ASSUME NEW c \in Players, NEW s \in Slots, NEW state \in States
  PROVE  State(c, s, state) \in Asked(c)
  BY DEF State, Packet, Asked, Packets, Kinds, States

LEMMA ReadAICreatedAsks ==
  ASSUME AskedTypes, NEW c \in Players, NEW m \in Told, m.kind = "AI_CREATED",
         ReadAICreated(c, m)
  PROVE  AskedTypes'
<1>1. m.slot \in Slots
  BY DEF Told
<1>2. CASE m.player = c
  <2>1. Replies(c, <<State(c, m.slot, "INITIALIZING")>>)
    BY <1>2 DEF ReadAICreated
  <2>2. State(c, m.slot, "INITIALIZING") \in Asked(c)
    BY <1>1, StateIsAsked DEF States
  <2>3. <<State(c, m.slot, "INITIALIZING")>> \in Seq(Asked(c))
    BY <2>2
  <2> QED
    BY <2>1, <2>3, RepliesAreAsked
<1>3. CASE m.player # c
  BY <1>3 DEF ReadAICreated, AskedTypes
<1> QED
  BY <1>2, <1>3

LEMMA ReadAIStateAsks ==
  ASSUME AskedTypes, NEW c \in Players, NEW m \in Told, m.kind \in States, ReadAIState(c, m)
  PROVE  AskedTypes'
<1>1. m.slot \in Slots
  BY DEF Told
<1>2. CASE UNCHANGED up
  BY <1>2 DEF AskedTypes
<1>3. \A state \in {"DEAD", "INITIALIZING"} :
        Replies(c, <<State(c, m.slot, state)>>) => AskedTypes'
  <2> SUFFICES ASSUME NEW state \in {"DEAD", "INITIALIZING"},
                      Replies(c, <<State(c, m.slot, state)>>)
               PROVE  AskedTypes'
    OBVIOUS
  <2>1. State(c, m.slot, state) \in Asked(c)
    BY <1>1, StateIsAsked DEF States
  <2>2. <<State(c, m.slot, state)>> \in Seq(Asked(c))
    BY <2>1
  <2> QED
    BY <2>2, RepliesAreAsked
<1>4. \/ UNCHANGED up
      \/ Replies(c, <<State(c, m.slot, "DEAD")>>)
      \/ Replies(c, <<State(c, m.slot, "INITIALIZING")>>)
  BY DEF ReadAIState, Destroyed, Recreated, Removed
<1> QED
  BY <1>2, <1>3, <1>4

LEMMA ReadNewFrameAsks ==
  ASSUME AskedTypes, NEW c \in Players, NEW m \in Told, m.kind = "NEWFRAME", ReadNewFrame(c, m)
  PROVE  AskedTypes'
<1> DEFINE ids == HostedIn(m.team, client[c].ai, c)
           first == <<Packet("TEAM_DIED", c, m.team, None)>>
<1>1. m.team \in Teams
  BY DEF Told
<1>2. CASE m.team \in client[c].dead
  BY <1>2 DEF ReadNewFrame, AskedTypes
<1>3. CASE m.team \notin client[c].dead
  <2>1. PICK order \in [1..Cardinality(ids) -> ids] :
          Replies(c, first \o [n \in DOMAIN order |-> State(c, order[n], "DIEING")])
    BY <1>3 DEF ReadNewFrame
  <2>2. ids \subseteq Slots
    BY DEF HostedIn, AIsIn
  <2>3. Cardinality(ids) \in Nat
    BY <2>2, FiniteSlots
  <2> HIDE DEF ids
  <2> DEFINE states == [n \in 1..Cardinality(ids) |-> State(c, order[n], "DIEING")]
  <2>4. states \in [1..Cardinality(ids) -> Asked(c)]
    BY <2>2, StateIsAsked DEF States
  <2>5. states \in Seq(Asked(c))
    BY <2>3, <2>4, FunctionIsSeq
  <2>6. Packet("TEAM_DIED", c, m.team, None) \in Asked(c)
    BY <1>1 DEF Packet, Asked, Packets, Kinds, States
  <2>7. first \in Seq(Asked(c))
    BY <2>6
  <2> HIDE DEF first
  <2>8. Replies(c, first \o states)
    BY <2>1
  <2> HIDE DEF states
  <2>9. first \o states \in Seq(Asked(c))
    BY <2>5, <2>7
  <2> QED
    BY <2>8, <2>9, RepliesAreAsked
<1> QED
  BY <1>2, <1>3

(* A client reads, and answers what it is told. *)
LEMMA ClientReadKeeps ==
  ASSUME Inductive, NEW c \in Players, ClientRead(c)
  PROVE  Inductive'
<1> DEFINE m == Head(down[c])
<1>1. down[c] \in Seq(Told) /\ down[c] # <<>>
  BY DEF Inductive, ServerIsSound, ToldTypes, ClientRead, Reads
<1>2. m \in Told /\ Tail(down[c]) \in Seq(Told)
  BY <1>1, HeadAndTail
<1>3. /\ down' = [down EXCEPT ![c] = Tail(@)] /\ UNCHANGED serverVars
  BY DEF ClientRead
<1>4. ToldTypes'
  BY <1>2, <1>3 DEF ToldTypes, Inductive, ServerIsSound
<1>5. ServerIsSound'
  BY <1>3, <1>4 DEF Inductive, ServerIsSound, ServerTypes, serverVars,
                    Accounted, SlotsAreAccountedFor, AIsAreHeard
<1>6. AskedTypes
  BY DEF Inductive
<1> HIDE DEF m
<1>7. m.kind \in States \cup {"GIVEAWAY", "RESIGN", "AI_CREATED", "NEWFRAME"}
  BY <1>2 DEF Told, Packets, Kinds
<1>8. CASE m.kind \in {"GIVEAWAY", "RESIGN"}
  <2>1. UNCHANGED up
    BY <1>8 DEF ClientRead, m, ReadGiveaway, ReadResign
  <2> QED
    BY <2>1, <1>5, <1>6 DEF Inductive, AskedTypes
<1>9. CASE m.kind = "AI_CREATED"
  <2>1. ReadAICreated(c, m)
    BY <1>9 DEF ClientRead, m
  <2> QED
    BY <2>1, <1>2, <1>5, <1>6, <1>9, ReadAICreatedAsks DEF Inductive
<1>10. CASE m.kind = "NEWFRAME"
  <2>1. ReadNewFrame(c, m)
    BY <1>10 DEF ClientRead, m
  <2> QED
    BY <2>1, <1>2, <1>5, <1>6, <1>10, ReadNewFrameAsks DEF Inductive
<1>11. CASE m.kind \in States
  <2>1. ReadAIState(c, m)
    BY <1>11 DEF ClientRead, m, States
  <2> QED
    BY <2>1, <1>2, <1>5, <1>6, <1>11, ReadAIStateAsks DEF Inductive
<1> QED
  BY <1>7, <1>8, <1>9, <1>10, <1>11

(* The server reads what the client of p has sent. *)
LEMMA ServerReadKeeps ==
  ASSUME Inductive, NEW p \in Players, ServerRead(p)
  PROVE  Inductive'
<1> DEFINE m == Head(up[p])
<1>1. up[p] \in Seq(Asked(p)) /\ up[p] # <<>>
  BY DEF Inductive, AskedTypes, ServerRead
<1>2. m \in Asked(p) /\ Tail(up[p]) \in Seq(Asked(p))
  BY <1>1, HeadAndTail
<1>3. up' = [up EXCEPT ![p] = Tail(@)]
  BY DEF ServerRead
<1>4. AskedTypes'
  BY <1>2, <1>3 DEF AskedTypes, Inductive
<1>5. ServerIsSound
  BY DEF Inductive
<1> HIDE DEF m
<1>6. m.kind \in States \cup {"GIVEAWAY", "RESIGN", "TEAM_DIED", "AI_CREATED"}
  BY <1>2 DEF Asked, Packets, Kinds
<1>7. CASE m.kind = "GIVEAWAY"
  <2>1. HandleGiveaway(p, m.team) /\ m.team \in Teams /\ (~Gifts => m.team = TeamOf[p])
    BY <1>2, <1>7 DEF ServerRead, m, Asked
  <2> QED
    BY <2>1, <1>4, <1>5, GiveawayKeepsServer DEF Inductive
<1>8. CASE m.kind = "RESIGN"
  <2>1. HandleResign(p)
    BY <1>8 DEF ServerRead, m
  <2>2. ServerIsSound'
    <3>1. CASE ResignPlayer(p)
      BY <3>1, <1>5, ResignKeepsServer
    <3>2. CASE UNCHANGED <<serverVars, down>>
      BY <3>2, <1>5 DEF ServerIsSound, ServerTypes, serverVars, ToldTypes,
                        Accounted, SlotsAreAccountedFor, AIsAreHeard
    <3> QED
      BY <2>1, <3>1, <3>2 DEF HandleResign
  <2> QED
    BY <2>2, <1>4 DEF Inductive
<1>9. CASE m.kind = "TEAM_DIED"
  <2>1. HandleTeamDied(p, m.team) /\ m.team \in Teams
    BY <1>2, <1>9 DEF ServerRead, m, Asked
  <2> QED
    BY <2>1, <1>4, <1>5, TeamDiedKeepsServer DEF Inductive
<1>10. CASE m.kind = "AI_CREATED"
  <2>1. HandleAICreated(p, m.team) /\ m.team \in Teams
    BY <1>2, <1>10 DEF ServerRead, m, Asked
  <2> QED
    BY <2>1, <1>4, <1>5, AICreatedKeepsServer DEF Inductive
<1>11. CASE m.kind \in States
  <2>1. HandleAIState(p, m.slot, m.kind)
    BY <1>11 DEF ServerRead, m, States
  <2>2. m.slot \in Slots
    BY <1>2, <1>11 DEF Asked
  <2> QED
    BY <2>1, <2>2, <1>4, <1>5, <1>11, AIStateKeepsServer DEF Inductive
<1> QED
  BY <1>6, <1>7, <1>8, <1>9, <1>10, <1>11

(* A user's command is appended to what the client sent before. *)
LEMMA AsksKeeps ==
  ASSUME Inductive, NEW c \in Players, NEW m \in Asked(c), Asks(c, m)
  PROVE  Inductive'
<1>1. up' = [up EXCEPT ![c] = Append(@, m)] /\ UNCHANGED <<serverVars, down>>
  BY DEF Asks
<1>2. AskedTypes'
  <2>1. up = [p \in Players |-> up[p]] /\ up' = [up EXCEPT ![c] = Append(up[c], m)]
    BY <1>1 DEF Inductive, AskedTypes
  <2>2. up' = [p \in Players |-> up'[p]]
    BY <2>1
  <2>3. \A p \in Players : up'[p] = IF p = c THEN Append(up[c], m) ELSE up[p]
    BY <2>1
  <2>4. Append(up[c], m) \in Seq(Asked(c))
    BY DEF Inductive, AskedTypes
  <2> QED
    BY <2>2, <2>3, <2>4 DEF Inductive, AskedTypes
<1>3. ServerIsSound'
  BY <1>1 DEF Inductive, ServerIsSound, ServerTypes, serverVars, ToldTypes,
              Accounted, SlotsAreAccountedFor, AIsAreHeard
<1> QED
  BY <1>2, <1>3 DEF Inductive

LEMMA CommandsKeep ==
  ASSUME Inductive, NEW c \in Players,
         \/ GiveAway(c) \/ Resign(c)
         \/ \E t \in Teams : AIControl(c, t) \/ \E kind \in KillKinds : AIKill(c, t, kind)
  PROVE  Inductive'
<1>1. CASE GiveAway(c)
  <2>1. Asks(c, Packet("GIVEAWAY", c, TeamOf[c], None))
    BY <1>1 DEF GiveAway
  <2>2. Packet("GIVEAWAY", c, TeamOf[c], None) \in Asked(c)
    BY Types DEF Packet, Asked, Packets, Kinds, States
  <2> QED
    BY <2>1, <2>2, AsksKeeps
<1>2. CASE Resign(c)
  <2>1. Asks(c, Packet("RESIGN", c, None, None))
    BY <1>2 DEF Resign
  <2>2. Packet("RESIGN", c, None, None) \in Asked(c)
    BY DEF Packet, Asked, Packets, Kinds, States
  <2> QED
    BY <2>1, <2>2, AsksKeeps
<1>3. ASSUME NEW t \in Teams, AIControl(c, t)
      PROVE  Inductive'
  <2>1. Asks(c, Packet("AI_CREATED", c, t, None))
    BY <1>3 DEF AIControl
  <2>2. Packet("AI_CREATED", c, t, None) \in Asked(c)
    BY DEF Packet, Asked, Packets, Kinds, States
  <2> QED
    BY <2>1, <2>2, AsksKeeps
<1>4. ASSUME NEW t \in Teams, NEW kind \in KillKinds, AIKill(c, t, kind)
      PROVE  Inductive'
  <2> DEFINE ids == HostedIn(t, client[c].ai, c)
  <2>1. CASE kind \in {"DIEING", "RELOADING"}
    <3>1. Asks(c, State(c, First(ids), kind)) /\ ids # {}
      BY <1>4, <2>1 DEF AIKill
    <3>2. ids \subseteq Slots
      BY DEF HostedIn, AIsIn
    <3> HIDE DEF ids
    <3>3. First(ids) \in Slots
      BY <3>1, <3>2, FirstIsLeast, Types
    <3>4. State(c, First(ids), kind) \in Asked(c)
      BY <2>1, <3>3, StateIsAsked DEF States
    <3> QED
      BY <3>1, <3>4, AsksKeeps
  <2>2. CASE kind = "GIVEAWAY" /\ Gifts
    <3>1. Asks(c, Packet("GIVEAWAY", c, t, None))
      BY <1>4, <2>2 DEF AIKill
    <3>2. Packet("GIVEAWAY", c, t, None) \in Asked(c)
      BY <2>2 DEF Packet, Asked, Packets, Kinds, States
    <3> QED
      BY <3>1, <3>2, AsksKeeps
  <2> QED
    BY <2>1, <2>2 DEF KillKinds
<1> QED
  BY <1>1, <1>2, <1>3, <1>4
--------------------------------------------------------------------------------
(* The server's slots and links, in every reachable state. *)

LEMMA InitIsInductive ==
  ASSUME Init
  PROVE  Inductive
<1>1. /\ ScriptAIs \in Seq(Players \X Teams) /\ Len(ScriptAIs) \in 0..MaxAIs
      /\ ScriptLeader \in [Teams -> Players]
  BY Types, TeamAssumption DEF TeamAssumption
<1>2. \A s \in Slots : /\ ScriptedAI(s) \in AIs
                       /\ ScriptedAI(s).host # None => s \in 1..Len(ScriptAIs)
                       /\ ScriptedAI(s).host = None => s \notin 1..Len(ScriptAIs)
                       /\ ScriptedAI(s).host # None => ScriptedAI(s).team \in Teams
  <2> SUFFICES ASSUME NEW s \in Slots
               PROVE  /\ ScriptedAI(s) \in AIs
                      /\ ScriptedAI(s).host # None <=> s \in 1..Len(ScriptAIs)
                      /\ ScriptedAI(s).host # None => ScriptedAI(s).team \in Teams
    OBVIOUS
  <2>1. CASE InScript(s)
    <3>1. s \in 1..Len(ScriptAIs)
      BY <1>1, <2>1, Types DEF InScript, Slots
    <3>2. ScriptAIs[s] \in Players \X Teams
      BY <1>1, <3>1
    <3>3. ScriptedAI(s) = [host |-> ScriptAIs[s][1], team |-> ScriptAIs[s][2],
                           status |-> "INITIALIZING"]
      BY <2>1 DEF ScriptedAI, NewAI
    <3> QED
      BY <3>1, <3>2, <3>3, Types DEF AIs, States
  <2>2. CASE ~InScript(s)
    <3>1. s \notin 1..Len(ScriptAIs)
      BY <1>1, <2>2 DEF InScript
    <3> QED
      BY <2>2, <3>1 DEF ScriptedAI, NoAI, AIs, States
  <2> QED
    BY <2>1, <2>2
<1> DEFINE n == MaxAIs - Len(ScriptAIs)
<1>3. n \in Nat /\ freeSkirmishAIs = [k \in 1..n |-> MaxAIs + 1 - k]
  BY <1>1, Types DEF Init, FreeSlots
<1>4. \A k \in 1..n : MaxAIs + 1 - k \in Slots
  BY <1>1, Types DEF Slots
<1>5. /\ skirmishAIs = [s \in Slots |-> ScriptedAI(s)]
      /\ spectator = [p \in Players |-> FALSE] /\ leader = ScriptLeader
      /\ aiClientLinks = [p \in Players |-> {s \in Slots : skirmishAIs[s].host = p}]
  BY DEF Init
<1>6. ServerTypes
  <2>1. freeSkirmishAIs \in Seq(Slots)
    BY <1>3, <1>4
  <2>2. skirmishAIs \in [Slots -> AIs]
    BY <1>2, <1>5
  <2>3. \A s \in Slots : skirmishAIs[s].host # None => skirmishAIs[s].team \in Teams
    BY <1>2, <1>5
  <2>4. leader \in [Teams -> Players \cup {None}]
    BY <1>1, <1>5
  <2>5. active \in [Teams -> BOOLEAN]
    <3>1. active = [t \in Teams |-> NumControllers(t, spectator, skirmishAIs) > 0]
      BY DEF Init
    <3>2. \A t \in Teams : (NumControllers(t, spectator, skirmishAIs) > 0) \in BOOLEAN
      OBVIOUS
    <3> QED
      BY <3>1, <3>2, Zenon
  <2> QED
    BY <1>5, <2>1, <2>2, <2>3, <2>4, <2>5 DEF ServerTypes
<1>7. SlotsAreAccountedFor
  <2>1. \A s \in Slots : s \notin 1..Len(ScriptAIs) <=> \E k \in 1..n : MaxAIs + 1 - k = s
    <3> SUFFICES ASSUME NEW s \in Slots
                 PROVE  s \notin 1..Len(ScriptAIs) <=> \E k \in 1..n : MaxAIs + 1 - k = s
      OBVIOUS
    <3>1. s \in Nat /\ s >= 1 /\ s <= MaxAIs /\ MaxAIs + 1 - (MaxAIs + 1 - s) = s
      BY Types DEF Slots
    <3>2. s \notin 1..Len(ScriptAIs) => MaxAIs + 1 - s \in 1..n
      BY <1>1, <3>1, Types
    <3>3. \A k \in 1..n : MaxAIs + 1 - k = s => s \notin 1..Len(ScriptAIs)
      BY <1>1, <3>1, Types
    <3> QED
      BY <3>1, <3>2, <3>3
  <2>2. \A j, k \in 1..n : MaxAIs + 1 - j = MaxAIs + 1 - k => j = k
    BY Types
  <2>3. DOMAIN freeSkirmishAIs = 1..n /\ \A k \in 1..n : freeSkirmishAIs[k] = MaxAIs + 1 - k
    BY <1>3
  <2> HIDE DEF n
  <2>4. \A s \in Slots : skirmishAIs[s].host = None <=> s \notin 1..Len(ScriptAIs)
    BY <1>2, <1>5
  <2>5. ASSUME NEW s \in Slots
        PROVE  skirmishAIs[s].host = None
                 <=> \E k \in DOMAIN freeSkirmishAIs : freeSkirmishAIs[k] = s
    BY <2>1, <2>3, <2>4
  <2> QED
    BY <2>2, <2>3, <2>5 DEF SlotsAreAccountedFor
<1>8. AIsAreHeard
  BY <1>2, <1>5 DEF AIsAreHeard, AIs
<1>9. ToldTypes /\ AskedTypes
  BY DEF Init, ToldTypes, AskedTypes
<1> QED
  BY <1>6, <1>7, <1>8, <1>9 DEF Inductive, ServerIsSound, Accounted

LEMMA NextKeepsInductive ==
  ASSUME Inductive, [Next]_vars
  PROVE  Inductive'
<1>1. CASE UNCHANGED vars
  BY <1>1 DEF vars, serverVars, Inductive, ServerIsSound, ServerTypes, ToldTypes, AskedTypes,
              Accounted, SlotsAreAccountedFor, AIsAreHeard
<1>2. ASSUME NEW p \in Players, ServerRead(p)
      PROVE  Inductive'
  BY <1>2, ServerReadKeeps
<1>3. ASSUME NEW p \in Players, ClientRead(p)
      PROVE  Inductive'
  BY <1>3, ClientReadKeeps
<1>4. ASSUME NEW p \in Players, SpecPlayer(p)
      PROVE  Inductive'
  <2>1. ResignPlayer(p) /\ UNCHANGED up
    BY <1>4 DEF SpecPlayer
  <2> QED
    BY <2>1, ResignKeepsServer DEF Inductive, AskedTypes
<1>5. ASSUME NEW p \in Players,
             \/ GiveAway(p) \/ Resign(p)
             \/ \E t \in Teams : AIControl(p, t) \/ \E kind \in KillKinds : AIKill(p, t, kind)
      PROVE  Inductive'
  BY <1>5, CommandsKeep
<1>6. ASSUME NEW t \in Teams, CreateNewFrame(t)
      PROVE  Inductive'
  <2>1. Broadcast(Packet("NEWFRAME", None, t, None)) /\ UNCHANGED <<serverVars, up>>
    BY <1>6 DEF CreateNewFrame
  <2>2. Packet("NEWFRAME", None, t, None) \in Told
    BY DEF Packet, Told, Packets, Kinds, States
  <2>3. ToldTypes'
    BY <2>1, <2>2, BroadcastIsTold DEF Inductive, ServerIsSound
  <2> QED
    BY <2>1, <2>3 DEF serverVars, Inductive, ServerIsSound, ServerTypes, AskedTypes,
                      Accounted, SlotsAreAccountedFor, AIsAreHeard
<1>7. ASSUME NEW p \in Players, ClientEnds(p)
      PROVE  Inductive'
  BY <1>7 DEF ClientEnds, serverVars, Inductive, ServerIsSound, ServerTypes, ToldTypes,
              AskedTypes, Accounted, SlotsAreAccountedFor, AIsAreHeard
<1> QED
  BY <1>1, <1>2, <1>3, <1>4, <1>5, <1>6, <1>7 DEF Next

(* The inductive invariant of team control: the types of what the server    *)
(* keeps and of all packets under way, each slot in use or free if no AI is *)
(* given away, each AI heard (ProcessPacket, ReserveSkirmishAIId).         *)
THEOREM TeamInductive == Spec => []Inductive
<1>1. Init => Inductive
  BY InitIsInductive
<1>2. Inductive /\ [Next]_vars => Inductive'
  BY NextKeepsInductive
<1> QED
  BY <1>1, <1>2, PTL DEF Spec

(* Whatever is killed, reloaded and created, and in whatever order packets  *)
(* of different clients arrive, no slot is lost or given to two AIs.       *)
THEOREM SlotsHaveOneOwner == ~Gifts => (Spec => []SlotsAreAccountedFor)
<1> SUFFICES ASSUME ~Gifts
             PROVE  Spec => []SlotsAreAccountedFor
  OBVIOUS
<1>1. Inductive => SlotsAreAccountedFor
  BY DEF Inductive, ServerIsSound, Accounted
<1> QED
  BY <1>1, TeamInductive, PTL

(* The host of an AI that lives has a link for it, although others may end *)
(* the AI and its slot is used again.                                      *)
THEOREM HostsAreHeard == Spec => []AIsAreHeard
<1>1. Inductive => AIsAreHeard
  BY DEF Inductive, ServerIsSound
<1> QED
  BY <1>1, TeamInductive, PTL
--------------------------------------------------------------------------------
(* The teams in play. *)

(* Every player has a team to itself and leads it at the start.            *)
OnePlayerEach ==
  /\ \A p, q \in Players : TeamOf[p] = TeamOf[q] => p = q
  /\ \A p \in Players : ScriptLeader[TeamOf[p]] = p

(* Who plays leads its team.  (Of two players in a team one can give       *)
(* everything away and stay its leader: the other's departure then leaves  *)
(* the team in play with nobody in it.)                                    *)
PlayersLead == \A p \in Players : ~spectator[p] => leader[TeamOf[p]] = p

Controlled == PlayersLead /\ ActiveIsControlled

(* How many control a team, without counting. *)
LEMMA ControllerCount ==
  ASSUME NEW t \in Teams, NEW watching, NEW ais
  PROVE  LET A == PlayersIn(t, watching)
             B == AIsIn(t, ais)
             n == NumControllers(t, watching, ais)
         IN /\ A \subseteq Players /\ B \subseteq Slots
            /\ n > 0 <=> A # {} \/ B # {}
            /\ \A p : A = {p} /\ B = {} => n = 1
            /\ \A s : A = {} /\ B = {s} => n = 1
            /\ A # {} /\ B # {} => n # 1
<1> DEFINE A == PlayersIn(t, watching)
           B == AIsIn(t, ais)
<1>1. A \subseteq Players /\ B \subseteq Slots
  BY DEF PlayersIn, AIsIn
<1>2. NumControllers(t, watching, ais) = Cardinality(A) + Cardinality(B)
  BY DEF NumControllers
<1> HIDE DEF A, B
<1>3. IsFiniteSet(A) /\ Cardinality(A) \in Nat /\ IsFiniteSet(B) /\ Cardinality(B) \in Nat
  BY <1>1, FinitePlayers, FiniteSlots
<1>4. (Cardinality(A) = 0 <=> A = {}) /\ (Cardinality(B) = 0 <=> B = {})
  BY <1>3, FS_EmptySet
<1>5. (\A p : A = {p} => Cardinality(A) = 1) /\ (\A s : B = {s} => Cardinality(B) = 1)
  BY FS_Singleton
<1> DEFINE n == NumControllers(t, watching, ais)
<1>6. n > 0 <=> A # {} \/ B # {}
  BY <1>2, <1>3, <1>4
<1>7. \A p : A = {p} /\ B = {} => n = 1
  BY <1>2, <1>3, <1>4, <1>5
<1>8. \A s : A = {} /\ B = {s} => n = 1
  BY <1>2, <1>3, <1>4, <1>5
<1>9. A # {} /\ B # {} => n # 1
  BY <1>2, <1>3, <1>4
<1> QED
  BY <1>1, <1>6, <1>7, <1>8, <1>9, Zenon DEF A, B

(* A team whose players, AIs, leader and activity stay is as controlled as *)
(* before.                                                                 *)
LEMMA SameControl ==
  ASSUME ActiveIsControlled, NEW t \in Teams,
         active'[t] => active[t], leader'[t] = leader[t],
         PlayersIn(t, spectator') = PlayersIn(t, spectator),
         AIsIn(t, skirmishAIs) \subseteq AIsIn(t, skirmishAIs')
  PROVE  active'[t] => leader'[t] # None /\ NumControllers(t, spectator', skirmishAIs') > 0
  BY ControllerCount DEF ActiveIsControlled

LEMMA ResignKeepsControl ==
  ASSUME OnePlayerEach, ServerTypes, Controlled, NEW p \in Players, ResignPlayer(p)
  PROVE  Controlled'
<1>1. /\ spectator' = [spectator EXCEPT ![p] = TRUE]
      /\ leader' = [t \in Teams |-> NextLeader(t, p, leader, spectator', skirmishAIs)]
      /\ active' = [t \in Teams |->
           active[t] /\ (leader[t] = p => NumControllers(t, spectator', skirmishAIs) > 0)]
      /\ skirmishAIs' = skirmishAIs
  BY DEF ResignPlayer
<1>2. PlayersLead'
  <2> SUFFICES ASSUME NEW q \in Players, ~spectator'[q]
               PROVE  leader'[TeamOf[q]] = q
    BY DEF PlayersLead
  <2>1. q # p /\ ~spectator[q] /\ TeamOf[q] \in Teams
    BY <1>1, Types DEF ServerTypes
  <2>2. leader[TeamOf[q]] = q
    BY <2>1 DEF Controlled, PlayersLead
  <2> QED
    BY <1>1, <2>1, <2>2 DEF NextLeader
<1>3. ASSUME NEW t \in Teams, active'[t]
      PROVE  leader'[t] # None /\ NumControllers(t, spectator', skirmishAIs') > 0
  <2>1. active[t] /\ leader'[t] = NextLeader(t, p, leader, spectator', skirmishAIs)
    BY <1>1, <1>3
  <2>2. CASE leader[t] = p
    <3> DEFINE A == PlayersIn(t, spectator')
               B == AIsIn(t, skirmishAIs)
    <3>1. NumControllers(t, spectator', skirmishAIs) > 0
      BY <1>1, <1>3, <2>2
    <3>2. A \subseteq Players /\ B \subseteq Slots /\ (A # {} \/ B # {})
      BY <3>1, ControllerCount
    <3>3. A # {} => First(A) \in Players
      BY <3>2, FirstIsLeast, Types
    <3>4. B # {} => skirmishAIs[First(B)].host # None
      <4>1. B # {} => First(B) \in B
        BY <3>2, FirstIsLeast, Types
      <4> QED
        BY <4>1 DEF AIsIn
    <3>5. leader'[t] = IF A # {} THEN First(A) ELSE skirmishAIs[First(B)].host
      BY <2>1, <2>2, <3>2 DEF NextLeader
    <3> HIDE DEF A, B
    <3> QED
      BY <1>1, <3>1, <3>2, <3>3, <3>4, <3>5, Types
  <2>3. CASE leader[t] # p
    <3>1. TeamOf[p] = t => spectator[p]
      BY <2>3 DEF Controlled, PlayersLead, ServerTypes
    <3>2. PlayersIn(t, spectator') = PlayersIn(t, spectator)
      BY <1>1, <3>1 DEF PlayersIn, ServerTypes
    <3>3. leader'[t] = leader[t]
      BY <2>1, <2>3 DEF NextLeader
    <3> QED
      BY <1>1, <1>3, <2>1, <3>2, <3>3, SameControl DEF Controlled
  <2> QED
    BY <2>2, <2>3
<1> QED
  BY <1>2, <1>3 DEF Controlled, ActiveIsControlled

LEMMA GiveawayKeepsControl ==
  ASSUME OnePlayerEach, ServerTypes, Controlled, NEW p \in Players,
         HandleGiveaway(p, TeamOf[p])
  PROVE  Controlled'
<1> DEFINE own == TeamOf[p]
           last == NumControllers(own, spectator, skirmishAIs) = 1
<1>1. own \in Teams
  BY Types
<1>2. CASE GiveawayRefused(p, own)
  BY <1>2 DEF HandleGiveaway, serverVars, Controlled, PlayersLead, ActiveIsControlled
<1>3. CASE ~GiveawayRefused(p, own)
  <2>1. /\ spectator' = [spectator EXCEPT ![p] = TRUE] /\ skirmishAIs' = skirmishAIs
        /\ AbandonIf(last, own)
    BY <1>3 DEF HandleGiveaway
  <2> HIDE DEF own, last
  <2>2. \A t \in Teams : t # own => leader'[t] = leader[t] /\ active'[t] = active[t]
    BY <2>1 DEF AbandonIf, Abandon, ServerTypes
  <2>3. PlayersLead'
    <3> SUFFICES ASSUME NEW q \in Players, ~spectator'[q]
                 PROVE  leader'[TeamOf[q]] = q
      BY DEF PlayersLead
    <3>1. q # p /\ ~spectator[q] /\ TeamOf[q] \in Teams /\ TeamOf[q] # own
      BY <2>1, Types DEF ServerTypes, OnePlayerEach, own
    <3> QED
      BY <2>2, <3>1 DEF Controlled, PlayersLead
  <2>4. ASSUME NEW t \in Teams, active'[t]
        PROVE  leader'[t] # None /\ NumControllers(t, spectator', skirmishAIs') > 0
    <3>1. CASE t # own
      <4>1. PlayersIn(t, spectator') = PlayersIn(t, spectator)
        BY <2>1, <3>1 DEF PlayersIn, ServerTypes, own
      <4> QED
        BY <2>1, <2>2, <2>4, <3>1, <4>1, SameControl DEF Controlled
    <3>2. CASE t = own
      <4>1. ~last /\ UNCHANGED <<leader, active>>
        BY <1>1, <2>1, <2>4, <3>2 DEF AbandonIf, Abandon, ServerTypes
      <4>2. leader[t] # None /\ NumControllers(t, spectator, skirmishAIs) > 0
        BY <2>4, <4>1 DEF Controlled, ActiveIsControlled
      <4>3. PlayersIn(t, spectator) \in {{}, {p}}
        BY <3>2 DEF PlayersIn, OnePlayerEach, own
      <4>4. AIsIn(t, skirmishAIs) # {}
        BY <3>2, <4>1, <4>2, <4>3, ControllerCount DEF last
      <4> QED
        BY <2>1, <4>1, <4>2, <4>4, ControllerCount
    <3> QED
      BY <3>1, <3>2
  <2> QED
    BY <2>3, <2>4 DEF Controlled, ActiveIsControlled
<1> QED
  BY <1>2, <1>3

LEMMA TeamDiedKeepsControl ==
  ASSUME ServerTypes, Controlled, NEW p \in Players, NEW t \in Teams, HandleTeamDied(p, t)
  PROVE  Controlled'
<1>1. CASE Host \notin {p, None}
  BY <1>1 DEF HandleTeamDied, serverVars, Controlled, PlayersLead, ActiveIsControlled
<1>2. CASE Host \in {p, None}
  <2>1. /\ leader' = [leader EXCEPT ![t] = None] /\ active' = [active EXCEPT ![t] = FALSE]
        /\ spectator' = [q \in Players |-> spectator[q] \/ TeamOf[q] = t]
        /\ skirmishAIs' = skirmishAIs
    BY <1>2 DEF HandleTeamDied, Abandon
  <2>2. PlayersLead'
    BY <2>1, Types DEF Controlled, PlayersLead, ServerTypes
  <2>3. ASSUME NEW u \in Teams, active'[u]
        PROVE  leader'[u] # None /\ NumControllers(u, spectator', skirmishAIs') > 0
    <3>1. u # t /\ active[u] /\ leader'[u] = leader[u]
      BY <2>1, <2>3 DEF ServerTypes
    <3>2. PlayersIn(u, spectator') = PlayersIn(u, spectator)
      BY <2>1, <3>1 DEF PlayersIn
    <3> QED
      BY <2>1, <2>3, <3>1, <3>2, SameControl DEF Controlled
  <2> QED
    BY <2>2, <2>3 DEF Controlled, ActiveIsControlled
<1> QED
  BY <1>1, <1>2

LEMMA AICreatedKeepsControl ==
  ASSUME ~Gifts, ServerIsSound, Controlled, NEW p \in Players, NEW t \in Teams,
         HandleAICreated(p, t)
  PROVE  Controlled'
<1> DEFINE s == ReserveSkirmishAIId
           refused == ~MayCreateAI(p, t) \/ freeSkirmishAIs = <<>>
<1>1. CASE refused
  BY <1>1 DEF HandleAICreated, serverVars, Controlled, PlayersLead, ActiveIsControlled
<1>2. CASE ~refused
  <2>1. /\ freeSkirmishAIs # <<>>
        /\ skirmishAIs' = [skirmishAIs EXCEPT ![s] = NewAI(p, t)]
        /\ UNCHANGED spectator
        /\ IF leader[t] = None
             THEN leader' = [leader EXCEPT ![t] = p] /\ active' = [active EXCEPT ![t] = TRUE]
             ELSE UNCHANGED <<leader, active>>
    BY <1>2 DEF HandleAICreated
  <2>2. s \in Slots /\ skirmishAIs[s].host = None
    <3>1. freeSkirmishAIs \in Seq(Slots)
      BY DEF ServerIsSound, ServerTypes
    <3>2. Len(freeSkirmishAIs) \in DOMAIN freeSkirmishAIs
      BY <2>1, <3>1
    <3>3. s \in Slots
      BY <2>1, <3>1 DEF ReserveSkirmishAIId
    <3> QED
      BY <3>2, <3>3 DEF ServerIsSound, Accounted, SlotsAreAccountedFor, ReserveSkirmishAIId
  <2> HIDE DEF s
  <2>3. \A u \in Slots : skirmishAIs'[u] = IF u = s THEN NewAI(p, t) ELSE skirmishAIs[u]
    BY <2>1 DEF ServerIsSound, ServerTypes
  <2>4. \A u \in Teams : AIsIn(u, skirmishAIs) \subseteq AIsIn(u, skirmishAIs')
    BY <2>2, <2>3 DEF AIsIn
  <2>5. s \in AIsIn(t, skirmishAIs')
    BY <2>2, <2>3, Types DEF AIsIn, NewAI
  <2>6. \A u \in Teams : leader[u] # None => leader'[u] = leader[u]
    BY <2>1 DEF ServerIsSound, ServerTypes
  <2>7. PlayersLead'
    BY <2>1, <2>6, Types DEF Controlled, PlayersLead
  <2>8. ASSUME NEW u \in Teams, active'[u]
        PROVE  leader'[u] # None /\ NumControllers(u, spectator', skirmishAIs') > 0
    <3>1. CASE u = t /\ leader[t] = None
      BY <2>1, <2>5, <3>1, ControllerCount, Types DEF ServerIsSound, ServerTypes
    <3>2. CASE ~(u = t /\ leader[t] = None)
      <4>1. active'[u] = active[u] /\ leader'[u] = leader[u]
        BY <2>1, <3>2 DEF ServerIsSound, ServerTypes
      <4> QED
        BY <2>1, <2>4, <2>8, <4>1, SameControl DEF Controlled
    <3> QED
      BY <3>1, <3>2
  <2> QED
    BY <2>7, <2>8 DEF Controlled, ActiveIsControlled
<1> QED
  BY <1>1, <1>2

LEMMA AIStateKeepsControl ==
  ASSUME ServerIsSound, Controlled, NEW p \in Players, NEW s \in Slots, NEW state \in States,
         HandleAIState(p, s, state)
  PROVE  Controlled'
<1> DEFINE ai == skirmishAIs[s]
           last == NumControllers(ai.team, spectator, skirmishAIs) = 1
<1>1. CASE ~MayChangeAI(p, s)
  BY <1>1 DEF HandleAIState, serverVars, Controlled, PlayersLead, ActiveIsControlled
<1>2. CASE MayChangeAI(p, s)
  <2>1. ai.host # None /\ ai.team \in Teams /\ s \in AIsIn(ai.team, skirmishAIs)
    BY <1>2 DEF MayChangeAI, ServerIsSound, ServerTypes, AIsIn
  <2>2. UNCHANGED spectator
    BY <1>2 DEF HandleAIState
  <2>3. CASE Ends(ai, state)
    <3>1. /\ skirmishAIs' = [skirmishAIs EXCEPT ![s] = NoAI]
          /\ AbandonIf(last, ai.team)
      BY <1>2, <2>3 DEF HandleAIState, Release
    <3> HIDE DEF last
    <3>2. \A u \in Slots : u # s => skirmishAIs'[u] = skirmishAIs[u]
      BY <3>1 DEF ServerIsSound, ServerTypes
    <3>3. \A u \in Teams : AIsIn(u, skirmishAIs) \ {s} \subseteq AIsIn(u, skirmishAIs')
      BY <3>2 DEF AIsIn
    <3>4. \A u \in Teams : u # ai.team => s \notin AIsIn(u, skirmishAIs)
      BY DEF AIsIn
    <3>5. \A u \in Teams : u # ai.team => leader'[u] = leader[u] /\ active'[u] = active[u]
      BY <3>1 DEF AbandonIf, Abandon, ServerIsSound, ServerTypes
    <3>6. last => PlayersIn(ai.team, spectator) = {}
      BY <2>1, ControllerCount DEF last
    <3>7. PlayersLead'
      <4> SUFFICES ASSUME NEW q \in Players, ~spectator[q]
                   PROVE  leader'[TeamOf[q]] = q
        BY <2>2 DEF PlayersLead
      <4>1. TeamOf[q] \in Teams /\ leader[TeamOf[q]] = q
        BY Types DEF Controlled, PlayersLead
      <4>2. CASE TeamOf[q] # ai.team
        BY <3>5, <4>1, <4>2
      <4>3. CASE TeamOf[q] = ai.team
        <5>1. ~last
          BY <3>6, <4>3 DEF PlayersIn
        <5> QED
          BY <3>1, <4>1, <5>1 DEF AbandonIf
      <4> QED
        BY <4>2, <4>3
    <3>8. ASSUME NEW u \in Teams, active'[u]
          PROVE  leader'[u] # None /\ NumControllers(u, spectator', skirmishAIs') > 0
      <4>1. CASE u # ai.team
        BY <2>2, <3>3, <3>4, <3>5, <3>8, <4>1, SameControl DEF Controlled
      <4>2. CASE u = ai.team
        <5>1. ~last /\ UNCHANGED <<leader, active>>
          BY <2>1, <3>1, <3>8, <4>2 DEF AbandonIf, Abandon, ServerIsSound, ServerTypes
        <5>2. leader[u] # None
          BY <3>8, <5>1 DEF Controlled, ActiveIsControlled
        <5>3. PlayersIn(u, spectator) # {} \/ AIsIn(u, skirmishAIs) # {s}
          BY <4>2, <5>1, ControllerCount DEF last
        <5>4. PlayersIn(u, spectator) # {} \/ AIsIn(u, skirmishAIs') # {}
          BY <2>1, <3>3, <4>2, <5>3
        <5> QED
          BY <2>2, <5>1, <5>2, <5>4, ControllerCount
      <4> QED
        BY <4>1, <4>2
    <3> QED
      BY <3>7, <3>8 DEF Controlled, ActiveIsControlled
  <2>4. CASE ~Ends(ai, state)
    <3>1. /\ skirmishAIs' = [skirmishAIs EXCEPT ![s].status = state]
          /\ UNCHANGED <<leader, active>>
      BY <1>2, <2>4 DEF HandleAIState
    <3>2. \A u \in Slots : /\ skirmishAIs'[u].host = skirmishAIs[u].host
                           /\ skirmishAIs'[u].team = skirmishAIs[u].team
      BY <3>1 DEF ServerIsSound, ServerTypes, AIs
    <3>3. \A u \in Teams : AIsIn(u, skirmishAIs) \subseteq AIsIn(u, skirmishAIs')
      BY <3>2 DEF AIsIn
    <3>4. PlayersLead'
      BY <2>2, <3>1 DEF Controlled, PlayersLead
    <3>5. ASSUME NEW u \in Teams, active'[u]
          PROVE  leader'[u] # None /\ NumControllers(u, spectator', skirmishAIs') > 0
      BY <2>2, <3>1, <3>3, <3>5, SameControl DEF Controlled
    <3> QED
      BY <3>4, <3>5 DEF Controlled, ActiveIsControlled
  <2> QED
    BY <2>3, <2>4
<1> QED
  BY <1>1, <1>2

LEMMA ServerReadKeepsControl ==
  ASSUME ~Gifts, OnePlayerEach, Inductive, Controlled, NEW p \in Players, ServerRead(p)
  PROVE  Controlled'
<1> DEFINE m == Head(up[p])
<1>1. up[p] \in Seq(Asked(p)) /\ up[p] # <<>>
  BY DEF Inductive, AskedTypes, ServerRead
<1>2. m \in Asked(p)
  BY <1>1, HeadAndTail
<1>3. ServerIsSound /\ ServerTypes
  BY DEF Inductive, ServerIsSound
<1> HIDE DEF m
<1>4. m.kind \in States \cup {"GIVEAWAY", "RESIGN", "TEAM_DIED", "AI_CREATED"}
  BY <1>2 DEF Asked, Packets, Kinds
<1>5. CASE m.kind = "GIVEAWAY"
  <2>1. HandleGiveaway(p, m.team) /\ m.team = TeamOf[p]
    BY <1>2, <1>5 DEF ServerRead, m, Asked
  <2> QED
    BY <2>1, <1>3, GiveawayKeepsControl
<1>6. CASE m.kind = "RESIGN"
  <2>1. HandleResign(p)
    BY <1>6 DEF ServerRead, m
  <2>2. CASE ResignPlayer(p)
    BY <2>2, <1>3, ResignKeepsControl
  <2>3. CASE UNCHANGED <<serverVars, down>>
    BY <2>3 DEF serverVars, Controlled, PlayersLead, ActiveIsControlled
  <2> QED
    BY <2>1, <2>2, <2>3 DEF HandleResign
<1>7. CASE m.kind = "TEAM_DIED"
  <2>1. HandleTeamDied(p, m.team) /\ m.team \in Teams
    BY <1>2, <1>7 DEF ServerRead, m, Asked
  <2> QED
    BY <2>1, <1>3, TeamDiedKeepsControl
<1>8. CASE m.kind = "AI_CREATED"
  <2>1. HandleAICreated(p, m.team) /\ m.team \in Teams
    BY <1>2, <1>8 DEF ServerRead, m, Asked
  <2> QED
    BY <2>1, <1>3, AICreatedKeepsControl
<1>9. CASE m.kind \in States
  <2>1. HandleAIState(p, m.slot, m.kind)
    BY <1>9 DEF ServerRead, m, States
  <2>2. m.slot \in Slots
    BY <1>2, <1>9 DEF Asked
  <2> QED
    BY <2>1, <2>2, <1>3, <1>9, AIStateKeepsControl
<1> QED
  BY <1>4, <1>5, <1>6, <1>7, <1>8, <1>9

LEMMA NextKeepsControl ==
  ASSUME ~Gifts, OnePlayerEach, Inductive, Controlled, [Next]_vars
  PROVE  Controlled'
<1>1. ASSUME NEW p \in Players, ServerRead(p)
      PROVE  Controlled'
  BY <1>1, ServerReadKeepsControl
<1>2. ASSUME NEW p \in Players, SpecPlayer(p)
      PROVE  Controlled'
  BY <1>2, ResignKeepsControl DEF SpecPlayer, Inductive, ServerIsSound
<1>3. CASE UNCHANGED serverVars
  BY <1>3 DEF serverVars, Controlled, PlayersLead, ActiveIsControlled
<1>4. ASSUME NEW p \in Players,
             \/ ClientRead(p) \/ ClientEnds(p) \/ GiveAway(p) \/ Resign(p)
             \/ \E t \in Teams : AIControl(p, t) \/ \E kind \in KillKinds : AIKill(p, t, kind)
      PROVE  UNCHANGED serverVars
  BY <1>4 DEF ClientRead, ClientEnds, GiveAway, Resign, AIControl, AIKill, Asks
<1>5. ASSUME NEW t \in Teams, CreateNewFrame(t)
      PROVE  UNCHANGED serverVars
  BY <1>5 DEF CreateNewFrame
<1> QED
  BY <1>1, <1>2, <1>3, <1>4, <1>5 DEF Next, vars

(* Where every player has a team to itself, the server keeps no team in    *)
(* play that nobody leads or controls, whatever is given away, killed or   *)
(* resigned at the same time.                                              *)
THEOREM ActiveTeamsAreControlled ==
  ~Gifts /\ OnePlayerEach => (Spec => []ActiveIsControlled)
<1> SUFFICES ASSUME ~Gifts, OnePlayerEach
             PROVE  Spec => []ActiveIsControlled
  OBVIOUS
<1>1. Init => Controlled
  <2> SUFFICES ASSUME Init
               PROVE  Controlled
    OBVIOUS
  <2>1. ScriptLeader \in [Teams -> Players] /\ leader = ScriptLeader
    BY TeamAssumption DEF TeamAssumption, Init
  <2>2. PlayersLead
    BY <2>1 DEF PlayersLead, OnePlayerEach
  <2>3. active = [t \in Teams |-> NumControllers(t, spectator, skirmishAIs) > 0]
    BY DEF Init
  <2>4. \A t \in Teams : active[t] => NumControllers(t, spectator, skirmishAIs) > 0
    BY <2>3
  <2>5. \A t \in Teams : leader[t] # None
    BY <2>1, Types
  <2> QED
    BY <2>2, <2>4, <2>5 DEF Controlled, ActiveIsControlled
<1>2. Inductive /\ Controlled /\ [Next]_vars => Controlled'
  BY NextKeepsControl
<1>3. Controlled => ActiveIsControlled
  BY DEF Controlled
<1> QED
  BY <1>1, <1>2, <1>3, TeamInductive, PTL DEF Spec
--------------------------------------------------------------------------------
(* The clients: a client's list of skirmish AIs is the server's as it was, *)
(* and what is under way to it turns the one into the other, packet by     *)
(* packet.                                                                 *)

(* What is left of an AI when its state has changed.                       *)
Changed(ai, state) == IF Ends(ai, state) THEN NoAI ELSE [ai EXCEPT !.status = state]

(* Packet m fits the list a of AIs and turns it into b: what is created    *)
(* goes into a free slot, what changes is there.                           *)
Turns(a, m, b) ==
  /\ m.kind = "AI_CREATED" =>
       a[m.slot].host = None /\ b = [a EXCEPT ![m.slot] = NewAI(m.player, m.team)]
  /\ m.kind \in States =>
       a[m.slot].host # None /\ b = [a EXCEPT ![m.slot] = Changed(a[m.slot], m.kind)]
  /\ m.kind \notin States \cup {"AI_CREATED"} => b = a

(* The packets q, one after the other, turn the list a into b.             *)
Leads(a, q, b) ==
  \E h \in [0..Len(q) -> [Slots -> AIs]] :
    /\ h[0] = a /\ h[Len(q)] = b
    /\ \A n \in 1..Len(q) : Turns(h[n - 1], q[n], h[n])

(* What is under way to a client makes its list of AIs the server's.       *)
CopiesFollow == \A c \in Players : Leads(client[c].ai, down[c], skirmishAIs)

CopyTypes == client \in [Players -> Copies]

CopiesAreSound == CopyTypes /\ CopiesFollow
--------------------------------------------------------------------------------
(* Packets that lead from one list to another. *)

(* With nothing under way the lists are the same. *)
LEMMA LeadsNowhere ==
  ASSUME NEW a \in [Slots -> AIs], NEW b
  PROVE  Leads(a, <<>>, b) <=> a = b
<1>1. ASSUME Leads(a, <<>>, b)
      PROVE  a = b
  BY <1>1 DEF Leads
<1>2. Leads(a, <<>>, a)
  <2> DEFINE h == [n \in 0..0 |-> a]
  <2>1. h \in [0..0 -> [Slots -> AIs]] /\ h[0] = a
    OBVIOUS
  <2>2. Len(<<>>) = 0 /\ 1..0 = {}
    OBVIOUS
  <2> HIDE DEF h
  <2> QED
    BY <2>1, <2>2 DEF Leads
<1> QED
  BY <1>1, <1>2

(* One more packet turns the list once more.                               *)
LEMMA LeadsOn ==
  ASSUME NEW a, NEW b, NEW q \in Seq(Told), Leads(a, q, b),
         NEW m \in Told, NEW d \in [Slots -> AIs], Turns(b, m, d)
  PROVE  Leads(a, Append(q, m), d)
<1>1. PICK h \in [0..Len(q) -> [Slots -> AIs]] :
        /\ h[0] = a /\ h[Len(q)] = b
        /\ \A n \in 1..Len(q) : Turns(h[n - 1], q[n], h[n])
  BY DEF Leads
<1>2. PICK k \in Nat : k = Len(q)
  OBVIOUS
<1>3. /\ Len(Append(q, m)) = k + 1 /\ Append(q, m)[k + 1] = m
      /\ \A n \in 1..k : Append(q, m)[n] = q[n]
  BY <1>2
<1> DEFINE g == [n \in 0..(k + 1) |-> IF n <= k THEN h[n] ELSE d]
<1>4. /\ g \in [0..(k + 1) -> [Slots -> AIs]]
      /\ \A n \in 0..k : g[n] = h[n]
      /\ g[k + 1] = d
  BY <1>1, <1>2
<1> HIDE DEF g
<1>5. ASSUME NEW n \in 1..(k + 1)
      PROVE  Turns(g[n - 1], Append(q, m)[n], g[n])
  <2>1. CASE n \in 1..k
    <3>1. n - 1 \in 0..k /\ n \in 0..k
      BY <2>1
    <3> QED
      BY <2>1, <3>1, <1>1, <1>2, <1>3, <1>4
  <2>2. CASE n = k + 1
    <3>1. n - 1 = k /\ k \in 0..k
      BY <2>2
    <3> QED
      BY <2>2, <3>1, <1>1, <1>2, <1>3, <1>4
  <2>3. n \in 1..k \/ n = k + 1
    OBVIOUS
  <2> QED
    BY <2>1, <2>2, <2>3
<1>6. g[0] = a
  BY <1>1, <1>2, <1>4
<1> QED
  BY <1>3, <1>4, <1>5, <1>6 DEF Leads

(* The first packet turns the list into one that the others lead on from.  *)
LEMMA LeadsFrom ==
  ASSUME NEW a, NEW b, NEW q \in Seq(Told), q # <<>>, Leads(a, q, b)
  PROVE  \E d \in [Slots -> AIs] : Turns(a, Head(q), d) /\ Leads(d, Tail(q), b)
<1>1. PICK h \in [0..Len(q) -> [Slots -> AIs]] :
        /\ h[0] = a /\ h[Len(q)] = b
        /\ \A n \in 1..Len(q) : Turns(h[n - 1], q[n], h[n])
  BY DEF Leads
<1>2. PICK k \in Nat : Len(q) = k + 1
  <2>1. Len(q) \in Nat /\ Len(q) # 0
    OBVIOUS
  <2>2. Len(q) - 1 \in Nat /\ Len(q) = (Len(q) - 1) + 1
    BY <2>1
  <2> QED
    BY <2>2
<1>3. /\ Len(Tail(q)) = k /\ Head(q) = q[1]
      /\ \A n \in 1..k : Tail(q)[n] = q[n + 1]
  BY <1>2
<1> DEFINE g == [n \in 0..k |-> h[n + 1]]
<1>4. g \in [0..k -> [Slots -> AIs]] /\ \A n \in 0..k : g[n] = h[n + 1]
  BY <1>1, <1>2
<1> HIDE DEF g
<1>5. ASSUME NEW n \in 1..k
      PROVE  Turns(g[n - 1], Tail(q)[n], g[n])
  <2>1. /\ n - 1 \in 0..k /\ n \in 0..k /\ n + 1 \in 1..(k + 1)
        /\ (n - 1) + 1 = n /\ (n + 1) - 1 = n
    OBVIOUS
  <2>2. Turns(h[(n + 1) - 1], q[n + 1], h[n + 1])
    BY <1>1, <1>2, <2>1
  <2> QED
    BY <2>1, <2>2, <1>3, <1>4
<1>6. g[0] = h[1] /\ g[k] = b
  BY <1>1, <1>2, <1>4
<1>7. Turns(a, Head(q), h[1])
  <2>1. 1 \in 1..(k + 1) /\ 1 - 1 = 0
    OBVIOUS
  <2> QED
    BY <2>1, <1>1, <1>2, <1>3
<1>8. Leads(h[1], Tail(q), b)
  BY <1>3, <1>4, <1>5, <1>6 DEF Leads
<1>9. h[1] \in [Slots -> AIs]
  BY <1>1, <1>2
<1> QED
  BY <1>7, <1>8, <1>9
--------------------------------------------------------------------------------
(* The server. *)

(* A step that tells everybody the packet that turns the server's list, or *)
(* leaves both alone, leaves the copies following it.                      *)
LEMMA CopiesGoOn ==
  ASSUME ServerIsSound, ServerTypes', CopiesFollow,
         \A c \in Players : client'[c].ai = client[c].ai,
         \/ UNCHANGED <<skirmishAIs, down>>
         \/ \E m \in Told : Broadcast(m) /\ Turns(skirmishAIs, m, skirmishAIs')
  PROVE  CopiesFollow'
<1>1. CASE UNCHANGED <<skirmishAIs, down>>
  BY <1>1 DEF CopiesFollow
<1>2. ASSUME NEW m \in Told, Broadcast(m), Turns(skirmishAIs, m, skirmishAIs')
      PROVE  CopiesFollow'
  <2> SUFFICES ASSUME NEW c \in Players
               PROVE  Leads(client'[c].ai, down'[c], skirmishAIs')
    BY DEF CopiesFollow
  <2>1. Leads(client[c].ai, down[c], skirmishAIs)
    BY DEF CopiesFollow
  <2>2. down[c] \in Seq(Told) /\ down'[c] = Append(down[c], m)
    BY <1>2 DEF ServerIsSound, ToldTypes, Broadcast
  <2>3. skirmishAIs' \in [Slots -> AIs]
    BY DEF ServerTypes
  <2>4. Leads(client[c].ai, Append(down[c], m), skirmishAIs')
    BY <1>2, <2>1, <2>2, <2>3, LeadsOn
  <2> QED
    BY <2>2, <2>4
<1> QED
  BY <1>1, <1>2

(* The server says of an AI what it does with it itself.                   *)
LEMMA ServerTurns ==
  ASSUME ~Gifts, Inductive, NEW p \in Players, ServerRead(p) \/ ResignPlayer(p)
  PROVE  \/ UNCHANGED <<skirmishAIs, down>>
         \/ \E m \in Told : Broadcast(m) /\ Turns(skirmishAIs, m, skirmishAIs')
<1> DEFINE Says == \/ UNCHANGED <<skirmishAIs, down>>
                   \/ \E m \in Told : Broadcast(m) /\ Turns(skirmishAIs, m, skirmishAIs')
<1>1. CASE ResignPlayer(p)
  <2>1. Packet("RESIGN", p, None, None) \in Told
    BY DEF Packet, Told, Packets, Kinds, States
  <2>2. Broadcast(Packet("RESIGN", p, None, None)) /\ skirmishAIs' = skirmishAIs
    BY <1>1 DEF ResignPlayer
  <2>3. Turns(skirmishAIs, Packet("RESIGN", p, None, None), skirmishAIs')
    BY <2>2 DEF Turns, Packet, States
  <2> QED
    BY <2>1, <2>2, <2>3
<1>2. CASE ServerRead(p)
  <2> DEFINE m == Head(up[p])
  <2>1. up[p] \in Seq(Asked(p)) /\ up[p] # <<>>
    BY <1>2 DEF Inductive, AskedTypes, ServerRead
  <2>2. m \in Asked(p)
    BY <2>1, HeadAndTail
  <2>3. ServerIsSound /\ ServerTypes
    BY DEF Inductive, ServerIsSound
  <2> HIDE DEF m
  <2>4. m.kind \in States \cup {"GIVEAWAY", "RESIGN", "TEAM_DIED", "AI_CREATED"}
    BY <2>2 DEF Asked, Packets, Kinds
  <2>5. CASE m.kind = "GIVEAWAY"
    <3>1. HandleGiveaway(p, m.team) /\ m.team = TeamOf[p] /\ m.team \in Teams
      BY <1>2, <2>2, <2>5 DEF ServerRead, m, Asked
    <3>2. CASE GiveawayRefused(p, m.team)
      BY <3>1, <3>2 DEF HandleGiveaway, serverVars
    <3>3. CASE ~GiveawayRefused(p, m.team)
      <4>1. Packet("GIVEAWAY", p, m.team, None) \in Told
        BY <3>1 DEF Packet, Told, Packets, Kinds, States
      <4>2. Broadcast(Packet("GIVEAWAY", p, m.team, None)) /\ skirmishAIs' = skirmishAIs
        BY <3>1, <3>3 DEF HandleGiveaway
      <4>3. Turns(skirmishAIs, Packet("GIVEAWAY", p, m.team, None), skirmishAIs')
        BY <4>2 DEF Turns, Packet, States
      <4> QED
        BY <4>1, <4>2, <4>3
    <3> QED
      BY <3>2, <3>3
  <2>6. CASE m.kind = "RESIGN"
    <3>1. HandleResign(p)
      BY <1>2, <2>6 DEF ServerRead, m
    <3> QED
      BY <1>1, <3>1 DEF HandleResign, serverVars
  <2>7. CASE m.kind = "TEAM_DIED"
    <3>1. HandleTeamDied(p, m.team)
      BY <1>2, <2>7 DEF ServerRead, m
    <3> QED
      BY <3>1 DEF HandleTeamDied, serverVars
  <2>8. CASE m.kind = "AI_CREATED"
    <3> DEFINE s == ReserveSkirmishAIId
    <3>1. HandleAICreated(p, m.team) /\ m.team \in Teams
      BY <1>2, <2>2, <2>8 DEF ServerRead, m, Asked
    <3>2. CASE ~MayCreateAI(p, m.team) \/ freeSkirmishAIs = <<>>
      BY <3>1, <3>2 DEF HandleAICreated, serverVars
    <3>3. CASE ~(~MayCreateAI(p, m.team) \/ freeSkirmishAIs = <<>>)
      <4>1. /\ skirmishAIs' = [skirmishAIs EXCEPT ![s] = NewAI(p, m.team)]
            /\ Broadcast(Packet("AI_CREATED", p, m.team, s))
        BY <3>1, <3>3 DEF HandleAICreated
      <4>2. s \in Slots /\ skirmishAIs[s].host = None
        <5>1. freeSkirmishAIs \in Seq(Slots)
          BY <2>3 DEF ServerTypes
        <5>2. Len(freeSkirmishAIs) \in DOMAIN freeSkirmishAIs
          BY <3>3, <5>1
        <5>3. s \in Slots
          BY <3>3, <5>1 DEF ReserveSkirmishAIId
        <5> QED
          BY <2>3, <5>2, <5>3 DEF ServerIsSound, Accounted, SlotsAreAccountedFor, ReserveSkirmishAIId
      <4> HIDE DEF s
      <4>3. Packet("AI_CREATED", p, m.team, s) \in Told
        BY <3>1, <4>2 DEF Packet, Told, Packets, Kinds, States
      <4>4. Turns(skirmishAIs, Packet("AI_CREATED", p, m.team, s), skirmishAIs')
        BY <4>1, <4>2 DEF Turns, Packet, States
      <4> QED
        BY <4>1, <4>3, <4>4
    <3> QED
      BY <3>2, <3>3
  <2>9. CASE m.kind \in States
    <3> DEFINE ai == skirmishAIs[m.slot]
    <3>1. HandleAIState(p, m.slot, m.kind) /\ m.slot \in Slots
      BY <1>2, <2>2, <2>9 DEF ServerRead, m, States, Asked
    <3>2. CASE ~MayChangeAI(p, m.slot)
      BY <3>1, <3>2 DEF HandleAIState, serverVars
    <3>3. CASE MayChangeAI(p, m.slot)
      <4>1. /\ Broadcast(Packet(m.kind, p, None, m.slot))
            /\ skirmishAIs' = IF Ends(ai, m.kind) THEN [skirmishAIs EXCEPT ![m.slot] = NoAI]
                              ELSE [skirmishAIs EXCEPT ![m.slot] = [ai EXCEPT !.status = m.kind]]
        BY <3>1, <3>3 DEF HandleAIState, Release
      <4>2. skirmishAIs' = [skirmishAIs EXCEPT ![m.slot] = Changed(ai, m.kind)]
        BY <4>1 DEF Changed
      <4>3. ai.host # None
        BY <3>3 DEF MayChangeAI
      <4>4. Packet(m.kind, p, None, m.slot) \in Told
        BY <2>9, <3>1 DEF Packet, Told, Packets, Kinds, States
      <4>5. Turns(skirmishAIs, Packet(m.kind, p, None, m.slot), skirmishAIs')
        BY <2>9, <4>2, <4>3 DEF Turns, Packet, States
      <4> QED
        BY <4>1, <4>4, <4>5
    <3> QED
      BY <3>2, <3>3
  <2> QED
    BY <2>4, <2>5, <2>6, <2>7, <2>8, <2>9
<1> QED
  BY <1>1, <1>2
--------------------------------------------------------------------------------
(* The clients. *)

(* The parts of a copy. *)
LEMMA CopyParts ==
  ASSUME NEW me \in Copies
  PROVE  /\ me.spectator \in [Players -> BOOLEAN] /\ me.leader \in [Teams -> Players \cup {None}]
         /\ me.dead \in SUBSET Teams /\ me.ai \in [Slots -> AIs]
         /\ me.inCreation \in SUBSET Teams /\ me.running \in SUBSET Slots
BY DEF Copies

(* The copies stay copies when that of client c becomes another.           *)
LEMMA OneCopyRead ==
  ASSUME CopyTypes, NEW c \in Players, NEW you \in Copies,
         client' = [client EXCEPT ![c] = you]
  PROVE  /\ CopyTypes' /\ client'[c] = you
         /\ \A p \in Players : p # c => client'[p] = client[p]
BY DEF CopyTypes

(* What reading packet m does, if m fits: the copy of c turns with it.     *)
Read(c, m) ==
  /\ CopyTypes'
  /\ \A p \in Players : p # c => client'[p] = client[p]
  /\ \A d : Turns(client[c].ai, m, d) => client'[c].ai = d

(* What is given away takes players and leaders, no AI. *)
LEMMA ReadGiveawayReads ==
  ASSUME CopyTypes, NEW c \in Players, NEW m \in Told, m.kind = "GIVEAWAY", ReadGiveaway(c, m)
  PROVE  Read(c, m)
<1> PICK me \in Copies : me = client[c]
  BY DEF CopyTypes
<1>1. m.team \in Teams /\ m.player \in Players
  BY DEF Told
<1>2. PICK w \in BOOLEAN, l \in Players \cup {None} :
        client' = [client EXCEPT ![c] = [me EXCEPT !.spectator[m.player] = w, !.leader[m.team] = l]]
  <2> DEFINE n == Cardinality(PlayersIn(m.team, me.spectator))
             own == m.team = TeamOf[m.player]
             last == (own \/ n = 0) /\ NumControllers(m.team, me.spectator, me.ai) = 1
             w == me.spectator[m.player] \/ (own /\ n # 1)
             l == IF last THEN None ELSE me.leader[m.team]
  <2>1. w \in BOOLEAN
    OBVIOUS
  <2>2. l \in Players \cup {None}
    BY <1>1, CopyParts
  <2>3. client' = [client EXCEPT ![c] = [me EXCEPT !.spectator[m.player] = w, !.leader[m.team] = l]]
    BY DEF ReadGiveaway
  <2> QED
    BY <2>1, <2>2, <2>3
<1>3. PICK you : you = [me EXCEPT !.spectator[m.player] = w, !.leader[m.team] = l]
  OBVIOUS
<1>4. you \in Copies /\ you.ai = me.ai
  BY <1>1, <1>3 DEF Copies
<1>5. \A d : Turns(me.ai, m, d) => d = me.ai
  BY DEF Turns, States
<1> QED
  BY <1>2, <1>3, <1>4, <1>5, OneCopyRead DEF Read

(* Who resigns leaves the AIs. *)
LEMMA ReadResignReads ==
  ASSUME CopyTypes, NEW c \in Players, NEW m \in Told, m.kind = "RESIGN", ReadResign(c, m)
  PROVE  Read(c, m)
<1> PICK me \in Copies : me = client[c]
  BY DEF CopyTypes
<1>1. m.player \in Players
  BY DEF Told
<1>2. PICK w \in [Players -> BOOLEAN], l \in [Teams -> Players \cup {None}] :
        client' = [client EXCEPT ![c] = [me EXCEPT !.spectator = w, !.leader = l]]
  <2> DEFINE w == [me.spectator EXCEPT ![m.player] = TRUE]
             l == [t \in Teams |-> NextLeader(t, m.player, me.leader, w, me.ai)]
  <2>1. w \in [Players -> BOOLEAN]
    BY CopyParts
  <2>2. l \in [Teams -> Players \cup {None}]
    BY <1>1, CopyParts, NextLeaderType
  <2>3. client' = [client EXCEPT ![c] = [me EXCEPT !.spectator = w, !.leader = l]]
    BY DEF ReadResign
  <2> QED
    BY <2>1, <2>2, <2>3
<1>3. PICK you : you = [me EXCEPT !.spectator = w, !.leader = l]
  OBVIOUS
<1>4. you \in Copies /\ you.ai = me.ai
  BY <1>1, <1>3 DEF Copies
<1>5. \A d : Turns(me.ai, m, d) => d = me.ai
  BY DEF Turns, States
<1> QED
  BY <1>2, <1>3, <1>4, <1>5, OneCopyRead DEF Read

(* An AI that is created goes into the slot the server has chosen. *)
LEMMA ReadAICreatedReads ==
  ASSUME CopyTypes, NEW c \in Players, NEW m \in Told, m.kind = "AI_CREATED", ReadAICreated(c, m)
  PROVE  Read(c, m)
<1> PICK me \in Copies : me = client[c]
  BY DEF CopyTypes
<1>1. m.team \in Teams /\ m.player \in Players /\ m.slot \in Slots
  BY DEF Told
<1>2. NewAI(m.player, m.team) \in AIs
  BY <1>1 DEF NewAI, AIs, States
<1>3. PICK added : added = AddSkirmishAI(me, m)
  OBVIOUS
<1>4. /\ added \in Copies
      /\ me.ai[m.slot].host = None => added.ai = [me.ai EXCEPT ![m.slot] = NewAI(m.player, m.team)]
  BY <1>1, <1>2, <1>3 DEF AddSkirmishAI, Copies
<1>5. PICK l \in Players \cup {None}, r \in SUBSET Slots :
        client' = [client EXCEPT ![c] = [added EXCEPT !.leader[m.team] = l, !.running = r]]
  <2> DEFINE l == IF added.leader[m.team] = None THEN m.player ELSE added.leader[m.team]
             r == IF m.player = c THEN added.running \cup {m.slot} ELSE added.running
  <2>1. l \in Players \cup {None} /\ r \in SUBSET Slots
    BY <1>1, <1>4, CopyParts
  <2>2. client' = [client EXCEPT ![c] = [added EXCEPT !.leader[m.team] = l, !.running = r]]
    BY <1>3 DEF ReadAICreated
  <2> QED
    BY <2>1, <2>2
<1>6. PICK you : you = [added EXCEPT !.leader[m.team] = l, !.running = r]
  OBVIOUS
<1>7. you \in Copies /\ you.ai = added.ai
  BY <1>1, <1>4, <1>6 DEF Copies
<1>8. \A d : Turns(me.ai, m, d) => d = added.ai
  BY <1>4 DEF Turns
<1> QED
  BY <1>5, <1>6, <1>7, <1>8, OneCopyRead DEF Read

(* A team that dies leaves its AIs for later. *)
LEMMA ReadNewFrameReads ==
  ASSUME CopyTypes, NEW c \in Players, NEW m \in Told, m.kind = "NEWFRAME", ReadNewFrame(c, m)
  PROVE  Read(c, m)
<1> PICK me \in Copies : me = client[c]
  BY DEF CopyTypes
<1>1. m.team \in Teams
  BY DEF Told
<1>2. \A d : Turns(me.ai, m, d) => d = me.ai
  BY DEF Turns, States
<1>3. CASE m.team \in me.dead
  BY <1>2, <1>3 DEF ReadNewFrame, Read, CopyTypes
<1>4. CASE m.team \notin me.dead
  <2> DEFINE w == [p \in Players |-> me.spectator[p] \/ TeamOf[p] = m.team]
  <2>1. w \in [Players -> BOOLEAN]
    OBVIOUS
  <2>2. client' = [client EXCEPT ![c] = [me EXCEPT !.dead = me.dead \cup {m.team}, !.spectator = w]]
    BY <1>4 DEF ReadNewFrame
  <2> HIDE DEF w
  <2>3. PICK you : you = [me EXCEPT !.dead = me.dead \cup {m.team}, !.spectator = w]
    OBVIOUS
  <2>4. you \in Copies /\ you.ai = me.ai
    BY <1>1, <2>1, <2>3 DEF Copies
  <2> QED
    BY <1>2, <2>2, <2>3, <2>4, OneCopyRead DEF Read
<1> QED
  BY <1>3, <1>4

(* An AI changes, or is removed. *)
LEMMA ReadAIStateReads ==
  ASSUME CopyTypes, NEW c \in Players, NEW m \in Told, m.kind \in States, ReadAIState(c, m)
  PROVE  Read(c, m)
<1> PICK me \in Copies : me = client[c]
  BY DEF CopyTypes
<1> PICK ai \in AIs : ai = me.ai[m.slot]
  BY CopyParts DEF Told
<1>1. m.slot \in Slots
  BY DEF Told
<1>2. PICK s \in AIs : s = [ai EXCEPT !.status = m.kind]
  BY DEF AIs
<1>3. NoAI \in AIs
  BY DEF NoAI, AIs, States
<1>4. \A d : Turns(me.ai, m, d) => d = [me.ai EXCEPT ![m.slot] = Changed(ai, m.kind)]
  BY DEF Turns
<1>5. CASE ~Ends(ai, m.kind)
  <2>1. PICK r \in SUBSET Slots :
          client' = [client EXCEPT ![c] = [me EXCEPT !.ai[m.slot].status = m.kind, !.running = r]]
    <3>1. me.running \ {m.slot} \in SUBSET Slots /\ me.running \cup {m.slot} \in SUBSET Slots
          /\ me.running \in SUBSET Slots /\ me = [me EXCEPT !.running = me.running]
      BY <1>1 DEF Copies
    <3>2. \/ Destroyed(c, m) \/ Recreated(c, m)
          \/ client' = [client EXCEPT ![c].ai[m.slot].status = m.kind]
      BY <1>5 DEF ReadAIState, Ends
    <3>3. CASE Destroyed(c, m)
      <4>1. PICK r \in SUBSET Slots : r = me.running \ {m.slot}
        BY <3>1
      <4>2. client' = [client EXCEPT ![c] = [me EXCEPT !.ai[m.slot].status = m.kind, !.running = r]]
        BY <4>1, <3>3 DEF Destroyed
      <4> QED
        BY <4>2
    <3>4. CASE Recreated(c, m)
      <4>1. PICK r \in SUBSET Slots : r = me.running \cup {m.slot}
        BY <3>1
      <4>2. client' = [client EXCEPT ![c] = [me EXCEPT !.ai[m.slot].status = m.kind, !.running = r]]
        BY <4>1, <3>4 DEF Recreated
      <4> QED
        BY <4>2
    <3>5. CASE client' = [client EXCEPT ![c].ai[m.slot].status = m.kind]
      <4>1. PICK r \in SUBSET Slots : r = me.running
        BY <3>1
      <4>2. [me EXCEPT !.ai[m.slot].status = m.kind]
              = [me EXCEPT !.ai[m.slot].status = m.kind, !.running = r]
        BY <4>1 DEF Copies
      <4> QED
        BY <3>5, <4>2
    <3> QED
      BY <3>2, <3>3, <3>4, <3>5
  <2>2. PICK you : you = [me EXCEPT !.ai[m.slot].status = m.kind, !.running = r]
    OBVIOUS
  <2>3. you \in Copies /\ you.ai = [me.ai EXCEPT ![m.slot] = s]
    BY <1>1, <1>2, <2>2 DEF Copies
  <2>4. Changed(ai, m.kind) = s
    BY <1>2, <1>5 DEF Changed
  <2> QED
    BY <1>4, <2>1, <2>2, <2>3, <2>4, OneCopyRead DEF Read
<1>6. CASE Ends(ai, m.kind)
  <2>1. Removed(c, m)
    BY <1>6 DEF ReadAIState, Ends
  <2>2. PICK left : left = RemoveSkirmishAI(me, m.slot)
    OBVIOUS
  <2>3. left \in Copies /\ left.ai = [me.ai EXCEPT ![m.slot] = NoAI]
    BY <1>1, <1>3, <2>2 DEF RemoveSkirmishAI, Copies
  <2>4. PICK l : client' = [client EXCEPT ![c] = [left EXCEPT !.leader[ai.team] = l]]
                 /\ l \in {None, left.leader[ai.team]}
    <3> DEFINE last == NumControllers(ai.team, me.spectator, me.ai) = 1
               l == IF last THEN None ELSE left.leader[ai.team]
    <3>1. client' = [client EXCEPT ![c] = [left EXCEPT !.leader[ai.team] = l]]
      BY <2>1, <2>2 DEF Removed
    <3>2. l \in {None, left.leader[ai.team]}
      OBVIOUS
    <3> QED
      BY <3>1, <3>2
  <2>5. PICK you : you = [left EXCEPT !.leader[ai.team] = l]
    OBVIOUS
  <2>6. you \in Copies /\ you.ai = left.ai
    <3>1. [left.leader EXCEPT ![ai.team] = l] \in [Teams -> Players \cup {None}]
      <4>1. left.leader \in [Teams -> Players \cup {None}]
        BY <2>3, CopyParts
      <4>2. CASE ai.team \in Teams
        <5>1. l \in Players \cup {None}
          BY <2>4, <4>1, <4>2
        <5> QED
          BY <4>1, <5>1
      <4>3. CASE ai.team \notin Teams
        <5>1. [left.leader EXCEPT ![ai.team] = l] = left.leader
          BY <4>1, <4>3
        <5> QED
          BY <4>1, <5>1
      <4> QED
        BY <4>2, <4>3
    <3> QED
      BY <2>3, <2>5, <3>1 DEF Copies
  <2>7. Changed(ai, m.kind) = NoAI
    BY <1>6 DEF Changed
  <2> QED
    BY <1>4, <2>3, <2>4, <2>5, <2>6, <2>7, OneCopyRead DEF Read
<1> QED
  BY <1>5, <1>6

(* Whatever a client reads, it was told, and its copy turns with it. *)
LEMMA ClientReadReads ==
  ASSUME Inductive, CopyTypes, NEW c \in Players, ClientRead(c)
  PROVE  /\ down[c] \in Seq(Told) /\ down[c] # <<>>
         /\ Read(c, Head(down[c]))
<1> DEFINE m == Head(down[c])
<1>1. down[c] \in Seq(Told) /\ down[c] # <<>>
  BY DEF Inductive, ServerIsSound, ToldTypes, ClientRead, Reads
<1>2. m \in Told
  BY <1>1, HeadAndTail
<1>3. m.kind \in States \cup {"GIVEAWAY", "RESIGN", "AI_CREATED", "NEWFRAME"}
  BY <1>2 DEF Told, Packets, Kinds
<1> HIDE DEF m
<1>4. CASE m.kind = "GIVEAWAY"
  <2>1. ReadGiveaway(c, m)
    BY <1>4 DEF ClientRead, m
  <2> QED
    BY <1>1, <1>2, <1>4, <2>1, ReadGiveawayReads DEF m
<1>5. CASE m.kind = "RESIGN"
  <2>1. ReadResign(c, m)
    BY <1>5 DEF ClientRead, m
  <2> QED
    BY <1>1, <1>2, <1>5, <2>1, ReadResignReads DEF m
<1>6. CASE m.kind = "AI_CREATED"
  <2>1. ReadAICreated(c, m)
    BY <1>6 DEF ClientRead, m
  <2> QED
    BY <1>1, <1>2, <1>6, <2>1, ReadAICreatedReads DEF m
<1>7. CASE m.kind = "NEWFRAME"
  <2>1. ReadNewFrame(c, m)
    BY <1>7 DEF ClientRead, m
  <2> QED
    BY <1>1, <1>2, <1>7, <2>1, ReadNewFrameReads DEF m
<1>8. CASE m.kind \in States
  <2>1. ReadAIState(c, m)
    BY <1>8 DEF ClientRead, m, States
  <2> QED
    BY <1>1, <1>2, <1>8, <2>1, ReadAIStateReads DEF m
<1> QED
  BY <1>3, <1>4, <1>5, <1>6, <1>7, <1>8

(* A client that reads takes one step towards the server's list.           *)
LEMMA ClientReadKeepsCopies ==
  ASSUME Inductive, CopiesAreSound, NEW c \in Players, ClientRead(c)
  PROVE  CopiesAreSound'
<1>1. /\ down[c] \in Seq(Told) /\ down[c] # <<>>
      /\ Read(c, Head(down[c]))
  BY ClientReadReads DEF CopiesAreSound
<1>2. PICK d \in [Slots -> AIs] :
        Turns(client[c].ai, Head(down[c]), d) /\ Leads(d, Tail(down[c]), skirmishAIs)
  BY <1>1, LeadsFrom DEF CopiesAreSound, CopiesFollow
<1>3. client'[c].ai = d /\ \A p \in Players : p # c => client'[p] = client[p]
  BY <1>1, <1>2 DEF Read
<1>4. /\ down'[c] = Tail(down[c]) /\ skirmishAIs' = skirmishAIs
      /\ \A p \in Players : p # c => down'[p] = down[p]
  BY DEF ClientRead, serverVars, Inductive, ServerIsSound, ToldTypes
<1>5. ASSUME NEW p \in Players
      PROVE  Leads(client'[p].ai, down'[p], skirmishAIs')
  <2>1. CASE p = c
    BY <1>2, <1>3, <1>4, <2>1
  <2>2. CASE p # c
    BY <1>3, <1>4, <2>2 DEF CopiesAreSound, CopiesFollow
  <2> QED
    BY <2>1, <2>2
<1> QED
  BY <1>1, <1>5 DEF CopiesAreSound, CopiesFollow, Read

(* Asking for an AI notes what to create it from, and no more. *)
LEMMA AIControlKeepsTypes ==
  ASSUME CopyTypes, NEW c \in Players, NEW t \in Teams, AIControl(c, t)
  PROVE  CopyTypes' /\ \A p \in Players : client'[p].ai = client[p].ai
<1> PICK me \in Copies : me = client[c]
  BY DEF CopyTypes
<1>1. client' = [client EXCEPT ![c] = [me EXCEPT !.inCreation = me.inCreation \cup {t}]]
  BY DEF AIControl
<1>2. PICK you : you = [me EXCEPT !.inCreation = me.inCreation \cup {t}]
  OBVIOUS
<1>3. you \in Copies /\ you.ai = me.ai
  BY <1>2 DEF Copies
<1>4. /\ CopyTypes' /\ client'[c] = you
      /\ \A p \in Players : p # c => client'[p] = client[p]
  BY <1>1, <1>2, <1>3, OneCopyRead
<1>5. \A p \in Players : client'[p].ai = client[p].ai
  BY <1>3, <1>4
<1> QED
  BY <1>4, <1>5

LEMMA AIControlKeepsCopies ==
  ASSUME CopiesAreSound, NEW c \in Players, NEW t \in Teams, AIControl(c, t)
  PROVE  CopiesAreSound'
<1>1. CopyTypes' /\ \A p \in Players : client'[p].ai = client[p].ai
  BY AIControlKeepsTypes DEF CopiesAreSound
<1>2. down' = down /\ skirmishAIs' = skirmishAIs
  BY DEF AIControl, Asks, serverVars
<1> QED
  BY <1>1, <1>2 DEF CopiesAreSound, CopiesFollow

(* A client that ends keeps the AIs it had. *)
LEMMA ClientEndsKeepsTypes ==
  ASSUME CopyTypes, NEW c \in Players, ClientEnds(c)
  PROVE  CopyTypes' /\ \A p \in Players : client'[p].ai = client[p].ai
<1> PICK me \in Copies : me = client[c]
  BY DEF CopyTypes
<1>1. client' = [client EXCEPT ![c] = [me EXCEPT !.ended = TRUE]]
  BY DEF ClientEnds
<1>2. PICK you : you = [me EXCEPT !.ended = TRUE]
  OBVIOUS
<1>3. you \in Copies /\ you.ai = me.ai
  BY <1>2 DEF Copies
<1>4. /\ CopyTypes' /\ client'[c] = you
      /\ \A p \in Players : p # c => client'[p] = client[p]
  BY <1>1, <1>2, <1>3, OneCopyRead
<1>5. \A p \in Players : client'[p].ai = client[p].ai
  BY <1>3, <1>4
<1> QED
  BY <1>4, <1>5

LEMMA ClientEndsKeepsCopies ==
  ASSUME CopiesAreSound, NEW c \in Players, ClientEnds(c)
  PROVE  CopiesAreSound'
<1>1. CopyTypes' /\ \A p \in Players : client'[p].ai = client[p].ai
  BY ClientEndsKeepsTypes DEF CopiesAreSound
<1>2. down' = down /\ skirmishAIs' = skirmishAIs
  BY DEF ClientEnds, serverVars
<1> QED
  BY <1>1, <1>2 DEF CopiesAreSound, CopiesFollow

(* A frame changes no AI. *)
LEMMA CreateNewFrameTells ==
  ASSUME NEW t \in Teams, CreateNewFrame(t)
  PROVE  \E m \in Told : Broadcast(m) /\ Turns(skirmishAIs, m, skirmishAIs')
<1>1. Packet("NEWFRAME", None, t, None) \in Told
  BY DEF Packet, Told, Packets, Kinds, States
<1>2. /\ Broadcast(Packet("NEWFRAME", None, t, None))
      /\ skirmishAIs' = skirmishAIs
  BY DEF CreateNewFrame, serverVars
<1>3. Turns(skirmishAIs, Packet("NEWFRAME", None, t, None), skirmishAIs')
  BY <1>2 DEF Turns, Packet, States
<1> QED
  BY <1>1, <1>2, <1>3
--------------------------------------------------------------------------------
(* The steps, and what they keep. *)

LEMMA NextKeepsCopies ==
  ASSUME ~Gifts, Inductive, CopiesAreSound, [Next]_vars
  PROVE  CopiesAreSound'
<1>1. Inductive' /\ ServerIsSound /\ ServerTypes'
  BY NextKeepsInductive DEF Inductive, ServerIsSound
<1>2. ASSUME client' = client,
             \/ UNCHANGED <<skirmishAIs, down>>
             \/ \E m \in Told : Broadcast(m) /\ Turns(skirmishAIs, m, skirmishAIs')
      PROVE  CopiesAreSound'
  BY <1>1, <1>2, CopiesGoOn DEF CopiesAreSound, CopyTypes
<1>3. ASSUME NEW p \in Players, ServerRead(p)
      PROVE  CopiesAreSound'
  <2>1. client' = client
    BY <1>3 DEF ServerRead
  <2> QED
    BY <1>2, <1>3, <2>1, ServerTurns
<1>4. ASSUME NEW p \in Players, SpecPlayer(p)
      PROVE  CopiesAreSound'
  <2>1. client' = client /\ ResignPlayer(p)
    BY <1>4 DEF SpecPlayer
  <2> QED
    BY <1>2, <2>1, ServerTurns
<1>5. ASSUME NEW p \in Players, ClientRead(p)
      PROVE  CopiesAreSound'
  BY <1>5, ClientReadKeepsCopies
<1>6. ASSUME NEW p \in Players, NEW t \in Teams, AIControl(p, t)
      PROVE  CopiesAreSound'
  BY <1>6, AIControlKeepsCopies
<1>7. ASSUME NEW p \in Players,
             GiveAway(p) \/ Resign(p) \/ \E t \in Teams, kind \in KillKinds : AIKill(p, t, kind)
      PROVE  CopiesAreSound'
  <2>1. client' = client /\ UNCHANGED <<skirmishAIs, down>>
    BY <1>7 DEF GiveAway, Resign, AIKill, Asks, serverVars
  <2> QED
    BY <1>2, <2>1
<1>8. ASSUME NEW t \in Teams, CreateNewFrame(t)
      PROVE  CopiesAreSound'
  <2>1. client' = client
    BY <1>8 DEF CreateNewFrame
  <2> QED
    BY <1>2, <1>8, <2>1, CreateNewFrameTells
<1>9. CASE UNCHANGED vars
  <2>1. client' = client /\ UNCHANGED <<skirmishAIs, down>>
    BY <1>9 DEF vars, serverVars
  <2> QED
    BY <1>2, <2>1
<1>10. ASSUME NEW p \in Players, ClientEnds(p)
       PROVE  CopiesAreSound'
  BY <1>10, ClientEndsKeepsCopies
<1> QED
  BY <1>3, <1>4, <1>5, <1>6, <1>7, <1>8, <1>9, <1>10 DEF Next

(* Everybody starts with the script's AIs. *)
LEMMA InitCopies ==
  ASSUME Init, Inductive
  PROVE  CopiesAreSound
<1>1. /\ spectator \in [Players -> BOOLEAN] /\ leader \in [Teams -> Players \cup {None}]
      /\ skirmishAIs \in [Slots -> AIs]
  BY DEF Inductive, ServerIsSound, ServerTypes
<1> DEFINE copy(c) ==
       [spectator |-> spectator, leader |-> leader, dead |-> {}, ai |-> skirmishAIs,
        inCreation |-> {t \in Teams : HostedIn(t, skirmishAIs, c) # {}},
        running |-> {s \in Slots : skirmishAIs[s].host = c}, ended |-> FALSE]
<1>2. client = [c \in Players |-> copy(c)]
  BY DEF Init
<1>3. \A c \in Players : copy(c) \in Copies /\ copy(c).ai = skirmishAIs
  BY <1>1 DEF Copies
<1> HIDE DEF copy
<1>4. CopyTypes /\ \A c \in Players : client[c].ai = skirmishAIs
  BY <1>2, <1>3 DEF CopyTypes
<1>5. \A c \in Players : down[c] = <<>>
  BY DEF Init
<1>6. Leads(skirmishAIs, <<>>, skirmishAIs)
  BY <1>1, LeadsNowhere
<1> QED
  BY <1>4, <1>5, <1>6 DEF CopiesAreSound, CopiesFollow

(* What is in a set is in a larger one. *)
LEMMA SeqGrows ==
  ASSUME NEW S, NEW T, S \subseteq T, NEW q \in Seq(S)
  PROVE  q \in Seq(T)
  OBVIOUS

(* The bounds are kept. *)
Bounded == commands \in 0..MaxCommands /\ deaths \in 0..MaxDeaths

LEMMA NextKeepsBounded ==
  ASSUME Bounded, [Next]_vars
  PROVE  Bounded'
<1>1. MaxCommands \in Nat /\ MaxDeaths \in Nat
  BY TeamAssumption DEF TeamAssumption
<1>2. \/ UNCHANGED <<commands, deaths>>
      \/ commands < MaxCommands /\ commands' = commands + 1 /\ UNCHANGED deaths
      \/ deaths < MaxDeaths /\ deaths' = deaths + 1 /\ UNCHANGED commands
  <2>1. ASSUME NEW p \in Players, ServerRead(p) \/ ClientRead(p) \/ ClientEnds(p)
        PROVE  UNCHANGED <<commands, deaths>>
    BY <2>1 DEF ServerRead, ClientRead, ClientEnds, bounds
  <2>2. ASSUME NEW p \in Players, SpecPlayer(p) \/ GiveAway(p) \/ Resign(p)
        PROVE  commands < MaxCommands /\ commands' = commands + 1 /\ UNCHANGED deaths
    BY <2>2 DEF SpecPlayer, GiveAway, Resign, Asks
  <2>3. ASSUME NEW p \in Players, NEW t \in Teams,
               AIControl(p, t) \/ \E kind \in KillKinds : AIKill(p, t, kind)
        PROVE  commands < MaxCommands /\ commands' = commands + 1 /\ UNCHANGED deaths
    BY <2>3 DEF AIControl, AIKill, Asks
  <2>4. ASSUME NEW t \in Teams, CreateNewFrame(t)
        PROVE  deaths < MaxDeaths /\ deaths' = deaths + 1 /\ UNCHANGED commands
    BY <2>4 DEF CreateNewFrame
  <2> QED
    BY <2>1, <2>2, <2>3, <2>4 DEF Next, vars, bounds
<1> QED
  BY <1>1, <1>2 DEF Bounded

(* What a client's copy lacks of the server's list of AIs is on the way to *)
(* it, in the order in which the server did it.                            *)
THEOREM CopiesInductive == ~Gifts => (Spec => [](Inductive /\ CopiesAreSound))
<1> SUFFICES ASSUME ~Gifts
             PROVE  Spec => [](Inductive /\ CopiesAreSound)
  OBVIOUS
<1>1. Init => Inductive /\ CopiesAreSound
  BY InitIsInductive, InitCopies
<1>2. Inductive /\ CopiesAreSound /\ [Next]_vars => (Inductive /\ CopiesAreSound)'
  BY NextKeepsInductive, NextKeepsCopies
<1> QED
  BY <1>1, <1>2, PTL DEF Spec

(* Whatever was created, killed, reloaded, resigned or given away at the   *)
(* same time, a client that has read everything has the server's AIs.      *)
THEOREM ClientsAgree == ~Gifts => (Spec => []SameAIs)
<1> SUFFICES ASSUME ~Gifts
             PROVE  Spec => []SameAIs
  OBVIOUS
<1>1. ASSUME Inductive, CopiesAreSound, NEW c \in Players, down[c] = <<>>
      PROVE  client[c].ai = skirmishAIs
  <2>1. client[c].ai \in [Slots -> AIs]
    BY <1>1 DEF CopiesAreSound, CopyTypes, Copies
  <2>2. Leads(client[c].ai, <<>>, skirmishAIs)
    BY <1>1 DEF CopiesAreSound, CopiesFollow
  <2> QED
    BY <2>1, <2>2, LeadsNowhere
<1>2. Inductive /\ CopiesAreSound => SameAIs
  BY <1>1 DEF SameAIs
<1> QED
  BY <1>2, CopiesInductive, PTL

(* No client is told of the state of an AI it does not know: whatever it   *)
(* still has to read before, the AI is there when it reads of it.          *)
THEOREM ToldOfWhatTheyKnow == ~Gifts => (Spec => []ClientsAreNotSurprised)
<1> SUFFICES ASSUME ~Gifts
             PROVE  Spec => []ClientsAreNotSurprised
  OBVIOUS
<1>1. ASSUME Inductive, CopiesAreSound, NEW c \in Players,
             down[c] # <<>>, Head(down[c]).kind \in States
      PROVE  client[c].ai[Head(down[c]).slot].host # None
  <2>1. down[c] \in Seq(Told)
    BY <1>1 DEF Inductive, ServerIsSound, ToldTypes
  <2>2. PICK d \in [Slots -> AIs] : Turns(client[c].ai, Head(down[c]), d)
    BY <1>1, <2>1, LeadsFrom DEF CopiesAreSound, CopiesFollow
  <2> QED
    BY <1>1, <2>2 DEF Turns
<1>2. Inductive /\ CopiesAreSound => ClientsAreNotSurprised
  BY <1>1 DEF ClientsAreNotSurprised
<1> QED
  BY <1>2, CopiesInductive, PTL

(* What a client reads and what its user asks for keeps the types of its   *)
(* copy, whether or not it is the server's.                                *)
LEMMA NextKeepsCopyTypes ==
  ASSUME Inductive, CopyTypes, [Next]_vars
  PROVE  CopyTypes'
<1>1. ASSUME NEW p \in Players, ClientRead(p)
      PROVE  CopyTypes'
  BY <1>1, ClientReadReads DEF Read
<1>2. ASSUME NEW p \in Players, NEW t \in Teams, AIControl(p, t)
      PROVE  CopyTypes'
  BY <1>2, AIControlKeepsTypes
<1>3. ASSUME UNCHANGED client
      PROVE  CopyTypes'
  BY <1>3 DEF CopyTypes
<1>4. ASSUME NEW p \in Players,
             \/ ServerRead(p) \/ SpecPlayer(p) \/ GiveAway(p) \/ Resign(p)
             \/ \E t \in Teams, kind \in KillKinds : AIKill(p, t, kind)
      PROVE  UNCHANGED client
  BY <1>4 DEF ServerRead, SpecPlayer, GiveAway, Resign, AIKill
<1>5. ASSUME NEW t \in Teams, CreateNewFrame(t)
      PROVE  UNCHANGED client
  BY <1>5 DEF CreateNewFrame
<1>6. CASE UNCHANGED vars
  BY <1>3, <1>6 DEF vars
<1>7. ASSUME NEW p \in Players, ClientEnds(p)
      PROVE  CopyTypes'
  BY <1>7, ClientEndsKeepsTypes
<1> QED
  BY <1>1, <1>2, <1>3, <1>4, <1>5, <1>6, <1>7 DEF Next

(* The server's fields, the copies and the packets keep their types. *)
THEOREM TeamTypes == Spec => []TypeOK
<1>1. Init => Bounded /\ CopyTypes
  <2>1. Init => Bounded
    BY TeamAssumption DEF TeamAssumption, Init, Bounded
  <2>2. Init => CopyTypes
    BY InitIsInductive, InitCopies DEF CopiesAreSound
  <2> QED
    BY <2>1, <2>2
<1>2. Bounded /\ [Next]_vars => Bounded'
  BY NextKeepsBounded
<1>3. Inductive /\ CopyTypes /\ [Next]_vars => CopyTypes'
  BY NextKeepsCopyTypes
<1>4. Inductive /\ CopyTypes /\ Bounded => TypeOK
  <2> SUFFICES ASSUME Inductive, CopyTypes, Bounded
               PROVE  TypeOK
    OBVIOUS
  <2>1. \A p \in Players : Asked(p) \subseteq Packets
    BY DEF Asked
  <2>2. \A p \in Players : up[p] \in Seq(Packets)
    BY <2>1, SeqGrows DEF Inductive, AskedTypes
  <2>3. up \in [Players -> Seq(Packets)]
    BY <2>2 DEF Inductive, AskedTypes
  <2>4. \A p \in Players : down[p] \in Seq(Packets)
    BY SeqGrows DEF Inductive, ServerIsSound, ToldTypes, Told
  <2>5. down \in [Players -> Seq(Packets)]
    BY <2>4 DEF Inductive, ServerIsSound, ToldTypes
  <2> QED
    BY <2>3, <2>5 DEF TypeOK, Inductive, ServerIsSound, ServerTypes, CopyTypes, Bounded
<1> QED
  BY <1>1, <1>2, <1>3, <1>4, TeamInductive, PTL DEF Spec
================================================================================
