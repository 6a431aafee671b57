------------------------------ MODULE GameSession ------------------------------
(***************************************************************************)
(* Who takes part in a game: the GameParticipants of a CGameServer, their  *)
(* connections, and the packets the server broadcasts to them.             *)
(*                                                                         *)
(* A connection is taken as the reliable channel UdpConnection implements: *)
(* what SendData is given on the server's side is what the client that     *)
(* opened the connection will read.  A client that has lost touch may open *)
(* a second connection from a new address to ask for its first one to be   *)
(* continued there (a reconnection attempt).                               *)
(*                                                                         *)
(* The packets that are broadcast are told apart by their number: whether  *)
(* everybody gets the same ones in the same order is what matters here.    *)
(***************************************************************************)
EXTENDS Integers, Sequences

CONSTANTS
  NumScripted,   \* the participants 1..NumScripted are in the start script
  Spectators,    \* those of them that only watch
  MaxGuests,     \* bound: participants that are not in the script
  NumConns,      \* bound: connections that are attempted
  ConnName,      \* ConnName[k]: the participant k names, 0 for an unknown name
  LocalConns,    \* the connection of the host's own client, if it has one
  UdpReconnects, \* whether reconnectTimeout is set
  AllowSpecJoin, \* allowSpecJoin
  AIHosts,       \* participants with an AI that may pause before the start
  RejoinAtOnce,  \* whether a player may come back while it is DISCONNECTING
  RacyStart,     \* whether clients are served before Initialize is through
  MaxPackets     \* bound: from so many broadcasts on no more are provoked

Ids == 1..(NumScripted + MaxGuests)
Conns == 1..NumConns
None == 0

ASSUME SessionAssumption ==
  /\ NumScripted \in Nat /\ MaxGuests \in Nat /\ NumConns \in Nat /\ MaxPackets \in Nat
  /\ Spectators \subseteq 1..NumScripted /\ AIHosts \subseteq Ids
  /\ ConnName \in [Conns -> 0..NumScripted]
  /\ LocalConns \subseteq Conns
  /\ {UdpReconnects, AllowSpecJoin, RejoinAtOnce, RacyStart} \subseteq BOOLEAN

VARIABLES
  numPlayers,     \* players.size()
  myState, clientLink, ready,
  relayed,        \* whose packets get as far as ProcessPacket: those with a
                  \* loopback link, aiClientLinks[MAX_AIS]
  quiet,          \* how long the link has been silent: 1 is beyond
                  \* reconnectTimeout, 2 beyond networkTimeout
  canReconnect, gameHasStarted,
  accepting,      \* the listener's acceptNewConnections
  countdown,      \* readyTime is set
  waited,         \* since the server's start: 1 is beyond the 30 seconds of
                  \* CheckForGameStart, 2 beyond initialNetworkTimeout
  isPaused, serverFrameNum, quitServer,
  packetCache,
  attempt,        \* attempt[k]: whether connection k was opened, and what for
  greeting,       \* greeting[k]: what the server sent on k before the cache
  received,       \* received[i]: the cache and the broadcasts sent on i's link
  toTell,         \* how many packets Initialize has still to broadcast
  telling,        \* the one it has sent, but not put into the cache yet
  numPackets,     \* history: how many packets were broadcast so far
  announced       \* history: who is in the game, as the broadcasts have it

participants == <<numPlayers, myState, clientLink, ready, relayed, quiet>>
clock == <<gameHasStarted, accepting, countdown, waited, isPaused, serverFrameNum>>
conns == <<canReconnect, attempt, greeting>>
packets == <<packetCache, received, numPackets>>
opening == <<toTell, telling>>
vars == <<participants, clock, conns, packets, opening, announced, quitServer>>

(* The server's thread is started before Initialize broadcasts the game's  *)
(* ID and the random seed; nearly always it sleeps for that time.          *)
Untold == IF RacyStart THEN 2 ELSE 0

Init ==
  /\ numPlayers = NumScripted
  /\ myState = [i \in Ids |-> "UNCONNECTED"]
  /\ clientLink = [i \in Ids |-> None]
  /\ ready = [i \in Ids |-> FALSE] /\ relayed = {}
  /\ quiet = [i \in Ids |-> 0]
  /\ canReconnect = FALSE /\ gameHasStarted = FALSE /\ accepting = TRUE
  /\ countdown = FALSE /\ waited = 0
  /\ isPaused = FALSE /\ serverFrameNum = -1 /\ quitServer = FALSE
  /\ toTell = Untold /\ telling = 0
  /\ numPackets = 2 - Untold /\ packetCache = [n \in 1..(2 - Untold) |-> n]
  /\ attempt = [k \in Conns |-> "none"]
  /\ greeting = [k \in Conns |-> <<>>]
  /\ received = [i \in Ids |-> <<>>]
  /\ announced = {}
--------------------------------------------------------------------------------
(* Broadcast *)

IsSpectator(i) == i \in Spectators \/ i > NumScripted
PreSimFrame == serverFrameNum = -1

(* SendData: a participant that is DISCONNECTING gets nothing any more *)
Live(i) == clientLink[i] # None /\ myState[i] # "DISCONNECTING"

(* mutants: the cache is not kept for those who come back, or for those    *)
(* who come late                                                           *)
CachesForGuests == AllowSpecJoin \/ ~gameHasStarted
CachesForRejoin == canReconnect \/ AllowSpecJoin

Caches == canReconnect \/ AllowSpecJoin \/ ~gameHasStarted

(* the next m packets; what one handler sends about one thing counts as one *)
Packets(m) == [n \in 1..m |-> numPackets + n]

(* mutant: only those who have loaded the game are sent what is broadcast *)
HeardInGame(m) ==
  [i \in Ids |-> IF myState[i] = "INGAME" THEN received[i] \o Packets(m) ELSE received[i]]

(* what everybody has been sent, once the next m packets are broadcast *)
Heard(m) == [i \in Ids |-> IF Live(i) THEN received[i] \o Packets(m) ELSE received[i]]

Broadcast(m) ==
  /\ numPackets' = numPackets + m
  /\ received' = Heard(m)
  /\ packetCache' = IF Caches THEN packetCache \o Packets(m) ELSE packetCache

(* Initialize's own broadcasts are made without the server's lock: the     *)
(* packet goes to the participants first and into the cache later.         *)
SendUnlocked ==
  /\ toTell > 0 /\ telling = 0
  /\ telling' = numPackets + 1
  /\ numPackets' = numPackets + 1
  /\ received' = Heard(1)
  /\ UNCHANGED <<toTell, packetCache>>

CacheUnlocked ==
  /\ toTell > 0 /\ telling # 0
  /\ packetCache' = IF Caches THEN Append(packetCache, telling) ELSE packetCache
  /\ toTell' = toTell - 1 /\ telling' = 0
  /\ UNCHANGED <<received, numPackets>>

Initialize ==
  /\ SendUnlocked \/ CacheUnlocked
  /\ UNCHANGED <<participants, clock, conns, announced, quitServer>>

(* the bound on what clients and clock provoke *)
MayTalk == numPackets < MaxPackets
--------------------------------------------------------------------------------
(* Connecting: HandleConnectionAttempts and AddLocalClient, BindConnection *)

(* canReconnect, once connection k has been looked at *)
CanReconnectWith(k) == canReconnect \/ (UdpReconnects /\ k \notin LocalConns)

NotConnected(i) == clientLink[i] = None \/ myState[i] = "DISCONNECTING"

(* mutant: a reconnection attempt is enough for one who is not connected *)
AllowConnectAnyway(i, k, reconnect) ==
  IF NotConnected(i) THEN CanReconnectWith(k) \/ ~gameHasStarted
  ELSE CanReconnectWith(k) /\ quiet[i] >= 1

(* GetConnectionFlags; the listener gives packets from the address of an   *)
(* open connection to that connection, so the addresses always differ      *)
AllowConnect(i, k, reconnect) ==
  IF NotConnected(i) THEN ~reconnect /\ (CanReconnectWith(k) \/ ~gameHasStarted)
  ELSE CanReconnectWith(k) /\ quiet[i] >= 1

(* mutant: a client that was started anew continues the old connection *)
ForceNewLinkNever(i, reconnect) == FALSE

ForceNewLink(i, reconnect) == ~NotConnected(i) /\ ~reconnect

Refuse == UNCHANGED <<participants, greeting, packets, announced>>

(* ReconnectTo: the participant's own connection goes on at k's address;    *)
(* what Kill has taken from one that was DISCONNECTING is not given back.  *)
Reestablish(i) ==
  /\ myState' = [myState EXCEPT ![i] = IF @ = "DISCONNECTING" THEN "CONNECTED" ELSE @]
  /\ UNCHANGED <<numPlayers, clientLink, ready, relayed, quiet, greeting, packets, announced>>

Item(kind, player) == [kind |-> kind, player |-> player]

(* mutant: the player number is taken after the participant was added *)
GreetingNextNumber(i) ==
  <<Item("gamedata", None), Item("setplayernum", i + 1)>>

(* What i is sent first: a guest its own description, everybody the game,  *)
(* its number, the JoinTeam of a player and the frame the game is at.      *)
Greeting(i) ==
  (IF i > NumScripted THEN <<Item("createnewplayer", i)>> ELSE <<>>)
    \o <<Item("gamedata", None), Item("setplayernum", i)>>
    \o (IF IsSpectator(i) THEN <<>> ELSE <<Item("jointeam", i)>>)
    \o (IF gameHasStarted THEN <<Item("progress", None)>> ELSE <<>>)

(* mutant: the new link is there before the news of it is broadcast *)
EstablishBeforeNews(i, k, forceNewLink) ==
  LET created == IF i > numPlayers THEN 1 ELSE 0
      left    == IF forceNewLink THEN 1 ELSE 0
      joined  == IF IsSpectator(i) THEN 0 ELSE 1
      news    == created + left + joined
      keeps   == CanReconnectWith(k) \/ AllowSpecJoin \/ ~gameHasStarted
      cached  == IF keeps THEN packetCache \o Packets(news) ELSE packetCache
  IN  /\ numPlayers' = IF i > numPlayers THEN i ELSE numPlayers
      /\ myState' = [myState EXCEPT ![i] = "CONNECTED"]
      /\ clientLink' = [clientLink EXCEPT ![i] = k] /\ relayed' = relayed \cup {i}
      /\ quiet' = [quiet EXCEPT ![i] = 0]
      /\ numPackets' = numPackets + news
      /\ packetCache' = cached
      /\ received' = [Heard(news) EXCEPT ![i] = cached \o Packets(news)]
      /\ announced' = IF forceNewLink THEN announced \ {i} ELSE announced
      /\ greeting' = [greeting EXCEPT ![k] = Greeting(i)]
      /\ UNCHANGED ready

(* AddAdditionalUser for a guest, the end of an old connection, and the    *)
(* start of the new one.  CreateNewPlayer, PlayerLeft and JoinTeam are     *)
(* broadcast; the newcomer is sent what it missed out of the cache.        *)
Establish(i, k, forceNewLink) ==
  LET created == IF i > numPlayers THEN 1 ELSE 0
      left    == IF forceNewLink THEN 1 ELSE 0
      joined  == IF IsSpectator(i) THEN 0 ELSE 1
      news    == created + left + joined
      keeps   == CanReconnectWith(k) \/ AllowSpecJoin \/ ~gameHasStarted
      cached  == IF keeps THEN packetCache \o Packets(news) ELSE packetCache
  IN  /\ numPlayers' = IF i > numPlayers THEN i ELSE numPlayers
      /\ myState' = [myState EXCEPT ![i] = "CONNECTED"]
      /\ clientLink' = [clientLink EXCEPT ![i] = k] /\ relayed' = relayed \cup {i}
      /\ quiet' = [quiet EXCEPT ![i] = 0]
      /\ numPackets' = numPackets + news
      /\ packetCache' = cached
      /\ received' = [Heard(news) EXCEPT ![i] = cached]
      /\ announced' = IF forceNewLink THEN announced \ {i} ELSE announced
      /\ greeting' = [greeting EXCEPT ![k] = Greeting(i)]
      /\ UNCHANGED ready

(* The participant a connection is for; a reconnecting guest is not found  *)
(* under the name it gives, as the server has put a tilde before it.       *)
Wanted(k) == IF ConnName[k] # 0 THEN ConnName[k] ELSE numPlayers + 1

BindConnection(k, reconnect) ==
  LET i == Wanted(k)
      named == ConnName[k] # 0
      allowed == IF named THEN AllowConnect(i, k, reconnect) ELSE AllowSpecJoin
      forceNewLink == named /\ ForceNewLink(i, reconnect)
  IN  /\ canReconnect' = CanReconnectWith(k)
      /\ \/ /\ attempt' = [attempt EXCEPT ![k] = "refused"]
            /\ Refuse \* perhaps for its version or password
         \/ /\ allowed /\ i \in Ids
            /\ attempt' = [attempt EXCEPT ![k] =
                 IF reconnect THEN "reconnected" ELSE "accepted"]
            /\ IF named /\ clientLink[i] # None /\ ~forceNewLink
               THEN Reestablish(i) ELSE Establish(i, k, forceNewLink)

(* A reconnection attempt comes from a client that has the game's data. *)
MayAttempt(k, reconnect) ==
  /\ attempt[k] = "none"
  /\ IF k \in LocalConns THEN toTell = 0 /\ ~gameHasStarted ELSE accepting
  /\ IF reconnect
     THEN /\ k \notin LocalConns
          /\ \E j \in Conns : /\ ConnName[j] = ConnName[k] /\ attempt[j] = "accepted"
                              /\ greeting[j] # <<>>
     ELSE ConnName[k] # 0 /\ ~RejoinAtOnce => myState[Wanted(k)] # "DISCONNECTING"

Connect(k, reconnect) ==
  /\ MayAttempt(k, reconnect)
  /\ BindConnection(k, reconnect)
  /\ UNCHANGED clock
--------------------------------------------------------------------------------
(* What comes from a client: ServerReadNet and ProcessPacket *)

(* The client that opened the link is heard and still takes part.          *)
Speaks(i) ==
  /\ Live(i) /\ i \in relayed /\ quiet[i] = 0
  /\ attempt[clientLink[i]] = "accepted"

(* NETMSG_PLAYERNAME, once the client has loaded the game *)
PlayerName(i) ==
  /\ Speaks(i) /\ myState[i] = "CONNECTED"
  /\ myState' = [myState EXCEPT ![i] = "INGAME"]
  /\ announced' = announced \cup {i}
  /\ Broadcast(1)
  /\ UNCHANGED <<numPlayers, clientLink, ready, relayed, quiet, clock, conns>>

(* NETMSG_STARTPOS, where the start positions are chosen in the game: who  *)
(* moves its position may take its readiness back with it                  *)
Ready(i, on) ==
  /\ Speaks(i) /\ ~IsSpectator(i) /\ ready[i] # on /\ ~gameHasStarted
  /\ on \/ MayTalk
  /\ ready' = [ready EXCEPT ![i] = on]
  /\ Broadcast(1)
  /\ UNCHANGED <<numPlayers, myState, clientLink, relayed, quiet, clock, conns, announced>>

(* NETMSG_COMMAND and the other orders that are only forwarded *)
Command(i) ==
  /\ Speaks(i) /\ myState[i] = "INGAME" /\ MayTalk
  /\ Broadcast(1)
  /\ UNCHANGED <<participants, clock, conns, announced>>

(* NETMSG_PAUSE: a client does not let its player pause before the start,  *)
(* but it does not keep its AIs from it                                    *)
Pause(i, on) ==
  /\ Speaks(i) /\ MayTalk
  /\ gameHasStarted \/ i \in AIHosts
  /\ ~IsSpectator(i) \/ clientLink[i] \in LocalConns
  /\ isPaused' = on
  /\ Broadcast(1)
  /\ UNCHANGED <<participants, gameHasStarted, accepting, countdown, waited,
                 serverFrameNum, conns, announced>>

(* mutant: nobody is told that i has left *)
DepartsQuietly(i) ==
  /\ myState' = [myState EXCEPT ![i] = "DISCONNECTING"]
  /\ relayed' = relayed \ {i}
  /\ UNCHANGED <<numPlayers, clientLink, ready, quiet, clock, conns, packets, announced>>

(* the announcement that i has left, and Kill with a flush *)
Departs(i) ==
  /\ Broadcast(1)
  /\ announced' = announced \ {i}
  /\ myState' = [myState EXCEPT ![i] = "DISCONNECTING"]
  /\ relayed' = relayed \ {i}
  /\ UNCHANGED <<numPlayers, clientLink, ready, quiet, clock, conns>>

(* NETMSG_QUIT *)
Quit(i) == Speaks(i) /\ Departs(i)

KickPlayer(i) == Live(i) /\ Departs(i)

(* The link is gone, and with it what was sent on it. *)
Drop(i) ==
  /\ myState' = [myState EXCEPT ![i] = "DISCONNECTED"]
  /\ clientLink' = [clientLink EXCEPT ![i] = None]
  /\ quiet' = [quiet EXCEPT ![i] = 0]

(* The link's timeout; Kill without a flush drops the link, unless the     *)
(* participant is DISCONNECTING already.                                   *)
Timeout(i) ==
  /\ clientLink[i] # None /\ quiet[i] = 2
  /\ Live(i) \/ MayTalk
  /\ IF Live(i)
     THEN /\ Drop(i)
          /\ numPackets' = numPackets + 1
          /\ received' = [Heard(1) EXCEPT ![i] = <<>>]
          /\ packetCache' = IF Caches THEN packetCache \o Packets(1) ELSE packetCache
     ELSE /\ Broadcast(1)
          /\ UNCHANGED <<myState, clientLink, quiet>>
  /\ announced' = announced \ {i} /\ relayed' = relayed \ {i}
  /\ UNCHANGED <<numPlayers, ready, clock, conns>>
--------------------------------------------------------------------------------
(* The server's own steps: Update *)

CheckForExpiredConnection(i) ==
  /\ myState[i] = "DISCONNECTING"
  /\ Drop(i)
  /\ received' = [received EXCEPT ![i] = <<>>]
  /\ UNCHANGED <<numPlayers, ready, relayed, clock, conns, packetCache, numPackets, announced>>

(* mutant: the game waits for those who never come *)
AwaitedAll == 1..numPlayers

(* those CheckForGameStart looks at: who never came is waited for 30 s *)
Awaited == {i \in 1..numPlayers : ~ (myState[i] = "UNCONNECTED" /\ waited >= 1)}

AllReady ==
  \A i \in Awaited : /\ myState[i] \notin {"UNCONNECTED", "CONNECTED"}
                     /\ IsSpectator(i) \/ ready[i]
AnyReady == Awaited # {}

(* how many packets CreateNewFrame broadcasts *)
NewFrames == IF isPaused THEN 0 ELSE 1

(* StartGame, after the countdown was announced by so many packets said:   *)
(* the start positions and StartPlaying(0), then CreateNewFrame            *)
StartGame(said) ==
  LET keeps == canReconnect \/ AllowSpecJoin
      news  == said + 1 + NewFrames
  IN  /\ gameHasStarted' = TRUE
      /\ accepting' = keeps
      /\ serverFrameNum' = serverFrameNum + NewFrames
      /\ numPackets' = numPackets + news
      /\ received' = Heard(news)
      /\ packetCache' = IF keeps THEN packetCache \o Packets(news) ELSE <<>>

(* CheckForGameStart, by Update or by the host's forcestart; the game      *)
(* starts when the countdown is over                                       *)
CheckForGameStart(forced) ==
  LET begins == ~countdown /\ ((AllReady /\ AnyReady) \/ forced)
      said   == IF begins THEN 1 ELSE 0
  IN  /\ ~gameHasStarted
      /\ countdown \/ begins
      /\ countdown' = TRUE
      /\ \/ StartGame(said)
         \/ /\ begins /\ Broadcast(said)
            /\ UNCHANGED <<gameHasStarted, accepting, serverFrameNum>>
      /\ UNCHANGED <<participants, waited, isPaused, conns, announced>>

CreateNewFrame ==
  /\ gameHasStarted /\ ~PreSimFrame /\ ~isPaused /\ MayTalk
  /\ serverFrameNum' = serverFrameNum + 1
  /\ Broadcast(NewFrames)
  /\ UNCHANGED <<participants, gameHasStarted, accepting, countdown, waited,
                 isPaused, conns, announced>>

(* mutant: nobody is waited for only once the game has started *)
CheckForPlayersInGame ==
  quitServer' = (gameHasStarted' /\ \A i \in Ids : clientLink'[i] = None)

(* The server's last step in every round of its loop: it ends when nobody  *)
(* is connected, once it has waited long enough for somebody to come.      *)
CheckForPlayers ==
  quitServer' = /\ waited' = 2 \/ gameHasStarted'
                /\ \A i \in Ids : clientLink'[i] = None
--------------------------------------------------------------------------------
(* Time *)

(* Nothing is heard from a client for longer; in the second that           *)
(* DISCONNECTING lasts only if it had been silent for most of that time.   *)
FallSilent(i) ==
  /\ clientLink[i] \notin LocalConns \cup {None} /\ quiet[i] < 2
  /\ Live(i) \/ quiet[i] = 1
  /\ quiet' = [quiet EXCEPT ![i] = @ + 1]
  /\ UNCHANGED <<numPlayers, myState, clientLink, ready, relayed, clock, conns, packets,
                 announced>>

Hear(i) ==
  /\ clientLink[i] # None /\ quiet[i] > 0
  /\ quiet' = [quiet EXCEPT ![i] = 0]
  /\ UNCHANGED <<numPlayers, myState, clientLink, ready, relayed, clock, conns, packets,
                 announced>>

Wait ==
  /\ waited < 2 /\ ~gameHasStarted
  /\ waited' = waited + 1
  /\ UNCHANGED <<participants, gameHasStarted, accepting, countdown, isPaused,
                 serverFrameNum, conns, packets, announced>>
--------------------------------------------------------------------------------
ServerStep ==
  \/ \E k \in Conns, reconnect \in BOOLEAN : Connect(k, reconnect)
  \/ \E i \in Ids :
       \/ PlayerName(i) \/ Command(i)
       \/ \E on \in BOOLEAN : Ready(i, on) \/ Pause(i, on)
       \/ Quit(i) \/ KickPlayer(i) \/ Timeout(i)
       \/ CheckForExpiredConnection(i)
       \/ FallSilent(i) \/ Hear(i)
  \/ \E forced \in BOOLEAN : CheckForGameStart(forced)
  \/ CreateNewFrame \/ Wait

Next ==
  /\ ~quitServer
  /\ \/ ServerStep /\ CheckForPlayers /\ UNCHANGED opening
     \/ Initialize

Spec == Init /\ [][Next]_vars

(* The server's loop goes on until it quits: time passes, every round      *)
(* looks at the participants that are leaving and, before the start, at    *)
(* whether the game can start.                                             *)
Fairness ==
  /\ WF_vars(Next /\ Wait)
  /\ \A i \in Ids : WF_vars(Next /\ CheckForExpiredConnection(i))
  /\ WF_vars(Next /\ CheckForGameStart(FALSE))

FairSpec == Spec /\ Fairness
--------------------------------------------------------------------------------
(* Properties. *)

States == {"UNCONNECTED", "CONNECTED", "INGAME", "DISCONNECTING", "DISCONNECTED"}

Items ==
  [kind : {"createnewplayer", "gamedata", "setplayernum", "jointeam", "progress"},
   player : Ids \cup {None}]

(* The types of the server's and the participants' fields. *)
TypeOK ==
  /\ numPlayers \in NumScripted..(NumScripted + MaxGuests)
  /\ myState \in [Ids -> States]
  /\ clientLink \in [Ids -> Conns \cup {None}]
  /\ ready \in [Ids -> BOOLEAN] /\ relayed \subseteq Ids
  /\ quiet \in [Ids -> 0..2]
  /\ canReconnect \in BOOLEAN /\ gameHasStarted \in BOOLEAN /\ accepting \in BOOLEAN
  /\ countdown \in BOOLEAN /\ waited \in 0..2
  /\ isPaused \in BOOLEAN /\ serverFrameNum \in Int /\ quitServer \in BOOLEAN
  /\ packetCache \in Seq(Nat) /\ toTell \in 0..Untold /\ telling \in Nat
  /\ attempt \in [Conns -> {"none", "refused", "accepted", "reconnected"}]
  /\ greeting \in [Conns -> Seq(Items)]
  /\ received \in [Ids -> Seq(Nat)]
  /\ numPackets \in Nat /\ announced \subseteq Ids

(* Everything that was ever broadcast. *)
History == [n \in 1..numPackets |-> n]

(* Whoever takes part has been sent everything that was ever broadcast,    *)
(* once and in the same order as everybody else, whenever it came or came  *)
(* back: the simulations can only agree if their inputs do.                *)
SameHistory == \A i \in Ids : Live(i) => received[i] = History

(* Nothing that is broadcast reaches anybody twice, out of the cache and    *)
(* then from the broadcast itself, not even when clients come while        *)
(* Initialize still broadcasts without the server's lock.  (Its own        *)
(* JoinTeam a player does get twice: as part of the greeting, as it is     *)
(* sent when the player is connected, and out of the cache.)               *)
NothingComesTwice ==
  \A i \in Ids : Live(i) =>
    \A a, b \in 1..Len(received[i]) : a # b => received[i][a] # received[i][b]

(* A client that is told it is in knows what game it is in and who it is,  *)
(* before it hears anything of the game: "after gamedata and playerNum,    *)
(* the player can start loading".                                          *)
AcceptedAreGreeted ==
  \A k \in Conns : attempt[k] = "accepted" =>
    \E i \in Ids, n \in 1..2 :
      /\ n < Len(greeting[k])
      /\ greeting[k][n] = Item("gamedata", None)
      /\ greeting[k][n + 1] = Item("setplayernum", i)
      /\ \A j \in Ids : clientLink[j] = k => j = i

(* A reconnection attempt is an answer to nothing: "never respond to       *)
(* reconnection attempts since it could interfere with the protocol and    *)
(* desync".  A scripted participant's never starts a new connection.       *)
ReconnectsAreNotGreeted ==
  \A k \in Conns : attempt[k] = "reconnected" /\ ConnName[k] # 0 => greeting[k] = <<>>

(* What the broadcasts tell of who is in the game is what the server takes *)
(* for the truth, after every departure, timeout, kick and replaced        *)
(* connection.                                                             *)
PresenceIsAnnounced == announced = {i \in Ids : myState[i] = "INGAME"}

(* A game that everybody has left ends: the server does not go on waiting  *)
(* for players that are gone or never came.                                *)
ServerEnds == <>[](\A i \in Ids : ~Live(i)) => <>quitServer

(* "autostart the game when 30 seconds have passed and everyone who        *)
(* managed to connect is ready"                                            *)
Gathered == {i \in 1..numPlayers : myState[i] # "UNCONNECTED"}
AllGatheredAreReady ==
  /\ \E i \in Gathered : Live(i)
  /\ \A i \in Gathered : myState[i] # "CONNECTED" /\ (IsSpectator(i) \/ ready[i])
StartsWhenReady == <>[]AllGatheredAreReady => <>gameHasStarted
================================================================================
