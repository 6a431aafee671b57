# A TLA+ model of the Recoil engine's network game and its simulation's scaffolding

The engine runs a real-time strategy game in lockstep: every client simulates
the whole game, and the games stay equal only if every client gets the same
inputs in the same order. What makes this work is a small part of the source:
a reliable transport over UDP, a server that accepts, replaces and drops
clients while it broadcasts, a check that the simulations still agree, and the
agreement on who, player or AI, controls which team. The simulation itself is
floating-point arithmetic, but what it hangs on is not: who sees what is kept
in shared, reference-counted and cached instances, and its loops are spread
over a pool of threads. Both must come to the same result on every machine.
This directory holds TLA+ modules of that part, TLC configurations that check
them on small instances, and proofs for every instance that TLAPS checks.

`PROJECT.json` is the index: components, runs, the source lines of every
definition (`map`), mutants of the definitions that each property rejects,
hazards and theorems. All paths below are relative to `src/`.

## The system

| Component | State | Operations | Interacts with |
|---|---|---|---|
| Transport: `rts/System/Net/UDPConnection.cpp`, `UDPListener.cpp`, the client's `rts/Net/Protocol/NetProtocol.cpp` | queues of messages, new, unacknowledged and waiting chunks, resend requests, last chunk received in order | `SendData`, `GetData`, `Update`, `Flush`, `Close`, `ProcessRawPacket`, `ReconnectTo`, `AttemptReconnect` | the network; the listener creates connections and hands over datagrams by address |
| Session: `rts/Net/GameServer.cpp`, `GameParticipant.cpp` | participants with state, link and readiness; packet cache; start, pause and frame counters; `quitServer` | `BindConnection`, `ProcessPacket`, `Broadcast`, `KickPlayer`, `Kill`, `CheckForGameStart`, `StartGame`, `CreateNewFrame`, `Update` | one connection per participant; the constructor runs in another thread than the server's loop |
| Sync checking: `CGameServer::CheckSync` | outstanding frames, a table of answers per participant, last error and last warning | one pass per round of the loop; `NETMSG_SYNCRESPONSE`, `NETMSG_KEYFRAME`, `NETMSG_PAUSE`, `Kill`, `Connected` | clients answer every `NETMSG_NEWFRAME` |
| Teams and skirmish AIs on the server | team leaders and activity, AI slots and their free list, AI links of a participant | `NETMSG_TEAM` actions, `NETMSG_AI_CREATED`, `NETMSG_AI_STATE_CHANGED`, `ResignPlayer` | a second copy of this state in every client (`rts/Net/NetCommands.cpp`) |
| Speed and lag protection | internal and user speed, CPU and ping statistics | `LagProtection`, `UserSpeedChange`, `InternalSpeedChange` | `NETMSG_CPU_USAGE`, frames |
| Client side of the protocol | `CPreGame`, `CGame`, the client's queue | `ClientReadNet`, `UpdateNumQueuedFrames` | the server |
| Loopback connection of the host | two static queues, one lock each | `SendData`, `GetData`, `Peek`, `Close` | main thread and server thread |
| Line of sight: `rts/Sim/Misc/LosHandler.cpp`, one `ILosType` for each kind of sight | instances with reference counts and pending updates, their cache, two queues with delays, one map per ally team | events of units (finished, taken, destroyed ...), `UpdateHeightMapSynced`, `UpdateUnit`, `Update` | units hold instances; `Update` runs in the thread pool, one kind of sight to a thread |
| Thread pool: `rts/System/Threading/ThreadPool.h`, `ThreadPool.cpp` | task groups with counters, a queue per worker, the exit flags | `for_mt`, `for_mt_background`, `DoTask`, `WaitForFinished`, `SetThreadCount` | called all over the simulation and the rendering |
| Demos, autohost, message formats | | | |
| Simulation, rendering, Lua, menus, file system | | | |

What is hard here is not in any one function: datagrams are lost, repeated and
overtake each other while both ends repeat, acknowledge and close; clients
leave, time out, are kicked, come back with a new process or from a new address
while the server is in the second it gives the old connection to flush; the
constructor broadcasts while the server's thread already serves; answers of
clients come late, twice or never while frames are opened and closed. In the
line of sight it is the long sequence of legal events between two updates (let
go, taken again, marked for its changed ground, let go once more), in the pool
the threads that work on other loops while they wait for their own. The
`hazards` list has each of these at its line, with the properties that guard
it, or with the reason why none does.

## Modules

```
ReliableChannel    what a connection promises
     ^ implemented by
UdpConnection  <-  ChunkStream (how messages are cut into chunks and joined)
     ^ EXTENDS: MCUdpConnection (instances),
                UdpConnectionProofs (chunks) <- UdpStreamProofs (messages)

GameSession        ^ MCGameSession, GameSessionProofs (what was heard),
                                    SessionRosterProofs (who is in the game)
SyncCheck          ^ MCSyncCheck, SyncCheckProofs
TeamControl        ^ MCTeamControl, TeamControlProofs

Sight              what a kind of sight promises
     ^ implemented by
LosType            ^ MCLosType, LosTypeProofs

ThreadPool         ^ MCThreadPool, ThreadPoolProofs
```

GameSession takes a connection as the channel that UdpConnection implements,
SyncCheck and TeamControl take from the same result that a client's packets
arrive in order, and TeamControl takes from `SameHistory` that all clients hear
the same; they are not instantiated in one another, because the product of
their state spaces shows nothing that the interfaces do not. LosType takes the
pool's loops as what `LoopsAreComplete` says they are: done when `for_mt` returns.

### UdpConnection and ChunkStream

The two `UDPConnection` objects at the ends of one connection. The variables
have the names of the fields; `net` is the network below; `created`,
`processed`, `numSent` and `taken` are histories that only the properties read.

| Action | Code |
|---|---|
| `SendData`, `GetData` | the functions of these names |
| `Update` | `Update` with the `SendIfNecessary` and `Flush` it makes |
| `Flush(e, TRUE)` | a forced flush |
| `Receive` | `ProcessRawPacket`, from the listener on the server's side: opening, acknowledging, naks, accepting, in-order processing |
| `Close` | `Close` with and without flushing |
| `Unmute` | the server's first answer to a new connection |
| `AttemptReconnect` | the client's packet outside the stream, from a new address |
| `Lose` | the network |

Abstracted: the bytes of a message to its units, checksums of datagrams,
sizes to numbers of chunks, a chunk that is requested twice at once to one
request (`Requested`; the loss mode of `UDPConnection.cpp:900` may do that), and time: whether a timer has run out and whether
the bandwidth average allows one more packet are choices of the action. A
choice is more than the code does, so what holds for every choice holds for
any timing. Where the network duplicates, a datagram stays in `net`.

The limits of the protocol (254-byte chunks, 127 naks, 20 resends) are constants,
so that runs reach them with a handful of chunks. `MaxInFlight` and the list of
messages are the only bounds.

### GameSession

The participants of a `CGameServer`, their connections, and what is broadcast.
A packet is its number in the order of broadcasts: `received[i]` is what was
sent on the link of `i`, `packetCache` the cache, and `greeting[k]` what the
server sent on connection `k` ahead of the cache. What one handler broadcasts
about several things counts as so many packets.

| Action | Code |
|---|---|
| `Connect` | `HandleConnectionAttempts`, `AddLocalClient`, `BindConnection` (`AllowConnect`, `ForceNewLink`: the table of `GetConnectionFlags`; `Reestablish`, `Establish`: its two ends; `Refuse`) |
| `PlayerName`, `Ready`, `Command`, `Pause`, `Quit` | cases of `ProcessPacket` |
| `KickPlayer`, `Timeout`, `CheckForExpiredConnection` | the other ways a participant goes |
| `CheckForGameStart`, `CreateNewFrame`, `CheckForPlayers` | `Update`; the last ends every round |
| `FallSilent`, `Hear`, `Wait` | the clock |
| `SendUnlocked`, `CacheUnlocked` | the two halves of a `Broadcast` that `Initialize` makes outside `gameServerMutex`, after it has started the server's thread |

All other handlers run under the lock and are one action each. A start position
chosen in the game makes its player ready or takes the readiness back (`Ready`).
`AllReady` does not ask whether a player's team is active (`GameServer.cpp:2211`):
teams are not part of this module, and what it waits for is thereby only more.
`RacyStart` says whether clients are served while `Initialize` is at it, and
`RejoinAtOnce` whether a client may come back in the second in which its
participant is `DISCONNECTING`: in the first case it may miss packets, in the
second it is never greeted (see the disagreements below). With both `FALSE` the
session has all the properties below, and that is the assumption of the theorems about it.

### SyncCheck

`CheckSync` with everything that feeds it. The frame loop of the code, which
goes through the outstanding frames in order and lets each report suppress the
next ones, becomes a recursive function (`Reports`); the vote of a dedicated
server (`CorrectChecksum`) becomes a choice that is unique because the checksum
that reaches the highest count first wins. A simulation is its first wrong
frame (`drift`) and which wrong game it is in (`world`). A client over its
bandwidth has its answers processed when they are peeked at and again when they
are taken (`ServerReadNet` with `upTo` below `simulated`).

### TeamControl

Who controls which team, twice: the server's fields (`spectator`, `leader`,
`active`, `skirmishAIs`, `freeSkirmishAIs`, `aiClientLinks`) and, in
`client[c]`, the copy of each client, which lags behind by the packets in
`down[c]` and against which the client checks its user's commands before it
sends them (`up[c]`).

| Action | Code |
|---|---|
| `ServerRead` | `CGameServer::ProcessPacket`: `HandleGiveaway`, `HandleResign`, `HandleTeamDied` (cases of `NETMSG_TEAM`), `HandleAICreated`, `HandleAIState` |
| `SpecPlayer` | the console's command of this name |
| `CreateNewFrame` | a frame in which a team dies, in every client's simulation |
| `ClientRead` | `CGame::ClientReadNet`: `ReadGiveaway`, `ReadResign`, `ReadAICreated` (`AddSkirmishAI`), `ReadAIState` (`DestroySkirmishAI`, `CreateSkirmishAI`, `RemoveSkirmishAI`), `ReadNewFrame` (`CTeam::Died`) |
| `GiveAway`, `Resign` | the quit dialogue, `/spectator` |
| `AIKill`, `AIControl` | `/aikill`, `/aireload` and crashes of an AI; `/aicontrol` |

`INITIALIZING` and `ALIVE` are one state, since the code only ever asks whether
an AI is `RELOADING`. The start is that of a loaded game; nobody leaves, joins
another team or cheats, and there are no Lua AIs. `Controllers` are the players
whom the host has allowed `/aicontrol`; `Host` is `None` if the server is
dedicated, which takes `TEAM_DIED` from every client.

A client may meet a packet that it is not made for. It uses a null pointer if
what it asked for is no longer in `localTeamAIs`, or if the AI is one it does
not have (`Missing`; for the latter `ClientsAreNotSurprised` shows that it does
not happen). It searches a list of team -1 if it is to destroy an AI twice
(`DestroyedTwice`). In both cases it may end there (`ClientEnds`), and the server
goes on as if it still sent nothing; in the second it may also come through, in
which case it sends `DEAD` once more (`Destroyed`). The safety properties hold
either way. `Gifts` says whether `/aikill` may name a team that gets the units;
see the disagreements below.

### LosType and Sight

One `ILosType`. An instance is a record of its fields, and of its places in
`losCache`, `losUpdate` and `delayedTerraQue`, all of which the code asks about
through the fields. The squares a ray cast finds are abstracted to what
determines them: the key for which the instance was made and how often the
ground in its reach had changed when it was cast (`squares`). `losMap` counts,
for each such view, how often the map has it.

| Action | Code |
|---|---|
| `UnitFinished`, `UnitReverseBuilt`, `UnitTaken`, `UnitDestroyed` | the handlers of these names; `UnitTaken` also for `UnitLoaded` of a stunned unit |
| `UpdateHeightMapSynced` | the function of this name, with `CheckOverlap` as the code has it |
| `NewFrame` | the frame counter that both delays are measured by |
| `UpdateUnit` | `UpdateUnit`: `RemoveUnit`, or `CreateInstance` with sharing, reactivation from the cache, `UnrefInstance`, `RefInstance` |
| `BeginUpdate`, `Update` | `CLosHandler::Update`: the loop over the units, then everything else in `ILosType::Update` (expiry, relos, `OptimizeInstanceUpdate`, removing, casting, adding, caching and deletion) in the order of the code |

`Sight` is the promise: a unit looks from somewhere, dies and is seen for
`Linger` more frames, and after a refresh the map has exactly what they look
from. Instances are found by their key, in which the ally team is the instance's;
the code's hash has the unit's (`LosHandler.cpp:240`), which differs for jammers
that all ally teams share (212), where two instances with the same key may
exist side by side. The order within a queue is left open: the cache evicts any of its
instances, so that the properties do not depend on it. `Raycast` and `SightOnly` select the kind of sight.

### ThreadPool

The pool of synchronous workers and the main thread. What a thread does is a
stack of frames, one for each call that has not returned, because a function
may call `for_mt` and its thread, waiting for that, works on whatever its queue
holds.

| Action | Code |
|---|---|
| `ForMt`, `ForMtNested`, `ForMtBackground`, `Enqueue`, `PushTaskGroup`, `Pushed` | `for_mt`, `for_mt_background`: taking a group out of the `TaskPool`, the two halves of `ForTaskGroup::Enqueue`, `PushTaskGroup` to one worker after the other |
| `TakeIndex`, `FunctionReturns`, `NoIndexLeft`, `LeaveBackground` | `ExecuteStep`, `ExecuteLoop`, with the counter of indexes and the one of remaining tasks as separate atomic operations |
| `DoTask`, `Exit` | `DoTask`, `WorkerLoop` |
| `WaitForMtBackground`, `Finished` | `WaitForFinished` |
| `KillThreads`, `SpawnThreads` | `SetThreadCount` in a reload |

The two queues of a worker are one bag: neither orders what different threads
enqueue. A sleeping worker wakes up after 30 ms at the latest, so being asleep
is a step not yet taken. `Torn` says whether a worker may look at a group
between the two halves of `Enqueue`; see below.

## What the runs check

Every property has a mutant in `PROJECT.json`: a change to one definition of
the kind a wrong edit of the code would make, under which TLC finds the property violated.

| Run | Question | Bounds, and why they are enough |
|---|---|---|
| `UdpReordered` | Does a stream arrive whole and in order over a network that loses, repeats and reorders? | two datagrams under way to each end, two messages each way, of which the client's share a chunk and the server's second is spread over two, one chunk to a datagram: enough for an acknowledgement to overtake another, a nak for a chunk that is there, a gap that closes late |
| `UdpClose` | The same with the loss mode, cut-off flushes, closing ends and reconnection attempts | four chunks in one direction and a limit of two repetitions, so that the first, the last and the middle chunks all take their turns; one datagram under way each way, which may come twice |
| `UdpLive` | Does everything come in the end? | two messages one way and one the other, in five chunks of one unit, one datagram under way each way, nobody closes |
| `SessionRejoin` | Do all who take part hear the same, are those who come told what they need, and is what is announced true? | a player with two connections and a spectator with one; nine broadcasts, after which nothing more is provoked: joining, leaving, replacing and coming back before and after the start fit |
| `SessionGuests` | With a guest and the host's own client that may come during `Initialize`: is anything heard twice, does the game start, and does the server end? | one connection of each, two broadcasts, after which nothing more is provoked |
| `SyncDemocracy` | Is every desync noticed, and nothing else? | two clients, three frames, one made in a round, timeouts 0 and 1, every frame a key frame: a frame closes before the slower client answers, one report suppresses the next, one client comes back |
| `TeamsAgree` | Do server and clients agree on the AIs, and is every slot, AI and team taken care of? | two allied players with a team each and a third team of an AI; two slots, so that one is reused at once; two commands and a dying team, whose packets cross each other: enough for kill and reload, kill and create, reload and death of one AI. |
| `LosSight` | Does the map show what the units see, whatever is shared, cached, queued or cancelled on the way? | two units that may share one of two places, four instances, a cache for one, delays of one frame, ground that changes under one place or both: an instance can be let go, cached, evicted, reused and marked in every order |
| `PoolLoops` | Does every loop run each index once and return only then, with nested and background loops at once, and does everything return? | a main thread and two workers, three groups (an outer, a nested, a background loop) of two indexes, the last step short of the end; two calls of the main thread, of which one may be a reload: a worker can wait for its nested loop in the middle of the outer one while the other helps it or the main thread. With two nested waits at once (`Nested = {1, 3}`, `Inner = {g2, g4}`, `Background = {}`, `MaxCalls = 1`; 186 076 states) `CallsReturn` holds too |

Deadlock is checked except in `UdpClose`, where closed ends stop, in the
session runs, where the server quits, in `TeamsAgree`, which ends when the
commands are used up and all packets read, and in the pool runs, which end when
the main thread has made its calls.

The safety properties and what they would catch:

* `IsReliable`: UdpConnection implements `ReliableChannel`: the abstract
  specification as a property, under the mapping of what `SendData` accepted and
  `GetData` returned. `ChunksInOrder`, `AckedWasProcessed`, `WindowContiguous`,
  `ResendsAreUnacked` and `WaitingAheadOfGap` say why it does, one data structure each.
* `SameHistory`: whoever takes part has been sent everything that was ever
  broadcast, once and in order, out of the cache or directly.
  `NothingComesTwice` is what is left of it during `Initialize`.
* `AcceptedAreGreeted`, `ReconnectsAreNotGreeted`: a new client gets the game's
  data and its own number first; a reconnection attempt gets nothing.
* `PresenceIsAnnounced`: the broadcasts and the server agree on who is in the game.
* `DesyncIsNoticed`, `OnlyDriftIsReported`: no desync is missed once a frame is
  closed, none is invented. `NobodyIsWarnedAbout`, `NoAnswerOutlivesItsFrame`,
  `OutstandingIsBounded`: the bookkeeping neither accuses nor grows.
* `SlotsAreAccountedFor`: an AI slot has one owner or is free, once. Requests of
  several clients about an AI that has just died must not free its slot again,
  or free it from the next AI. `AIsAreHeard`: the packets of an AI's host are
  relayed as long as the AI lives. `SameAIs`, `ClientsAreNotSurprised`: a client
  that has read everything has the server's AIs in the server's slots, and
  before that it is never told of an AI it does not have. `ActiveIsControlled`:
  no team stays in play without a leader and controllers.
* `IsSight`: LosType implements `Sight`. `RefsAreHeld`: an instance has as many
  references as units look or have lately died looking through it, so none is
  reused while in use or kept for ever. `MapIsSum`: what is removed from the map
  is what was added, although the ground may have changed in between.
  `RaysAreRenewed`: no view of changed ground is forgotten, in the cache least
  of all. `StatusAsserts`: the assertions of the code on what an instance may be
  queued for at the same time.
* `LoopsAreComplete`: no index is run twice or left out, and none is running
  when `for_mt` has returned, since what the function refers to is gone by then.

### Liveness and fairness

`UdpLive` checks `IsLive`, the fair specification of the channel: what was
accepted is taken. Both ends call `Update` in loops without end, so sending
when a timer has run out is strongly fair (it may be disabled while packets are
under way, as the bound on `net` has it); the application sends and takes
weakly fairly. The network is assumed not to lose the same chunk, or every
report of losses, for ever (strong fairness of receiving each chunk number and
of receiving some report): less would make any protocol fail.

`SessionGuests` checks that the server ends once everybody has gone for good
(`ServerEnds`), and that the game starts when everybody who came is ready
(`StartsWhenReady`). Only the server's own loop is fair: time passes, expired
connections are dropped, `CheckForGameStart` is called. Clients owe nothing.

`TeamsAgree` also checks that an AI whose host has it killed is gone in the end
(`KilledIsGone`): its slot is free at the server and its instance does not run
at the host, although its team may die or it may have been told to reload
meanwhile. It assumes that no client meets a packet it is not made for
(`NobodyFails`): if a request comes while an earlier one is at its host, that is
not so (`DestroyAssert`, see the disagreements). The server's loop and the clients' loops are
weakly fair in reading what there is: both poll their queues without end. Users
owe nothing.

`PoolLoops` checks `CallsReturn`: every call of the main thread returns, nested
loops and reloads included. The threads are weakly fair: the operating system
schedules them, and one that sleeps wakes up in time (`maxSleepTime`,
`ThreadPool.cpp`). The main thread owes no new calls, but goes on with those it made.

## What is proved

For all values of the constants that satisfy the named assumptions
(`UdpAssumption`, `SessionAssumption`, `SyncAssumption`, `TeamAssumption`,
`LosAssumption`, `PoolAssumption`; TLC evaluates them in the runs):

* **UdpConnectionProofs**: `WindowContiguous`, `AckedWasProcessed`,
  `ResendsAreUnacked`, `WaitingAheadOfGap`, `ChunksInOrder`, for any messages,
  sizes and limits and any loss, duplication and reordering. None is inductive
  alone. The invariant adds that every chunk in a queue or in a datagram is one
  that its sender created, with that number and data (`NetGenuine`,
  `WaitingGenuine`), that acknowledgements under way do not exceed what was
  processed, and that the server is silent until the connection is opened
  (otherwise a new connection could be taken for an old one).
* **UdpStreamProofs**: `TypeOK`, and that UdpConnection implements
  ReliableChannel (`ChannelImplemented`, which states `IsReliable`), for any
  messages, any size of chunks and packets, and wherever `Flush` cuts. The invariant
  (`StreamInductive`) is about the units of an end's messages as one stream.
  `SentInOrder`: the data of the chunks it created, then `outgoingData`, are
  consecutive pieces of the stream, and the whole ends where a message does.
  `ReceivedInOrder`: what the peer has taken and what is in its `msgQueue` are
  the first messages, and its `fragmentBuffer` is what the chunks it processed
  hold beyond them. Pieces are joined by their ends only (`Follows`: what the
  next unit of the stream is), so no induction over sequences is
  needed, except for one: that as many messages end in a piece as its units say,
  from the least place at which it would not be so (`EndsCounted`). With
  `ProcessedInOrder` of UdpConnectionProofs a step of `GetData` then is
  `Take` of the channel, one of `SendData` its `Send`, and all others stutter.
* **GameSessionProofs**: `SameHistory`, unless clients come
  during `Initialize` or come back while disconnecting. The invariant adds that
  the cache, as long as it is kept, is the whole history, and that it is kept
  as long as anybody is let in (`OpenKeepsCache`): the flags that keep the cache
  and those that let clients in are different ones, set at different times.
* **SessionRosterProofs**: `TypeOK`, `PresenceIsAnnounced`,
  `ReconnectsAreNotGreeted` and `NothingComesTwice`, without any such exception;
  `AcceptedAreGreeted`, unless a player comes back while disconnecting
  (`~RejoinAtOnce`; with it TLC finds the counterexample given below).
  The invariant (`Roster`) adds that a participant has a link from when it is
  let in to when it is dropped (`Linked`), that nothing was sent on a connection
  nobody has opened (`Untouched`), and that the cache and every link, also one
  that is about to be dropped, hold nothing twice and nothing that was not
  broadcast yet; what `Initialize` is about to cache is not in the cache
  (`CacheOnce`), which keeps the cache and the broadcast itself apart.
* **SyncCheckProofs**: all the safety properties of SyncCheck, for any number of players, timeouts and wrong games, with and without a local
  client. The invariant says that the tables hold what clients computed
  (`AnswersKept`), for exactly the outstanding frames, and that whoever is
  beyond a frame has answered it (`Prompt`); the first gives that answers to
  different frames are never compared, the second that nobody is warned about.
  `TypeOK` needs the type of a recursive function, which report was the last up
  to each frame; a least frame at which it were wrong is impossible.
* **TeamControlProofs**, for any start script, players, teams and slots:
  `TypeOK` and `AIsAreHeard` whatever happens, everything else as long as AIs
  are not given away (`~Gifts`). The invariant of `AIsAreHeard` and
  `SlotsAreAccountedFor` adds the types of the server's state and of every
  packet under way: what the server indexes with a client's number is a slot,
  and, without `Gifts`, what a client gives away is its own team. It says nothing
  of the clients' copies, so it holds for clients that are wrong about the AIs.
  `ActiveIsControlled`, if every player has a team to itself (`OnePlayerEach`):
  with it goes that whoever plays leads its team (`PlayersLead`). Without the
  assumption it is false, as the hazard at `GameServer.cpp:1543` says.
  `SameAIs` and `ClientsAreNotSurprised`: the invariant
  (`CopiesAreSound`) follows a client's copy through its queue, packet by packet:
  the copy with the first n packets applied is what the server had when it sent
  the next one, each packet finds what it needs there, and after the last one
  stands what the server has now. A step of the server adds a packet at the end and
  a step of the client takes one from the front, so both keep it.
* **LosTypeProofs**: every property of LosType, for any units, keys, instances,
  cache size and delays, and that LosType implements Sight (`SightImplemented`).
  The invariant relates four things: the shape of an instance, that is which
  combinations of reference count, update flags, cache and queues occur
  (`Shape`); the reference count and who holds it (`Counted`); that an instance
  that waits to be added is held by a unit this update has already looked at
  (`Looked`), so that between updates none waits and none is added for the dead; and the map and what is in it (`MapIsSum`). The
  refinement needs all of them: `Seen` is what the instances have added, which
  after an update are those that have references, which are those the units
  hold. `RaysAreRenewed` holds if `CheckOverlap` covers what a change of the
  ground reaches (`Covered`), which the code does not ensure; see below.

* **ThreadPoolProofs**: `TypeOK` and `LoopsAreComplete`, for any number of
  workers, groups, loops and nested calls, as long as no worker looks at a group
  that is being written (`~Torn`; without it the property is false, see below).
  `remainingTasks` says nothing about who runs, so the invariant counts it: once
  a group is enqueued, the indexes begun are those of the numbers below `ctr`,
  and `remainingTasks` is the number of those not yet taken or whose function
  some frame runs (`UnderWay`). That a group is not taken out of the `TaskPool`
  while it runs comes from who holds it: exactly one call (`OneOwner`), made by
  the main thread or in the function of an outer loop (`Owners`). A worker that
  has been told to exit leaves `WaitForFinished` early, which is harmless only
  because the main thread then is in no loop (`Held`), so that there are no
  nested calls either.

Each proof module states the invariant as a conjunction of named parts, proves
one lemma per action that the action keeps it, and joins them in the theorem.

Every invariant and both refinements that the passing runs check are theorems,
under the hypotheses given above. Each of these hypotheses excludes something
the code may do and without which a property is false: the next section says
what. (`TypeOK` of ThreadPool is only stated under its hypothesis because it
comes from the same invariant.) Only model-checked is liveness
(`IsLive`, `ServerEnds`, `StartsWhenReady`, `KilledIsGone`, `CallsReturn`):
fairness and `ENABLED` are beyond the prover. Where a proof needs an induction
over data (places in a sequence, frames), it takes the least value at which
the claim fails and refutes it, since the library's induction theorems cannot
be instantiated.

## Where code and comments disagree

Each of these is a run that TLC ends with a counterexample:

* `UdpNakAssert` (`UDPConnection.cpp:564`): the position of a lost chunk in
  `unackedChunks` is computed with the wrong sign once a newer acknowledgement
  has shortened that list. The assertion fails when two packets of the peer
  overtake each other; without assertions the wrong chunk is repeated.
* `LosOverlap` (`LosHandler.cpp:632`): `CheckOverlap` tests a circle against a
  rectangle given by its centre and half its size, but takes the distance to the
  rectangle's corner. A unit near the far edge of a large changed rectangle goes
  on seeing what it saw before.
* `PoolSection` (`ThreadPool.h:149`): the flag that tells a function it runs
  beside others is set once in each worker and cleared, not restored, when a
  nested `for_mt` returns. From then on that worker's functions are told they
  are alone; `IPathFinder::GetPath` (`IPathFinder.cpp:165`) asks.

Others are behaviours of the models that show when a constant or a property is
changed:

* A client that comes back in the second in which its participant flushes is
  taken for one whose connection is continued (`GameServer.cpp:3068`). It gets
  no game data and no number, and as `Kill` has taken the participant's loopback
  link nothing it sends is read any more: `SessionRejoin` with
  `RejoinAtOnce = TRUE` violates `AcceptedAreGreeted`.
* The checksum "that most players agree on" (`GameServer.cpp:722`) is that of
  most of those who have answered so far; with three players the one who drifted
  and answers first has the majority's players reported, and the true report is
  suppressed for a while: `MajorityIsRight` of SyncCheck fails with
  `NumPlayers = 3`, `SyncTimeout = 2`, `KeyInterval = 2`, `MaxFrame = 1`, `MaxReturns = 0`.
* When the units of an AI's team are given to another team, the server frees the
  AI's slot and tells nobody (`GameServer.cpp:1535`). The clients keep the AI,
  and the next AI that is created gets a slot that is taken in every client:
  `TeamsAgree` with `Gifts = TRUE` violates `SameAIs`. If two players have an AI
  each in the same team, the one whose AI is gone may still lead it and give
  away what it no longer has: the server takes the slot from behind the end of
  an empty list, and `SlotsAreAccountedFor` fails
  (`ScriptAIs = << <<1, 3>>, <<2, 3>> >>`, `MaxAIs = 3`).
* `DestroySkirmishAI` asserts that the AI it is to destroy is there
  (`EngineOutHandler.cpp:584`). Of two requests in a row (`/aikill`, `/aireload`)
  both are carried out, since neither the server (`GameServer.cpp:1732`) nor the
  client (`NetCommands.cpp:1354`) looks at the state the AI is in. By the second
  one `Kill` has set the wrapper's team to -1 (`SkirmishAIWrapper.cpp:173`),
  which is used as an index before the assertion fails: `DestroyAssert` as an
  invariant of `TeamsAgree`.
* The slot of an AI that is reloaded is to stay, since it "will be reinitialized
  instantly" (`GameServer.cpp:1737`). If the AI is reloaded again before its end
  has come back, what it reports from the first reload overwrites `RELOADING` at
  the server; the second end then frees the slot and has the clients remove the
  AI: `ReloadedStays` as a property of `TeamsAgree` with `MaxDeaths = 0`. Nothing
  undefined is involved (`NobodyFails` is in its hypothesis), and nobody has the
  AI killed (`NeverDieing`).
* A worker that still has a group in its queue from its last use may look at it
  while `Enqueue` has written the counters but not yet the bounds and the
  function (`ThreadPool.h:676`): with `Torn = TRUE` and two loops of different
  length `LoopsAreComplete` fails. The worker has to stand still between two
  instructions for a whole loop.
* Clients are served before `Initialize` has broadcast the random seed, and one
  bound between the sending and the caching misses it (`GameServer.cpp:265`):
  with `RacyStart` and a second connection `SameHistory` fails.
* A guest that reconnects becomes a second guest (`GameServer.cpp:3018`), a start
  can be announced with nobody connected (2208), `/aicontrol` puts a dying team
  back in play (1693), a client whose AI was announced after another of the same
  team came or went dereferences null (`NetCommands.cpp:1286`), and a team of two
  stays in play when both have left it (`GameServer.cpp:1543`).

## Not modelled, and what comes next

In the order in which it is planned:

1. **TeamControl extended**: `JOIN_TEAM`, players that leave with
   their AIs, several players in a team and the ways the clients' leaders may
   differ from the server's.
2. **Loopback**: the two ends as instances of one module with a lock per queue,
   implementing `ReliableChannel` too.
3. **SpeedControl**: the clamping of speeds and the order of its broadcasts.
4. **Client queue**: the consumption of frames ahead of the server's rate.

Left out for good: demos, the autohost and the message formats (sequential
input and output), the simulation (floating-point, far from finite), rendering,
sound, Lua, menus and the file system (no protocol of their own). Within the
modelled components: bandwidth accounting beyond its choices, chat, map
drawing, passwords and the other commands of the console; which squares a ray
cast finds, and the queries of the line of sight; `parallel`, `parallel_reduce`
and the asynchronous pool.
