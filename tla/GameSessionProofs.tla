--------------------------- MODULE GameSessionProofs ---------------------------
(***************************************************************************)
(* Proofs about GameSession, for every script, every number of connections *)
(* and every bound: that everybody has the same history, as long as nobody *)
(* comes back within the second in which it is DISCONNECTING and           *)
(* Initialize is through before clients are served.                        *)
(***************************************************************************)
EXTENDS GameSession, SequenceTheorems, TLAPS

(* The packet cache misses nothing as long as it is kept. *)
CacheComplete == Caches => packetCache = History

(* A server that still lets clients in after the start keeps the cache. *)
OpenKeepsCache == gameHasStarted /\ accepting => canReconnect \/ AllowSpecJoin

Inductive == TypeOK /\ CacheComplete /\ OpenKeepsCache /\ SameHistory
--------------------------------------------------------------------------------
(* Histories *)

(* The history and the packets that come next make the longer history:     *)
(* nothing is left out and nothing comes twice.                            *)
LEMMA HistoryGrows ==
  ASSUME NEW n \in Nat, NEW m \in Nat
  PROVE  [j \in 1..n |-> j] \o [j \in 1..m |-> n + j] = [j \in 1..(n + m) |-> j]
<1> DEFINE a == [j \in 1..n |-> j]
           b == [j \in 1..m |-> n + j]
           c == [j \in 1..(n + m) |-> j]
<1>1. a \in Seq(Nat) /\ Len(a) = n
  OBVIOUS
<1>2. b \in Seq(Nat) /\ Len(b) = m
  OBVIOUS
<1>3. c \in Seq(Nat) /\ Len(c) = n + m
  OBVIOUS
<1>4. \A j \in 1..n : a[j] = j
  OBVIOUS
<1>5. \A j \in 1..m : b[j] = n + j
  OBVIOUS
<1>6. \A j \in 1..(n + m) : c[j] = j
  OBVIOUS
<1> HIDE DEF a, b, c
<1>7. /\ a \o b \in Seq(Nat) /\ Len(a \o b) = n + m
      /\ \A j \in 1..(n + m) : (a \o b)[j] = IF j <= n THEN a[j] ELSE b[j - n]
  BY <1>1, <1>2, ConcatProperties
<1>8. ASSUME NEW j \in 1..(n + m)
      PROVE  (a \o b)[j] = c[j]
  <2>1. CASE j <= n
    <3>1. j \in 1..n
      BY <2>1
    <3> QED
      BY <2>1, <3>1, <1>7, <1>4, <1>6
  <2>2. CASE ~ (j <= n)
    <3>1. j - n \in 1..m /\ n + (j - n) = j
      BY <2>2
    <3> QED
      BY <2>2, <3>1, <1>7, <1>5, <1>6
  <2> QED
    BY <2>1, <2>2
<1>9. a \o b = c
  BY <1>3, <1>7, <1>8, SeqEqual
<1> QED
  BY <1>9 DEF a, b, c

(* What was the history before a broadcast is the history after it, once   *)
(* the broadcast packets are appended.                                     *)
LEMMA HistoryAfter ==
  ASSUME numPackets \in Nat, NEW m \in Nat, numPackets' = numPackets + m
  PROVE  History \o Packets(m) = History'
BY HistoryGrows DEF History, Packets

(* The packets of a broadcast are a sequence of numbers. *)
LEMMA PacketsType ==
  ASSUME numPackets \in Nat, NEW m \in Nat
  PROVE  Packets(m) \in Seq(Nat)
BY DEF Packets

(* Whoever takes part has the whole history after a broadcast, too. *)
LEMMA HeardIsHistory ==
  ASSUME numPackets \in Nat, SameHistory, NEW m \in Nat, numPackets' = numPackets + m
  PROVE  \A i \in Ids : Live(i) => Heard(m)[i] = History'
BY HistoryAfter DEF SameHistory, Heard

(* What was sent stays a sequence of packets' numbers. *)
LEMMA HeardType ==
  ASSUME numPackets \in Nat, received \in [Ids -> Seq(Nat)], NEW m \in Nat
  PROVE  Heard(m) \in [Ids -> Seq(Nat)]
BY PacketsType DEF Heard

(* The greeting of a participant is a sequence of the items a server sends.*)
LEMMA GreetingType ==
  ASSUME NEW i \in Ids
  PROVE  Greeting(i) \in Seq(Items)
<1> DEFINE guest == IF i > NumScripted THEN <<Item("createnewplayer", i)>> ELSE <<>>
           game == <<Item("gamedata", None), Item("setplayernum", i)>>
           joined == IF IsSpectator(i) THEN <<>> ELSE <<Item("jointeam", i)>>
           frame == IF gameHasStarted THEN <<Item("progress", None)>> ELSE <<>>
<1>1. \A p \in Ids \cup {None} :
        \A kind \in {"createnewplayer", "gamedata", "setplayernum", "jointeam", "progress"} :
          Item(kind, p) \in Items
  BY DEF Items, Item
<1>2. guest \in Seq(Items)
  BY <1>1
<1>3. game \in Seq(Items)
  BY <1>1
<1>4. joined \in Seq(Items)
  BY <1>1
<1>5. frame \in Seq(Items)
  BY <1>1
<1>6. Greeting(i) = guest \o game \o joined \o frame
  BY DEF Greeting
<1> HIDE DEF guest, game, joined, frame
<1>7. guest \o game \in Seq(Items)
  BY <1>2, <1>3, ConcatProperties
<1>8. guest \o game \o joined \in Seq(Items)
  BY <1>7, <1>4, ConcatProperties
<1> QED
  BY <1>8, <1>5, <1>6, ConcatProperties

(* A broadcast keeps the types of the packets, and keeps the cache and     *)
(* everybody who still takes part complete.                                *)
LEMMA BroadcastKeeps ==
  ASSUME Inductive, NEW m \in Nat, Broadcast(m), UNCHANGED <<canReconnect, gameHasStarted>>,
         \A i \in Ids : Live(i)' => Live(i)
  PROVE  /\ numPackets' \in Nat /\ packetCache' \in Seq(Nat)
         /\ received' \in [Ids -> Seq(Nat)]
         /\ CacheComplete' /\ SameHistory'
<1>1. numPackets \in Nat /\ packetCache \in Seq(Nat) /\ received \in [Ids -> Seq(Nat)]
  BY DEF Inductive, TypeOK
<1>2. numPackets' \in Nat
  BY <1>1 DEF Broadcast
<1>3. packetCache' \in Seq(Nat)
  BY <1>1, PacketsType DEF Broadcast
<1>4. received' \in [Ids -> Seq(Nat)]
  BY <1>1, HeardType DEF Broadcast
<1>5. CacheComplete'
  <2>1. Caches' = Caches
    BY DEF Caches
  <2>2. Caches => packetCache' = packetCache \o Packets(m)
    BY DEF Broadcast
  <2>3. History \o Packets(m) = History'
    BY <1>1, HistoryAfter DEF Broadcast
  <2> QED
    BY <2>1, <2>2, <2>3 DEF CacheComplete, Inductive
<1>6. SameHistory'
  <2>1. \A i \in Ids : Live(i) => Heard(m)[i] = History'
    BY <1>1, HeardIsHistory DEF Broadcast, Inductive
  <2>2. \A i \in Ids : Live(i)' => received'[i] = History'
    BY <2>1 DEF Broadcast
  <2> QED
    BY <2>2 DEF SameHistory
<1> QED
  BY <1>2, <1>3, <1>4, <1>5, <1>6
--------------------------------------------------------------------------------
(* The steps.  BOOLEAN is what CheckForPlayers gives quitServer. *)

(* A participant that has loaded the game.                                 *)
LEMMA PlayerNameKeeps ==
  ASSUME Inductive, NEW i \in Ids, PlayerName(i),
         quitServer' \in BOOLEAN, toTell' = toTell, telling' = telling
  PROVE  Inductive'
<1>1. \A p \in Ids : Live(p)' => Live(p)
  BY DEF PlayerName, Live, participants
<1>2. Broadcast(1) /\ UNCHANGED <<canReconnect, gameHasStarted>>
  BY DEF PlayerName, conns, clock
<1>3. /\ numPackets' \in Nat /\ packetCache' \in Seq(Nat)
      /\ received' \in [Ids -> Seq(Nat)] /\ CacheComplete' /\ SameHistory'
  BY <1>1, <1>2, BroadcastKeeps
<1>4. TypeOK'
  BY <1>3 DEF Inductive, TypeOK, States, PlayerName, participants, conns, clock
<1>5. OpenKeepsCache'
  BY DEF Inductive, OpenKeepsCache, PlayerName, conns, clock
<1> QED
  BY <1>3, <1>4, <1>5 DEF Inductive

(* A player that has chosen its start position.                            *)
LEMMA ReadyKeeps ==
  ASSUME Inductive, NEW i \in Ids, NEW on \in BOOLEAN, Ready(i, on),
         quitServer' \in BOOLEAN, toTell' = toTell, telling' = telling
  PROVE  Inductive'
<1>1. \A p \in Ids : Live(p)' => Live(p)
  BY DEF Ready, Live, participants
<1>2. Broadcast(1) /\ UNCHANGED <<canReconnect, gameHasStarted>>
  BY DEF Ready, conns, clock
<1>3. /\ numPackets' \in Nat /\ packetCache' \in Seq(Nat)
      /\ received' \in [Ids -> Seq(Nat)] /\ CacheComplete' /\ SameHistory'
  BY <1>1, <1>2, BroadcastKeeps
<1>4. TypeOK'
  BY <1>3 DEF Inductive, TypeOK, States, Ready, participants, conns, clock
<1>5. OpenKeepsCache'
  BY DEF Inductive, OpenKeepsCache, Ready, conns, clock
<1> QED
  BY <1>3, <1>4, <1>5 DEF Inductive

(* What is only forwarded.                                                 *)
LEMMA CommandKeeps ==
  ASSUME Inductive, NEW i \in Ids, Command(i),
         quitServer' \in BOOLEAN, toTell' = toTell, telling' = telling
  PROVE  Inductive'
<1>1. \A p \in Ids : Live(p)' => Live(p)
  BY DEF Command, Live, participants
<1>2. Broadcast(1) /\ UNCHANGED <<canReconnect, gameHasStarted>>
  BY DEF Command, conns, clock
<1>3. /\ numPackets' \in Nat /\ packetCache' \in Seq(Nat)
      /\ received' \in [Ids -> Seq(Nat)] /\ CacheComplete' /\ SameHistory'
  BY <1>1, <1>2, BroadcastKeeps
<1>4. TypeOK'
  BY <1>3 DEF Inductive, TypeOK, States, Command, participants, conns, clock
<1>5. OpenKeepsCache'
  BY DEF Inductive, OpenKeepsCache, Command, conns, clock
<1> QED
  BY <1>3, <1>4, <1>5 DEF Inductive

(* A pause changes the clock, but nobody's history.                        *)
LEMMA PauseKeeps ==
  ASSUME Inductive, NEW i \in Ids, NEW on \in BOOLEAN, Pause(i, on),
         quitServer' \in BOOLEAN, toTell' = toTell, telling' = telling
  PROVE  Inductive'
<1>1. \A p \in Ids : Live(p)' => Live(p)
  BY DEF Pause, Live, participants
<1>2. Broadcast(1) /\ UNCHANGED <<canReconnect, gameHasStarted>>
  BY DEF Pause, conns, clock
<1>3. /\ numPackets' \in Nat /\ packetCache' \in Seq(Nat)
      /\ received' \in [Ids -> Seq(Nat)] /\ CacheComplete' /\ SameHistory'
  BY <1>1, <1>2, BroadcastKeeps
<1>4. TypeOK'
  BY <1>3 DEF Inductive, TypeOK, States, Pause, participants, conns, clock
<1>5. OpenKeepsCache'
  BY DEF Inductive, OpenKeepsCache, Pause, conns, clock
<1> QED
  BY <1>3, <1>4, <1>5 DEF Inductive

(* Whoever leaves is sent the news of it, and nothing after that: it no    *)
(* longer counts.                                                          *)
LEMMA DepartsKeeps ==
  ASSUME Inductive, NEW i \in Ids, Departs(i),
         quitServer' \in BOOLEAN, toTell' = toTell, telling' = telling
  PROVE  Inductive'
<1>1. \A p \in Ids : Live(p)' => Live(p)
  BY DEF Departs, Live, participants
<1>2. Broadcast(1) /\ UNCHANGED <<canReconnect, gameHasStarted>>
  BY DEF Departs, conns, clock
<1>3. /\ numPackets' \in Nat /\ packetCache' \in Seq(Nat)
      /\ received' \in [Ids -> Seq(Nat)] /\ CacheComplete' /\ SameHistory'
  BY <1>1, <1>2, BroadcastKeeps
<1>4. TypeOK'
  BY <1>3 DEF Inductive, TypeOK, States, Departs, participants, conns, clock
<1>5. OpenKeepsCache'
  BY DEF Inductive, OpenKeepsCache, Departs, conns, clock
<1> QED
  BY <1>3, <1>4, <1>5 DEF Inductive

(* A step that sends nothing and connects nobody. *)
LEMMA SilentKeeps ==
  ASSUME Inductive, packets' = packets, canReconnect' = canReconnect,
         gameHasStarted' = gameHasStarted, accepting' = accepting,
         \A i \in Ids : Live(i)' => Live(i)
  PROVE  CacheComplete' /\ OpenKeepsCache' /\ SameHistory'
<1>1. History' = History /\ Caches' = Caches
  BY DEF History, Caches, packets
<1>2. CacheComplete' /\ OpenKeepsCache'
  BY <1>1 DEF Inductive, CacheComplete, OpenKeepsCache, packets
<1>3. SameHistory'
  BY <1>1 DEF Inductive, SameHistory, packets
<1> QED
  BY <1>2, <1>3

(* A link that times out is dropped with the news of it; a link that is    *)
(* being closed only makes the news come again.                            *)
LEMMA TimeoutKeeps ==
  ASSUME Inductive, NEW i \in Ids, Timeout(i),
         quitServer' \in BOOLEAN, toTell' = toTell, telling' = telling
  PROVE  Inductive'
<1>1. CASE Live(i)
  <2>1. /\ Drop(i) /\ numPackets' = numPackets + 1
        /\ received' = [Heard(1) EXCEPT ![i] = <<>>]
        /\ packetCache' = IF Caches THEN packetCache \o Packets(1) ELSE packetCache
    BY <1>1 DEF Timeout
  <2>2. numPackets \in Nat /\ packetCache \in Seq(Nat) /\ received \in [Ids -> Seq(Nat)]
    BY DEF Inductive, TypeOK
  <2>3. Heard(1) \in [Ids -> Seq(Nat)] /\ Packets(1) \in Seq(Nat)
    BY <2>2, HeardType, PacketsType
  <2>4. /\ numPackets' \in Nat /\ packetCache' \in Seq(Nat)
        /\ received' \in [Ids -> Seq(Nat)]
    BY <2>1, <2>2, <2>3
  <2>5. TypeOK'
    <3>1. /\ myState' \in [Ids -> States] /\ clientLink' \in [Ids -> Conns \cup {None}]
          /\ quiet' \in [Ids -> 0..2]
      BY <2>1 DEF Drop, Inductive, TypeOK, States
    <3>2. /\ UNCHANGED <<numPlayers, ready, clock, conns>>
          /\ announced' \subseteq Ids /\ relayed' \subseteq Ids
      BY DEF Timeout, Inductive, TypeOK
    <3> QED
      BY <2>4, <3>1, <3>2 DEF Inductive, TypeOK, clock, conns
  <2>6. History \o Packets(1) = History'
    BY <2>1, <2>2, HistoryAfter
  <2>7. CacheComplete'
    <3>1. Caches' = Caches
      BY DEF Caches, Timeout, clock, conns
    <3> QED
      BY <3>1, <2>1, <2>6 DEF Inductive, CacheComplete
  <2>8. OpenKeepsCache'
    BY DEF Inductive, OpenKeepsCache, Timeout, clock, conns
  <2>9. SameHistory'
    <3>1. \A p \in Ids : Live(p) => Heard(1)[p] = History'
      BY <2>1, <2>2, HeardIsHistory DEF Inductive
    <3>2. \A p \in Ids : Live(p)' => p # i /\ Live(p)
      BY <2>1 DEF Drop, Live, Inductive, TypeOK
    <3>3. \A p \in Ids \ {i} : received'[p] = Heard(1)[p]
      BY <2>1, <2>3
    <3> QED
      BY <3>1, <3>2, <3>3 DEF SameHistory
  <2> QED
    BY <2>5, <2>7, <2>8, <2>9 DEF Inductive
<1>2. CASE ~Live(i)
  <2>1. Broadcast(1) /\ UNCHANGED <<myState, clientLink, quiet>>
    BY <1>2 DEF Timeout
  <2>2. /\ numPackets' \in Nat /\ packetCache' \in Seq(Nat)
        /\ received' \in [Ids -> Seq(Nat)] /\ CacheComplete' /\ SameHistory'
    <3>1. UNCHANGED <<canReconnect, gameHasStarted>> /\ \A p \in Ids : Live(p)' => Live(p)
      BY <2>1 DEF Timeout, clock, conns, Live
    <3> QED
      BY <2>1, <3>1, BroadcastKeeps
  <2>3. TypeOK'
    BY <2>1, <2>2 DEF Inductive, TypeOK, Timeout, clock, conns
  <2>4. OpenKeepsCache'
    BY DEF Inductive, OpenKeepsCache, Timeout, clock, conns
  <2> QED
    BY <2>2, <2>3, <2>4 DEF Inductive
<1> QED
  BY <1>1, <1>2

(* The end of the second a participant is DISCONNECTING. *)
LEMMA CheckForExpiredConnectionKeeps ==
  ASSUME Inductive, NEW i \in Ids, CheckForExpiredConnection(i),
         quitServer' \in BOOLEAN, toTell' = toTell, telling' = telling
  PROVE  Inductive'
<1>1. TypeOK'
  BY DEF Inductive, TypeOK, States, CheckForExpiredConnection, Drop, clock, conns
<1>2. History' = History /\ Caches' = Caches
  BY DEF History, Caches, CheckForExpiredConnection, clock, conns
<1>3. CacheComplete' /\ OpenKeepsCache'
  BY <1>2 DEF Inductive, CacheComplete, OpenKeepsCache, CheckForExpiredConnection, clock, conns
<1>4. SameHistory'
  <2>1. \A p \in Ids : Live(p)' => p # i /\ Live(p)
    BY DEF CheckForExpiredConnection, Drop, Live, Inductive, TypeOK
  <2>2. \A p \in Ids \ {i} : received'[p] = received[p]
    BY DEF CheckForExpiredConnection, Inductive, TypeOK
  <2> QED
    BY <1>2, <2>1, <2>2 DEF Inductive, SameHistory
<1> QED
  BY <1>1, <1>3, <1>4 DEF Inductive

(* The clock and the links' silence are not part of anybody's history. *)
LEMMA FallSilentKeeps ==
  ASSUME Inductive, NEW i \in Ids, FallSilent(i),
         quitServer' \in BOOLEAN, toTell' = toTell, telling' = telling
  PROVE  Inductive'
<1>1. TypeOK'
  <2>1. quiet' = [quiet EXCEPT ![i] = quiet[i] + 1] /\ quiet[i] < 2
    BY DEF FallSilent
  <2>2. quiet \in [Ids -> 0..2]
    BY DEF Inductive, TypeOK
  <2>3. quiet[i] + 1 \in 0..2
    BY <2>1, <2>2
  <2>4. quiet' \in [Ids -> 0..2]
    BY <2>1, <2>2, <2>3
  <2> QED
    BY <2>4 DEF Inductive, TypeOK, FallSilent, clock, conns, packets
<1>2. CacheComplete' /\ OpenKeepsCache' /\ SameHistory'
  BY SilentKeeps DEF FallSilent, clock, conns, Live
<1> QED
  BY <1>1, <1>2 DEF Inductive

(* ... nor is a link that is heard again, *)
LEMMA HearKeeps ==
  ASSUME Inductive, NEW i \in Ids, Hear(i),
         quitServer' \in BOOLEAN, toTell' = toTell, telling' = telling
  PROVE  Inductive'
<1>1. TypeOK'
  BY DEF Inductive, TypeOK, Hear, clock, conns, packets
<1>2. CacheComplete' /\ OpenKeepsCache' /\ SameHistory'
  BY SilentKeeps DEF Hear, clock, conns, Live
<1> QED
  BY <1>1, <1>2 DEF Inductive

(* ... nor the time since the server's start. *)
LEMMA WaitKeeps ==
  ASSUME Inductive, Wait,
         quitServer' \in BOOLEAN, toTell' = toTell, telling' = telling
  PROVE  Inductive'
<1>1. TypeOK'
  BY DEF Inductive, TypeOK, Wait, participants, conns, packets
<1>2. CacheComplete' /\ OpenKeepsCache' /\ SameHistory'
  BY SilentKeeps DEF Wait, participants, conns, Live
<1> QED
  BY <1>1, <1>2 DEF Inductive

(* A simulation frame is one more packet. *)
LEMMA CreateNewFrameKeeps ==
  ASSUME Inductive, CreateNewFrame,
         quitServer' \in BOOLEAN, toTell' = toTell, telling' = telling
  PROVE  Inductive'
<1>1. /\ Broadcast(NewFrames) /\ NewFrames \in Nat
      /\ UNCHANGED <<canReconnect, gameHasStarted>>
      /\ \A p \in Ids : Live(p)' => Live(p)
  BY DEF CreateNewFrame, NewFrames, participants, conns, Live
<1>2. /\ numPackets' \in Nat /\ packetCache' \in Seq(Nat)
      /\ received' \in [Ids -> Seq(Nat)] /\ CacheComplete' /\ SameHistory'
  BY <1>1, BroadcastKeeps
<1>3. TypeOK'
  BY <1>2 DEF Inductive, TypeOK, CreateNewFrame, participants, conns
<1>4. OpenKeepsCache'
  BY DEF Inductive, OpenKeepsCache, CreateNewFrame, conns
<1> QED
  BY <1>2, <1>3, <1>4 DEF Inductive

(* The start: the news of it go to everybody; a server that will not let   *)
(* anybody in any more gives up the cache and stops accepting.             *)
LEMMA CheckForGameStartKeeps ==
  ASSUME Inductive, NEW forced \in BOOLEAN, CheckForGameStart(forced),
         quitServer' \in BOOLEAN, toTell' = toTell, telling' = telling
  PROVE  Inductive'
<1> DEFINE begins == ~countdown /\ ((AllReady /\ AnyReady) \/ forced)
           said == IF begins THEN 1 ELSE 0
<1>1. said \in Nat
  OBVIOUS
<1>2. /\ ~gameHasStarted /\ countdown' = TRUE
      /\ UNCHANGED <<participants, waited, isPaused, conns, announced>>
      /\ \/ StartGame(said)
         \/ Broadcast(said) /\ UNCHANGED <<gameHasStarted, accepting, serverFrameNum>>
  BY DEF CheckForGameStart
<1> HIDE DEF said, begins
<1>3. numPackets \in Nat /\ packetCache \in Seq(Nat) /\ received \in [Ids -> Seq(Nat)]
  BY DEF Inductive, TypeOK
<1>4. \A p \in Ids : Live(p)' = Live(p)
  BY <1>2 DEF participants, Live
<1>5. CASE StartGame(said)
  <2> DEFINE news == said + 1 + NewFrames
             keeps == canReconnect \/ AllowSpecJoin
  <2>1. /\ gameHasStarted' = TRUE /\ accepting' = keeps
        /\ serverFrameNum' = serverFrameNum + NewFrames
        /\ numPackets' = numPackets + news /\ received' = Heard(news)
        /\ packetCache' = IF keeps THEN packetCache \o Packets(news) ELSE <<>>
    BY <1>5 DEF StartGame
  <2>2. NewFrames \in {0, 1}
    BY DEF NewFrames
  <2>3. news \in Nat
    BY <1>1, <2>2
  <2> HIDE DEF news
  <2>4. /\ Heard(news) \in [Ids -> Seq(Nat)] /\ Packets(news) \in Seq(Nat)
        /\ History \o Packets(news) = History'
        /\ \A p \in Ids : Live(p) => Heard(news)[p] = History'
    BY <1>3, <2>1, <2>3, HeardType, PacketsType, HistoryAfter, HeardIsHistory DEF Inductive
  <2>5. TypeOK'
    <3>1. numPackets' \in Nat
      BY <1>3, <2>1, <2>3
    <3>2. packetCache' \in Seq(Nat) /\ received' \in [Ids -> Seq(Nat)]
      BY <1>3, <2>1, <2>4
    <3>3. serverFrameNum' \in Int
      BY <2>1, <2>2 DEF Inductive, TypeOK
    <3>4. accepting' \in BOOLEAN
      BY <2>1
    <3> QED
      BY <1>2, <2>1, <3>1, <3>2, <3>3, <3>4 DEF Inductive, TypeOK, participants, conns
  <2>6. CacheComplete'
    <3>1. Caches => packetCache = History
      BY DEF Inductive, CacheComplete
    <3>2. Caches /\ (Caches' => keeps)
      BY <1>2, <2>1 DEF Caches, conns
    <3> QED
      BY <2>1, <2>4, <3>1, <3>2 DEF CacheComplete
  <2>7. OpenKeepsCache'
    BY <1>2, <2>1 DEF OpenKeepsCache, conns
  <2>8. SameHistory'
    BY <1>4, <2>1, <2>4 DEF SameHistory
  <2> QED
    BY <2>5, <2>6, <2>7, <2>8 DEF Inductive
<1>6. CASE Broadcast(said) /\ UNCHANGED <<gameHasStarted, accepting, serverFrameNum>>
  <2>1. /\ numPackets' \in Nat /\ packetCache' \in Seq(Nat)
        /\ received' \in [Ids -> Seq(Nat)] /\ CacheComplete' /\ SameHistory'
    <3>1. UNCHANGED <<canReconnect, gameHasStarted>>
      BY <1>2, <1>6 DEF conns
    <3> QED
      BY <3>1, <1>1, <1>4, <1>6, BroadcastKeeps
  <2>2. TypeOK'
    BY <2>1, <1>2, <1>6 DEF Inductive, TypeOK, participants, conns
  <2>3. OpenKeepsCache'
    BY <1>2, <1>6 DEF Inductive, OpenKeepsCache, conns
  <2> QED
    BY <2>1, <2>2, <2>3 DEF Inductive
<1> QED
  BY <1>2, <1>5, <1>6

(* Whoever is let in finds a complete cache. *)
LEMMA CacheWasKept ==
  ASSUME Inductive, NEW k \in Conns, NEW reconnect \in BOOLEAN, MayAttempt(k, reconnect)
  PROVE  Caches /\ packetCache = History
<1>1. Caches
  BY DEF MayAttempt, Caches, Inductive, OpenKeepsCache
<1> QED
  BY <1>1 DEF Inductive, CacheComplete

(* A new connection is sent the cache with the news of itself, everybody   *)
(* else the news.                                                          *)
LEMMA EstablishKeeps ==
  ASSUME Inductive, NEW k \in Conns, NEW i \in Ids, NEW forceNewLink \in BOOLEAN,
         Caches, packetCache = History,
         canReconnect' = CanReconnectWith(k), Establish(i, k, forceNewLink),
         NEW outcome \in {"accepted", "reconnected"},
         attempt' = [attempt EXCEPT ![k] = outcome],
         UNCHANGED clock,
         quitServer' \in BOOLEAN, toTell' = toTell, telling' = telling
  PROVE  Inductive'
<1> DEFINE news == (IF i > numPlayers THEN 1 ELSE 0) + (IF forceNewLink THEN 1 ELSE 0)
                     + (IF IsSpectator(i) THEN 0 ELSE 1)
           cached == packetCache \o Packets(news)
<1>1. news \in Nat
  OBVIOUS
<1>2. CanReconnectWith(k) \/ AllowSpecJoin \/ ~gameHasStarted
  BY DEF Caches, CanReconnectWith
<1>3. /\ numPlayers' = IF i > numPlayers THEN i ELSE numPlayers
      /\ myState' = [myState EXCEPT ![i] = "CONNECTED"]
      /\ clientLink' = [clientLink EXCEPT ![i] = k]
      /\ quiet' = [quiet EXCEPT ![i] = 0]
      /\ numPackets' = numPackets + news
      /\ packetCache' = cached
      /\ received' = [Heard(news) EXCEPT ![i] = cached]
      /\ announced' = IF forceNewLink THEN announced \ {i} ELSE announced
      /\ greeting' = [greeting EXCEPT ![k] = Greeting(i)]
      /\ ready' = ready /\ relayed' = relayed \cup {i}
  BY <1>2 DEF Establish
<1> HIDE DEF news
<1>4. numPackets \in Nat /\ packetCache \in Seq(Nat) /\ received \in [Ids -> Seq(Nat)]
  BY DEF Inductive, TypeOK
<1>5. /\ Heard(news) \in [Ids -> Seq(Nat)] /\ Packets(news) \in Seq(Nat)
      /\ cached = History'
      /\ \A p \in Ids : Live(p) => Heard(news)[p] = History'
  BY <1>1, <1>3, <1>4, HeardType, PacketsType, HistoryAfter, HeardIsHistory DEF Inductive
<1>6. cached \in Seq(Nat)
  BY <1>4, <1>5, ConcatProperties
<1> HIDE DEF cached
<1>7. TypeOK'
  <2>1. numPlayers' \in NumScripted..(NumScripted + MaxGuests)
    BY <1>3, SessionAssumption DEF Inductive, TypeOK, Ids
  <2>2. /\ myState' \in [Ids -> States] /\ clientLink' \in [Ids -> Conns \cup {None}]
        /\ quiet' \in [Ids -> 0..2] /\ ready' \in [Ids -> BOOLEAN]
    BY <1>3 DEF Inductive, TypeOK, States
  <2>3. canReconnect' \in BOOLEAN
    BY DEF CanReconnectWith
  <2>4. packetCache' \in Seq(Nat) /\ received' \in [Ids -> Seq(Nat)] /\ numPackets' \in Nat
    BY <1>1, <1>3, <1>4, <1>5, <1>6
  <2>5. attempt' \in [Conns -> {"none", "refused", "accepted", "reconnected"}]
    BY DEF Inductive, TypeOK
  <2>6. greeting' \in [Conns -> Seq(Items)]
    BY <1>3, GreetingType DEF Inductive, TypeOK
  <2>7. announced' \subseteq Ids /\ relayed' \subseteq Ids
    BY <1>3 DEF Inductive, TypeOK
  <2> QED
    BY <2>1, <2>2, <2>3, <2>4, <2>5, <2>6, <2>7 DEF Inductive, TypeOK, clock
<1>8. CacheComplete'
  BY <1>3, <1>5 DEF CacheComplete
<1>9. OpenKeepsCache'
  BY DEF Inductive, OpenKeepsCache, CanReconnectWith, clock
<1>10. SameHistory'
  <2>1. received'[i] = History'
    BY <1>3, <1>5
  <2>2. \A p \in Ids \ {i} : /\ Live(p)' => Live(p)
                            /\ received'[p] = Heard(news)[p]
    BY <1>3, <1>5 DEF Live, Inductive, TypeOK
  <2> QED
    BY <1>5, <2>1, <2>2 DEF SameHistory
<1> QED
  BY <1>7, <1>8, <1>9, <1>10 DEF Inductive

(* An attempt that sends nothing to the participants and connects nobody   *)
(* who was not: it may only turn canReconnect on.                          *)
LEMMA MerelyAttemptedKeeps ==
  ASSUME Inductive, NEW k \in Conns, Caches,
         canReconnect' = CanReconnectWith(k),
         NEW outcome \in {"refused", "accepted", "reconnected"},
         attempt' = [attempt EXCEPT ![k] = outcome],
         UNCHANGED <<numPlayers, clientLink, ready, relayed, quiet, greeting, packets, announced, clock>>,
         myState' \in [Ids -> States], \A p \in Ids : Live(p)' => Live(p),
         quitServer' \in BOOLEAN, toTell' = toTell, telling' = telling
  PROVE  Inductive'
<1>1. TypeOK'
  <2>1. canReconnect' \in BOOLEAN
    BY DEF CanReconnectWith
  <2>2. attempt' \in [Conns -> {"none", "refused", "accepted", "reconnected"}]
    BY DEF Inductive, TypeOK
  <2> QED
    BY <2>1, <2>2 DEF Inductive, TypeOK, clock, packets
<1>2. History' = History
  BY DEF History, packets
<1>3. CacheComplete'
  BY <1>2 DEF Inductive, CacheComplete, packets
<1>4. OpenKeepsCache'
  BY DEF Inductive, OpenKeepsCache, CanReconnectWith, clock
<1>5. SameHistory'
  BY <1>2 DEF Inductive, SameHistory, packets
<1> QED
  BY <1>1, <1>3, <1>4, <1>5 DEF Inductive

(* An attempt to connect: refused, continued on the open connection, or    *)
(* given a new one.  Here nobody may come back while DISCONNECTING: such a *)
(* participant would be taken for one that got everything.                 *)
LEMMA ConnectKeeps ==
  ASSUME ~RejoinAtOnce, Inductive, NEW k \in Conns, NEW reconnect \in BOOLEAN,
         Connect(k, reconnect),
         quitServer' \in BOOLEAN, toTell' = toTell, telling' = telling
  PROVE  Inductive'
<1> DEFINE i == Wanted(k)
           named == ConnName[k] # 0
           allowed == IF named THEN AllowConnect(i, k, reconnect) ELSE AllowSpecJoin
           forceNewLink == named /\ ForceNewLink(i, reconnect)
           outcome == IF reconnect THEN "reconnected" ELSE "accepted"
<1>1. /\ MayAttempt(k, reconnect) /\ UNCHANGED clock
      /\ canReconnect' = CanReconnectWith(k)
  BY DEF Connect, BindConnection
<1>2. \/ attempt' = [attempt EXCEPT ![k] = "refused"] /\ Refuse
      \/ /\ allowed /\ i \in Ids
         /\ attempt' = [attempt EXCEPT ![k] = outcome]
         /\ IF named /\ clientLink[i] # None /\ ~forceNewLink
            THEN Reestablish(i) ELSE Establish(i, k, forceNewLink)
  BY DEF Connect, BindConnection
<1>3. Caches /\ packetCache = History
  BY <1>1, CacheWasKept
<1>4. CASE attempt' = [attempt EXCEPT ![k] = "refused"] /\ Refuse
  <2>1. myState' \in [Ids -> States] /\ \A p \in Ids : Live(p)' => Live(p)
    BY <1>4 DEF Refuse, participants, Live, Inductive, TypeOK
  <2>2. UNCHANGED <<numPlayers, clientLink, ready, relayed, quiet, greeting, packets, announced, clock>>
    BY <1>1, <1>4 DEF Refuse, participants
  <2> QED
    BY <1>1, <1>3, <1>4, <2>1, <2>2, MerelyAttemptedKeeps
<1>5. CASE /\ allowed /\ i \in Ids
           /\ attempt' = [attempt EXCEPT ![k] = outcome]
           /\ named /\ clientLink[i] # None /\ ~forceNewLink
           /\ Reestablish(i)
  <2>1. myState[i] # "DISCONNECTING"
    <3> SUFFICES ASSUME myState[i] = "DISCONNECTING"
                 PROVE  FALSE
      OBVIOUS
    <3>1. ~reconnect
      BY <1>5 DEF AllowConnect, NotConnected
    <3> QED
      BY <3>1, <1>1, <1>5 DEF MayAttempt
  <2>2. /\ myState' = [myState EXCEPT ![i] =
              IF myState[i] = "DISCONNECTING" THEN "CONNECTED" ELSE myState[i]]
        /\ UNCHANGED <<numPlayers, clientLink, ready, relayed, quiet, greeting, packets, announced>>
    BY <1>5 DEF Reestablish
  <2>3. myState' = myState
    BY <2>1, <2>2, <1>5 DEF Inductive, TypeOK
  <2>4. myState' \in [Ids -> States] /\ \A p \in Ids : Live(p)' => Live(p)
    BY <2>2, <2>3 DEF Live, Inductive, TypeOK
  <2>5. outcome \in {"refused", "accepted", "reconnected"}
    OBVIOUS
  <2>6. UNCHANGED <<numPlayers, clientLink, ready, relayed, quiet, greeting, packets, announced, clock>>
    BY <1>1, <2>2
  <2> HIDE DEF outcome
  <2> QED
    BY <1>1, <1>3, <1>5, <2>4, <2>5, <2>6, MerelyAttemptedKeeps
<1>6. CASE /\ i \in Ids
           /\ attempt' = [attempt EXCEPT ![k] = outcome]
           /\ Establish(i, k, forceNewLink)
  <2>1. outcome \in {"accepted", "reconnected"} /\ forceNewLink \in BOOLEAN
    BY DEF ForceNewLink, NotConnected
  <2> HIDE DEF outcome, i, forceNewLink
  <2> QED
    BY <1>1, <1>3, <1>6, <2>1, EstablishKeeps
<1> QED
  BY <1>2, <1>4, <1>5, <1>6

(* Every step of the server keeps the inductive invariant. *)
LEMMA ServerStepKeeps ==
  ASSUME ~RejoinAtOnce, Inductive, ServerStep, CheckForPlayers, UNCHANGED opening
  PROVE  Inductive'
<1>1. quitServer' \in BOOLEAN /\ toTell' = toTell /\ telling' = telling
  BY DEF CheckForPlayers, opening
<1>2. ASSUME NEW k \in Conns, NEW reconnect \in BOOLEAN, Connect(k, reconnect)
      PROVE  Inductive'
  BY <1>1, <1>2, ConnectKeeps
<1>3. ASSUME NEW i \in Ids, PlayerName(i) \/ Command(i)
      PROVE  Inductive'
  BY <1>1, <1>3, PlayerNameKeeps, CommandKeeps
<1>4. ASSUME NEW i \in Ids, NEW on \in BOOLEAN, Ready(i, on) \/ Pause(i, on)
      PROVE  Inductive'
  BY <1>1, <1>4, ReadyKeeps, PauseKeeps
<1>5. ASSUME NEW i \in Ids, Quit(i) \/ KickPlayer(i)
      PROVE  Inductive'
  <2>1. Departs(i)
    BY <1>5 DEF Quit, KickPlayer
  <2> QED
    BY <1>1, <2>1, DepartsKeeps
<1>6. ASSUME NEW i \in Ids, Timeout(i) \/ CheckForExpiredConnection(i)
      PROVE  Inductive'
  BY <1>1, <1>6, TimeoutKeeps, CheckForExpiredConnectionKeeps
<1>7. ASSUME NEW i \in Ids, FallSilent(i) \/ Hear(i)
      PROVE  Inductive'
  BY <1>1, <1>7, FallSilentKeeps, HearKeeps
<1>8. ASSUME NEW forced \in BOOLEAN, CheckForGameStart(forced)
      PROVE  Inductive'
  BY <1>1, <1>8, CheckForGameStartKeeps
<1>9. ASSUME CreateNewFrame \/ Wait
      PROVE  Inductive'
  BY <1>1, <1>9, CreateNewFrameKeeps, WaitKeeps
<1> QED
  BY <1>2, <1>3, <1>4, <1>5, <1>6, <1>7, <1>8, <1>9 DEF ServerStep

(* Without a race nothing is left for Initialize to broadcast. *)
LEMMA NextKeeps ==
  ASSUME ~RejoinAtOnce, ~RacyStart, Inductive, Next
  PROVE  Inductive'
<1>1. CASE ServerStep /\ CheckForPlayers /\ UNCHANGED opening
  BY <1>1, ServerStepKeeps
<1>2. ~Initialize
  <2>1. toTell \in 0..0
    BY DEF Inductive, TypeOK, Untold
  <2>2. ~(toTell > 0)
    BY <2>1
  <2> QED
    BY <2>2 DEF Initialize, SendUnlocked, CacheUnlocked
<1> QED
  BY <1>1, <1>2 DEF Next

(* A step that changes nothing keeps it, too. *)
LEMMA StutterKeeps ==
  ASSUME Inductive, UNCHANGED vars
  PROVE  Inductive'
<1>1. TypeOK'
  BY DEF Inductive, TypeOK, vars, participants, clock, conns, packets, opening
<1>2. CacheComplete' /\ OpenKeepsCache' /\ SameHistory'
  BY SilentKeeps DEF vars, participants, clock, conns, packets, Live
<1> QED
  BY <1>1, <1>2 DEF Inductive

(* At the start nobody is connected, and what Initialize broadcast is in   *)
(* the cache.                                                              *)
LEMMA InitInductive ==
  ASSUME ~RacyStart, Init
  PROVE  Inductive
<1>1. numPackets = 2 /\ packetCache = [n \in 1..2 |-> n] /\ toTell = 0 /\ telling = 0
  BY DEF Init, Untold
<1>2. packetCache = History
  BY <1>1 DEF History
<1>3. TypeOK
  <2>1. numPlayers \in NumScripted..(NumScripted + MaxGuests)
    BY SessionAssumption DEF Init
  <2>2. received \in [Ids -> Seq(Nat)] /\ greeting \in [Conns -> Seq(Items)]
    BY EmptySeq DEF Init
  <2>3. packetCache \in Seq(Nat) /\ numPackets \in Nat
    BY <1>1
  <2>4. toTell \in 0..Untold /\ telling \in Nat
    BY <1>1 DEF Untold
  <2>5. /\ myState \in [Ids -> States] /\ clientLink \in [Ids -> Conns \cup {None}]
        /\ ready \in [Ids -> BOOLEAN] /\ quiet \in [Ids -> 0..2] /\ relayed \subseteq Ids
        /\ attempt \in [Conns -> {"none", "refused", "accepted", "reconnected"}]
    BY DEF Init, States
  <2>6. /\ canReconnect \in BOOLEAN /\ gameHasStarted \in BOOLEAN /\ accepting \in BOOLEAN
        /\ countdown \in BOOLEAN /\ isPaused \in BOOLEAN /\ quitServer \in BOOLEAN
    BY DEF Init
  <2>7. waited \in 0..2 /\ serverFrameNum \in Int /\ announced \subseteq Ids
    BY DEF Init
  <2> QED
    BY <2>1, <2>2, <2>3, <2>4, <2>5, <2>6, <2>7 DEF TypeOK
<1>4. CacheComplete /\ OpenKeepsCache
  BY <1>2 DEF Init, CacheComplete, OpenKeepsCache
<1>5. SameHistory
  BY DEF Init, SameHistory, Live
<1> QED
  BY <1>3, <1>4, <1>5 DEF Inductive
--------------------------------------------------------------------------------
(* The theorems. *)

(* The inductive invariant holds throughout, unless somebody comes back    *)
(* while it is DISCONNECTING or is served before Initialize is through.    *)
THEOREM SessionInductive == ~RejoinAtOnce /\ ~RacyStart => (Spec => []Inductive)
<1> SUFFICES ASSUME ~RejoinAtOnce, ~RacyStart
             PROVE  Spec => []Inductive
  OBVIOUS
<1>1. Init => Inductive
  BY InitInductive
<1>2. Inductive /\ [Next]_vars => Inductive'
  BY NextKeeps, StutterKeeps
<1> QED
  BY <1>1, <1>2, PTL DEF Spec

(* Everybody who takes part has been sent everything that was ever         *)
(* broadcast, in the same order, whenever it joined or came back: Broadcast *)
(* and BindConnection lose, repeat and swap nothing.                       *)
THEOREM EverybodyHearsTheSame == ~RejoinAtOnce /\ ~RacyStart => (Spec => []SameHistory)
<1> SUFFICES ASSUME ~RejoinAtOnce, ~RacyStart
             PROVE  Spec => []SameHistory
  OBVIOUS
<1>1. Inductive => SameHistory
  BY DEF Inductive
<1>2. Spec => []Inductive
  BY SessionInductive
<1> QED
  BY <1>1, <1>2, PTL
================================================================================
