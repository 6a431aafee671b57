-------------------------- MODULE SessionRosterProofs --------------------------
(***************************************************************************)
(* Proofs about GameSession, for every script, every number of connections *)
(* and every bound, with the races at the start and with players that come *)
(* back at once: the types, that the broadcasts tell who is in the game,   *)
(* that a reconnection attempt is answered with nothing, and that no       *)
(* packet reaches anybody twice.  Without players that come back while     *)
(* they are DISCONNECTING: that who is let in is greeted.                  *)
(***************************************************************************)
EXTENDS GameSessionProofs

(* A participant has a link from the time it is let in to the time it is   *)
(* dropped, also while it is DISCONNECTING.                                *)
Linked ==
  \A i \in Ids : clientLink[i] = None <=> myState[i] \in {"UNCONNECTED", "DISCONNECTED"}

(* Who has not been added to the participants yet has never been here.     *)
GuestsComeInTurn == \A i \in Ids : i > numPlayers => myState[i] = "UNCONNECTED"

(* A connection nobody has opened is nobody's link and was sent nothing.   *)
Untouched ==
  \A k \in Conns : attempt[k] = "none" =>
    greeting[k] = <<>> /\ \A i \in Ids : clientLink[i] # k

(* s has each packet once at most, and only packets from the first n *)
Once(s, n) ==
  /\ \A a \in 1..Len(s) : s[a] \in 1..n
  /\ \A a, b \in 1..Len(s) : a # b => s[a] # s[b]

(* The cache has nothing twice, and not yet what Initialize is telling. *)
CacheOnce ==
  /\ Once(packetCache, numPackets)
  /\ telling # 0 => telling <= numPackets /\ \A a \in 1..Len(packetCache) : packetCache[a] # telling

(* Nobody was sent anything twice on its link, whether it takes part or not. *)
SentOnce == \A i \in Ids : Once(received[i], numPackets)

Presence == Linked /\ GuestsComeInTurn /\ PresenceIsAnnounced
Answers == Untouched /\ ReconnectsAreNotGreeted
Sent == CacheOnce /\ SentOnce

(* The inductive invariant: each part needs the one before it.             *)
Roster == TypeOK /\ Presence /\ Answers /\ Sent
--------------------------------------------------------------------------------
(* Packets *)

(* The next m packets come once after what is there of the first n.        *)
LEMMA OnceGrows ==
  ASSUME numPackets \in Nat, NEW m \in Nat, NEW s \in Seq(Nat), Once(s, numPackets)
  PROVE  Once(s \o Packets(m), numPackets + m)
<1> DEFINE p == Packets(m)
<1>1. p \in Seq(Nat) /\ Len(p) = m /\ \A a \in 1..m : p[a] = numPackets + a
  BY DEF Packets
<1> HIDE DEF p
<1>2. /\ s \o p \in Seq(Nat) /\ Len(s \o p) = Len(s) + m
      /\ \A a \in 1..(Len(s) + m) : (s \o p)[a] = IF a <= Len(s) THEN s[a] ELSE p[a - Len(s)]
  BY <1>1, ConcatProperties
<1>3. Len(s) \in Nat
  OBVIOUS
<1>4. ASSUME NEW a \in 1..Len(s)
      PROVE  (s \o p)[a] = s[a] /\ s[a] \in 1..numPackets
  <2>1. a \in 1..(Len(s) + m) /\ a <= Len(s)
    BY <1>3
  <2> QED
    BY <2>1, <1>2 DEF Once
<1>5. ASSUME NEW a \in 1..(Len(s) + m), ~(a <= Len(s))
      PROVE  (s \o p)[a] = numPackets + (a - Len(s))
  <2>1. a - Len(s) \in 1..m
    BY <1>3, <1>5
  <2> QED
    BY <2>1, <1>1, <1>2, <1>5
<1>6. ASSUME NEW a \in 1..Len(s \o p)
      PROVE  (s \o p)[a] \in 1..(numPackets + m)
  BY <1>2, <1>3, <1>4, <1>5
<1>7. ASSUME NEW a \in 1..Len(s \o p), NEW b \in 1..Len(s \o p), a < b
      PROVE  (s \o p)[a] # (s \o p)[b]
  <2>1. a \in 1..(Len(s) + m) /\ b \in 1..(Len(s) + m)
    BY <1>2
  <2>2. CASE b <= Len(s)
    <3>1. a \in 1..Len(s) /\ b \in 1..Len(s)
      BY <2>1, <2>2, <1>3, <1>7
    <3> QED
      BY <3>1, <1>4, <1>7 DEF Once
  <2>3. CASE a <= Len(s) /\ ~(b <= Len(s))
    <3>1. a \in 1..Len(s)
      BY <2>1, <2>3, <1>3
    <3>2. (s \o p)[a] \in 1..numPackets
      BY <3>1, <1>4
    <3>3. (s \o p)[b] = numPackets + (b - Len(s))
      BY <2>1, <2>3, <1>5
    <3> QED
      BY <3>2, <3>3, <2>1, <2>3, <1>3
  <2>4. CASE ~(a <= Len(s))
    <3>1. ~(b <= Len(s))
      BY <2>1, <2>4, <1>3, <1>7
    <3>2. /\ (s \o p)[a] = numPackets + (a - Len(s))
          /\ (s \o p)[b] = numPackets + (b - Len(s))
      BY <2>1, <2>4, <3>1, <1>5
    <3> QED
      BY <3>2, <2>1, <1>3, <1>7
  <2> QED
    BY <2>2, <2>3, <2>4
<1>8. \A a, b \in 1..Len(s \o p) : a # b => (s \o p)[a] # (s \o p)[b]
  <2> SUFFICES ASSUME NEW a \in 1..Len(s \o p), NEW b \in 1..Len(s \o p), a # b
               PROVE  (s \o p)[a] # (s \o p)[b]
    OBVIOUS
  <2>1. a < b \/ b < a
    BY <1>2, <1>3
  <2> QED
    BY <2>1, <1>7
<1> QED
  BY <1>6, <1>8 DEF Once, p

(* What was sent once is still sent once when more packets are broadcast.  *)
LEMMA OnceStays ==
  ASSUME numPackets \in Nat, NEW m \in Nat, NEW s \in Seq(Nat), Once(s, numPackets)
  PROVE  Once(s, numPackets + m)
BY DEF Once

(* Nothing was sent twice to who was sent nothing.                         *)
LEMMA OnceEmpty ==
  ASSUME NEW n \in Nat
  PROVE  Once(<<>>, n)
BY DEF Once

(* The packets that come next are not the one Initialize is telling.       *)
LEMMA TellingIsNotNext ==
  ASSUME TypeOK, CacheOnce, NEW m \in Nat, telling # 0
  PROVE  \A a \in 1..Len(packetCache \o Packets(m)) :
           (packetCache \o Packets(m))[a] # telling
<1>0. numPackets \in Nat /\ packetCache \in Seq(Nat) /\ telling \in Nat
  BY DEF TypeOK
<1> PICK s \in Seq(Nat) : s = packetCache
  BY <1>0
<1> DEFINE p == Packets(m)
<1>1. p \in Seq(Nat) /\ Len(p) = m /\ \A a \in 1..m : p[a] = numPackets + a
  BY <1>0 DEF Packets
<1> HIDE DEF p
<1>2. /\ s \o p \in Seq(Nat) /\ Len(s \o p) = Len(s) + m
      /\ \A a \in 1..(Len(s) + m) : (s \o p)[a] = IF a <= Len(s) THEN s[a] ELSE p[a - Len(s)]
  BY <1>0, <1>1, ConcatProperties
<1>3. Len(s) \in Nat
  OBVIOUS
<1>4. telling <= numPackets /\ \A a \in 1..Len(s) : s[a] # telling
  BY DEF CacheOnce
<1>5. ASSUME NEW a \in 1..Len(s \o p)
      PROVE  (s \o p)[a] # telling
  <2>1. CASE a <= Len(s)
    <3>1. a \in 1..Len(s) /\ a \in 1..(Len(s) + m)
      BY <2>1, <1>2, <1>3
    <3> QED
      BY <3>1, <2>1, <1>2, <1>4
  <2>2. CASE ~(a <= Len(s))
    <3>1. a - Len(s) \in 1..m /\ a \in 1..(Len(s) + m)
      BY <2>2, <1>2, <1>3
    <3>2. (s \o p)[a] = numPackets + (a - Len(s))
      BY <3>1, <2>2, <1>1, <1>2
    <3> QED
      BY <3>1, <3>2, <1>0, <1>4
  <2> QED
    BY <2>1, <2>2
<1> QED
  BY <1>5 DEF p

(* After a broadcast everybody was sent it once.                           *)
LEMMA HeardOnce ==
  ASSUME TypeOK, SentOnce, NEW m \in Nat
  PROVE  \A i \in Ids : Once(Heard(m)[i], numPackets + m)
<1>1. numPackets \in Nat /\ received \in [Ids -> Seq(Nat)]
  BY DEF TypeOK
<1> TAKE i \in Ids
<1>2. received[i] \in Seq(Nat) /\ Once(received[i], numPackets)
  BY <1>1 DEF SentOnce
<1>3. /\ Once(received[i] \o Packets(m), numPackets + m)
      /\ Once(received[i], numPackets + m)
  BY <1>1, <1>2, OnceGrows, OnceStays
<1>4. Heard(m)[i] = IF Live(i) THEN received[i] \o Packets(m) ELSE received[i]
  BY DEF Heard
<1> QED
  BY <1>3, <1>4

(* Whatever is done with the cache, it has everything once: it grows with  *)
(* the broadcast, stays as it is or is given up.                           *)
LEMMA CacheStaysOnce ==
  ASSUME TypeOK, CacheOnce, NEW m \in Nat, numPackets' = numPackets + m, telling' = telling,
         packetCache' \in {packetCache \o Packets(m), packetCache, <<>>}
  PROVE  CacheOnce' /\ packetCache' \in Seq(Nat) /\ numPackets' \in Nat
<1>1. numPackets \in Nat /\ packetCache \in Seq(Nat) /\ telling \in Nat
      /\ Once(packetCache, numPackets)
  BY DEF TypeOK, CacheOnce
<1>2. telling # 0 => telling' <= numPackets'
  BY <1>1 DEF CacheOnce
<1>3. CASE packetCache' = packetCache \o Packets(m)
  <2>1. Once(packetCache', numPackets')
    BY <1>1, <1>3, OnceGrows
  <2>2. telling # 0 => \A a \in 1..Len(packetCache') : packetCache'[a] # telling
    BY <1>3, TellingIsNotNext
  <2>3. packetCache' \in Seq(Nat)
    BY <1>1, <1>3, PacketsType, ConcatProperties
  <2> QED
    BY <1>1, <1>2, <2>1, <2>2, <2>3 DEF CacheOnce
<1>4. CASE packetCache' = packetCache
  <2>1. Once(packetCache', numPackets')
    BY <1>1, <1>4, OnceStays
  <2> QED
    BY <1>1, <1>2, <1>4, <2>1 DEF CacheOnce
<1>5. CASE packetCache' = <<>>
  <2>1. Once(packetCache', numPackets') /\ packetCache' \in Seq(Nat)
    BY <1>1, <1>5, OnceEmpty, EmptySeq
  <2> QED
    BY <1>1, <1>2, <1>5, <2>1 DEF CacheOnce
<1> QED
  BY <1>3, <1>4, <1>5

(* A broadcast keeps the types of the packets and sends everything once.   *)
LEMMA BroadcastOnce ==
  ASSUME TypeOK, Sent, NEW m \in Nat, Broadcast(m), telling' = telling
  PROVE  /\ numPackets' \in Nat /\ packetCache' \in Seq(Nat)
         /\ received' \in [Ids -> Seq(Nat)]
         /\ Sent'
<1>1. /\ numPackets' = numPackets + m /\ received' = Heard(m)
      /\ packetCache' \in {packetCache \o Packets(m), packetCache, <<>>}
  BY DEF Broadcast
<1>2. CacheOnce' /\ packetCache' \in Seq(Nat) /\ numPackets' \in Nat
  BY <1>1, CacheStaysOnce DEF Sent
<1>3. received' \in [Ids -> Seq(Nat)]
  BY <1>1, HeardType DEF TypeOK
<1>4. SentOnce'
  <2>1. \A i \in Ids : Once(Heard(m)[i], numPackets + m)
    BY HeardOnce DEF Sent
  <2> QED
    BY <1>1, <2>1 DEF SentOnce
<1> QED
  BY <1>2, <1>3, <1>4 DEF Sent
--------------------------------------------------------------------------------
(* What a step leaves alone *)

(* Who is in the game stays announced when nothing of it changes.          *)
LEMMA PresenceStays ==
  ASSUME Presence, UNCHANGED <<numPlayers, myState, clientLink, announced>>
  PROVE  Presence'
BY DEF Presence, Linked, GuestsComeInTurn, PresenceIsAnnounced

(* Answers change with new connections only: a link that goes takes none   *)
(* of them away.                                                           *)
LEMMA AnswersStay ==
  ASSUME Answers, UNCHANGED <<attempt, greeting>>,
         \A i \in Ids : clientLink'[i] \in {clientLink[i], None}
  PROVE  Answers'
<1>1. Untouched'
  <2> SUFFICES ASSUME NEW k \in Conns, attempt'[k] = "none"
               PROVE  greeting'[k] = <<>> /\ \A i \in Ids : clientLink'[i] # k
    BY DEF Untouched
  <2>1. greeting[k] = <<>> /\ \A i \in Ids : clientLink[i] # k
    BY DEF Answers, Untouched
  <2>2. k # None
    BY SessionAssumption DEF Conns, None
  <2> QED
    BY <2>1, <2>2
<1>2. ReconnectsAreNotGreeted'
  BY DEF Answers, ReconnectsAreNotGreeted
<1> QED
  BY <1>1, <1>2 DEF Answers

(* Nothing is sent: nothing is sent twice.                                 *)
LEMMA SentStays ==
  ASSUME Sent, UNCHANGED <<packets, telling>>
  PROVE  Sent'
BY DEF Sent, CacheOnce, SentOnce, Once, packets
--------------------------------------------------------------------------------
(* The steps.  BOOLEAN is what CheckForPlayers gives quitServer. *)

(* The news that i is in the game is sent in the step it is taken for true. *)
LEMMA PlayerNameStays ==
  ASSUME Roster, NEW i \in Ids, PlayerName(i),
         quitServer' \in BOOLEAN, toTell' = toTell, telling' = telling
  PROVE  Roster'
<1>1. /\ numPackets' \in Nat /\ packetCache' \in Seq(Nat)
      /\ received' \in [Ids -> Seq(Nat)] /\ Sent'
  BY BroadcastOnce DEF Roster, PlayerName
<1>2. TypeOK'
  BY <1>1 DEF Roster, TypeOK, States, PlayerName, participants, conns, clock
<1>3. Presence'
  <2>1. /\ myState' = [myState EXCEPT ![i] = "INGAME"] /\ announced' = announced \cup {i}
        /\ UNCHANGED <<numPlayers, clientLink>> /\ myState[i] = "CONNECTED"
    BY DEF PlayerName
  <2>2. myState \in [Ids -> States]
    BY DEF Roster, TypeOK
  <2>3. Linked' /\ GuestsComeInTurn'
    BY <2>1, <2>2 DEF Roster, Presence, Linked, GuestsComeInTurn
  <2>4. PresenceIsAnnounced'
    BY <2>1, <2>2 DEF Roster, Presence, PresenceIsAnnounced
  <2> QED
    BY <2>3, <2>4 DEF Presence
<1>4. Answers'
  BY AnswersStay DEF Roster, PlayerName, participants, conns
<1> QED
  BY <1>1, <1>2, <1>3, <1>4 DEF Roster

(* A player that has chosen its start position.                            *)
LEMMA ReadyStays ==
  ASSUME Roster, NEW i \in Ids, NEW on \in BOOLEAN, Ready(i, on),
         quitServer' \in BOOLEAN, toTell' = toTell, telling' = telling
  PROVE  Roster'
<1>1. /\ numPackets' \in Nat /\ packetCache' \in Seq(Nat)
      /\ received' \in [Ids -> Seq(Nat)] /\ Sent'
  BY BroadcastOnce DEF Roster, Ready
<1>2. TypeOK'
  BY <1>1 DEF Roster, TypeOK, States, Ready, participants, conns, clock
<1>3. Presence'
  BY PresenceStays DEF Roster, Ready, participants
<1>4. Answers'
  BY AnswersStay DEF Roster, Ready, participants, conns
<1> QED
  BY <1>1, <1>2, <1>3, <1>4 DEF Roster

(* What is only forwarded.                                                 *)
LEMMA CommandStays ==
  ASSUME Roster, NEW i \in Ids, Command(i),
         quitServer' \in BOOLEAN, toTell' = toTell, telling' = telling
  PROVE  Roster'
<1>1. /\ numPackets' \in Nat /\ packetCache' \in Seq(Nat)
      /\ received' \in [Ids -> Seq(Nat)] /\ Sent'
  BY BroadcastOnce DEF Roster, Command
<1>2. TypeOK'
  BY <1>1 DEF Roster, TypeOK, States, Command, participants, conns, clock
<1>3. Presence'
  BY PresenceStays DEF Roster, Command, participants
<1>4. Answers'
  BY AnswersStay DEF Roster, Command, participants, conns
<1> QED
  BY <1>1, <1>2, <1>3, <1>4 DEF Roster

(* A pause changes the clock, and nothing of who is there.                 *)
LEMMA PauseStays ==
  ASSUME Roster, NEW i \in Ids, NEW on \in BOOLEAN, Pause(i, on),
         quitServer' \in BOOLEAN, toTell' = toTell, telling' = telling
  PROVE  Roster'
<1>1. /\ numPackets' \in Nat /\ packetCache' \in Seq(Nat)
      /\ received' \in [Ids -> Seq(Nat)] /\ Sent'
  BY BroadcastOnce DEF Roster, Pause
<1>2. TypeOK'
  BY <1>1 DEF Roster, TypeOK, States, Pause, participants, conns, clock
<1>3. Presence'
  BY PresenceStays DEF Roster, Pause, participants
<1>4. Answers'
  BY AnswersStay DEF Roster, Pause, participants, conns
<1> QED
  BY <1>1, <1>2, <1>3, <1>4 DEF Roster

(* Whoever leaves is announced to have left; its link stays for a second.  *)
LEMMA DepartsStays ==
  ASSUME Roster, NEW i \in Ids, Live(i), Departs(i),
         quitServer' \in BOOLEAN, toTell' = toTell, telling' = telling
  PROVE  Roster'
<1>1. /\ numPackets' \in Nat /\ packetCache' \in Seq(Nat)
      /\ received' \in [Ids -> Seq(Nat)] /\ Sent'
  BY BroadcastOnce DEF Roster, Departs
<1>2. TypeOK'
  BY <1>1 DEF Roster, TypeOK, States, Departs, participants, conns, clock
<1>3. Presence'
  <2>1. /\ myState' = [myState EXCEPT ![i] = "DISCONNECTING"] /\ announced' = announced \ {i}
        /\ UNCHANGED <<numPlayers, clientLink>> /\ Live(i)
    BY DEF Departs
  <2>2. myState \in [Ids -> States]
    BY DEF Roster, TypeOK
  <2>3. Linked' /\ GuestsComeInTurn'
    BY <2>1, <2>2 DEF Roster, Presence, Linked, GuestsComeInTurn, Live
  <2>4. PresenceIsAnnounced'
    BY <2>1, <2>2 DEF Roster, Presence, PresenceIsAnnounced
  <2> QED
    BY <2>3, <2>4 DEF Presence
<1>4. Answers'
  BY AnswersStay DEF Roster, Departs, participants, conns
<1> QED
  BY <1>1, <1>2, <1>3, <1>4 DEF Roster

(* A participant whose link times out is announced to be gone: it loses the *)
(* link, unless it is DISCONNECTING and was announced to have left before.  *)
LEMMA TimeoutStays ==
  ASSUME Roster, NEW i \in Ids, Timeout(i),
         quitServer' \in BOOLEAN, toTell' = toTell, telling' = telling
  PROVE  Roster'
<1> USE DEF Roster
<1>1. /\ UNCHANGED <<numPlayers, ready, clock, conns>> /\ clientLink[i] # None
      /\ announced' = announced \ {i} /\ relayed' = relayed \ {i}
  BY DEF Timeout
<1>2. CASE Live(i)
  <2>1. /\ Drop(i) /\ numPackets' = numPackets + 1
        /\ received' = [Heard(1) EXCEPT ![i] = <<>>]
        /\ packetCache' \in {packetCache \o Packets(1), packetCache, <<>>}
    BY <1>2 DEF Timeout
  <2>2. CacheOnce' /\ packetCache' \in Seq(Nat) /\ numPackets' \in Nat
    BY <2>1, CacheStaysOnce DEF Sent
  <2>3. Heard(1) \in [Ids -> Seq(Nat)] /\ \A p \in Ids : Once(Heard(1)[p], numPackets + 1)
    BY HeardType, HeardOnce DEF Sent, TypeOK
  <2>4. received' \in [Ids -> Seq(Nat)]
    BY <2>1, <2>3, EmptySeq
  <2>5. SentOnce'
    <3>1. Once(<<>>, numPackets')
      BY <2>2, OnceEmpty
    <3>2. \A p \in Ids : received'[p] = IF p = i THEN <<>> ELSE Heard(1)[p]
      BY <2>1, <2>3
    <3> QED
      BY <2>1, <2>3, <3>1, <3>2 DEF SentOnce
  <2>6. /\ myState' = [myState EXCEPT ![i] = "DISCONNECTED"]
        /\ clientLink' = [clientLink EXCEPT ![i] = None] /\ quiet' = [quiet EXCEPT ![i] = 0]
        /\ myState \in [Ids -> States] /\ clientLink \in [Ids -> Conns \cup {None}]
        /\ quiet \in [Ids -> 0..2]
    BY <2>1 DEF Drop, TypeOK
  <2>7. TypeOK'
    <3>1. /\ myState' \in [Ids -> States] /\ clientLink' \in [Ids -> Conns \cup {None}]
          /\ quiet' \in [Ids -> 0..2] /\ announced' \subseteq Ids /\ relayed' \subseteq Ids
      BY <1>1, <2>6 DEF States, TypeOK
    <3> QED
      BY <1>1, <2>2, <2>4, <3>1 DEF TypeOK, clock, conns
  <2>8. Linked' /\ GuestsComeInTurn'
    BY <1>1, <2>6 DEF Presence, Linked, GuestsComeInTurn
  <2>9. PresenceIsAnnounced'
    BY <1>1, <2>6 DEF Presence, PresenceIsAnnounced
  <2>10. Answers'
    <3>1. \A p \in Ids : clientLink'[p] \in {clientLink[p], None}
      BY <2>6
    <3> QED
      BY <1>1, <3>1, AnswersStay DEF conns
  <2> QED
    BY <2>2, <2>5, <2>7, <2>8, <2>9, <2>10 DEF Presence, Sent
<1>3. CASE ~Live(i)
  <2>1. Broadcast(1) /\ UNCHANGED <<myState, clientLink, quiet>>
    BY <1>3 DEF Timeout
  <2>2. /\ numPackets' \in Nat /\ packetCache' \in Seq(Nat)
        /\ received' \in [Ids -> Seq(Nat)] /\ Sent'
    BY <2>1, BroadcastOnce
  <2>3. TypeOK'
    BY <1>1, <2>1, <2>2 DEF TypeOK, clock, conns
  <2>4. announced' = announced
    <3>1. myState[i] = "DISCONNECTING"
      BY <1>1, <1>3 DEF Live
    <3>2. i \notin announced
      BY <3>1 DEF Presence, PresenceIsAnnounced
    <3> QED
      BY <1>1, <3>2
  <2>5. Presence'
    BY <1>1, <2>1, <2>4, PresenceStays
  <2>6. Answers'
    BY <1>1, <2>1, AnswersStay DEF conns
  <2> QED
    BY <2>2, <2>3, <2>5, <2>6
<1> QED
  BY <1>2, <1>3

(* At the end of its second a participant that left loses its link, and    *)
(* nothing more has to be announced.                                       *)
LEMMA CheckForExpiredConnectionStays ==
  ASSUME Roster, NEW i \in Ids, CheckForExpiredConnection(i),
         quitServer' \in BOOLEAN, toTell' = toTell, telling' = telling
  PROVE  Roster'
<1> USE DEF Roster
<1>1. /\ myState' = [myState EXCEPT ![i] = "DISCONNECTED"]
      /\ clientLink' = [clientLink EXCEPT ![i] = None] /\ quiet' = [quiet EXCEPT ![i] = 0]
      /\ received' = [received EXCEPT ![i] = <<>>] /\ myState[i] = "DISCONNECTING"
      /\ UNCHANGED <<numPlayers, ready, relayed, clock, conns, packetCache, numPackets, announced>>
  BY DEF CheckForExpiredConnection, Drop
<1>2. /\ myState \in [Ids -> States] /\ clientLink \in [Ids -> Conns \cup {None}]
      /\ quiet \in [Ids -> 0..2] /\ received \in [Ids -> Seq(Nat)] /\ numPackets \in Nat
  BY DEF TypeOK
<1>3. TypeOK'
  <2>1. /\ myState' \in [Ids -> States] /\ clientLink' \in [Ids -> Conns \cup {None}]
        /\ quiet' \in [Ids -> 0..2] /\ received' \in [Ids -> Seq(Nat)]
    BY <1>1, <1>2 DEF States
  <2> QED
    BY <1>1, <2>1 DEF TypeOK, clock, conns
<1>4. Presence'
  <2>1. Linked' /\ GuestsComeInTurn'
    BY <1>1, <1>2 DEF Presence, Linked, GuestsComeInTurn
  <2>2. PresenceIsAnnounced'
    BY <1>1, <1>2 DEF Presence, PresenceIsAnnounced
  <2> QED
    BY <2>1, <2>2 DEF Presence
<1>5. Answers'
  <2>1. \A p \in Ids : clientLink'[p] \in {clientLink[p], None}
    BY <1>1, <1>2
  <2> QED
    BY <1>1, <2>1, AnswersStay DEF conns
<1>6. Sent'
  <2>1. CacheOnce'
    BY <1>1 DEF Sent, CacheOnce, Once
  <2>2. SentOnce'
    <3>1. Once(<<>>, numPackets)
      BY <1>2, OnceEmpty
    <3>2. \A p \in Ids : received'[p] = IF p = i THEN <<>> ELSE received[p]
      BY <1>1, <1>2
    <3>3. \A p \in Ids : Once(received'[p], numPackets)
      BY <3>1, <3>2 DEF Sent, SentOnce
    <3> QED
      BY <1>1, <3>3 DEF SentOnce
  <2> QED
    BY <2>1, <2>2 DEF Sent
<1> QED
  BY <1>3, <1>4, <1>5, <1>6

(* A link that is silent for longer, or is heard again, is still the link. *)
LEMMA QuietStays ==
  ASSUME Roster, NEW i \in Ids, FallSilent(i) \/ Hear(i),
         quitServer' \in BOOLEAN, toTell' = toTell, telling' = telling
  PROVE  Roster'
<1>1. /\ UNCHANGED <<numPlayers, myState, clientLink, ready, relayed, clock, conns, packets,
                      announced>>
      /\ \/ quiet' = [quiet EXCEPT ![i] = quiet[i] + 1] /\ quiet[i] < 2
         \/ quiet' = [quiet EXCEPT ![i] = 0]
  BY DEF FallSilent, Hear
<1>2. quiet' \in [Ids -> 0..2]
  <2>1. quiet \in [Ids -> 0..2]
    BY DEF Roster, TypeOK
  <2>2. quiet[i] < 2 => quiet[i] + 1 \in 0..2
    BY <2>1
  <2> QED
    BY <1>1, <2>1, <2>2
<1>3. TypeOK'
  BY <1>1, <1>2 DEF Roster, TypeOK, clock, conns, packets
<1>4. Presence' /\ Answers' /\ Sent'
  BY <1>1, PresenceStays, AnswersStay, SentStays DEF Roster, conns
<1> QED
  BY <1>3, <1>4 DEF Roster

(* Time goes by for nobody in particular.                                  *)
LEMMA WaitStays ==
  ASSUME Roster, Wait,
         quitServer' \in BOOLEAN, toTell' = toTell, telling' = telling
  PROVE  Roster'
<1>1. TypeOK'
  BY DEF Roster, TypeOK, Wait, participants, conns, packets
<1>2. Presence' /\ Answers' /\ Sent'
  BY PresenceStays, AnswersStay, SentStays DEF Roster, Wait, participants, conns
<1> QED
  BY <1>1, <1>2 DEF Roster

(* A simulation frame is one more packet.                                  *)
LEMMA CreateNewFrameStays ==
  ASSUME Roster, CreateNewFrame,
         quitServer' \in BOOLEAN, toTell' = toTell, telling' = telling
  PROVE  Roster'
<1>1. NewFrames \in {0, 1}
  BY DEF NewFrames
<1>2. /\ numPackets' \in Nat /\ packetCache' \in Seq(Nat)
      /\ received' \in [Ids -> Seq(Nat)] /\ Sent'
  BY <1>1, BroadcastOnce DEF Roster, CreateNewFrame
<1>3. TypeOK'
  BY <1>2 DEF Roster, TypeOK, CreateNewFrame, participants, conns
<1>4. Presence' /\ Answers'
  BY PresenceStays, AnswersStay DEF Roster, CreateNewFrame, participants, conns
<1> QED
  BY <1>2, <1>3, <1>4 DEF Roster

(* The start of the game connects and disconnects nobody; the cache grows  *)
(* with the news of it or is given up.                                     *)
LEMMA CheckForGameStartStays ==
  ASSUME Roster, NEW forced \in BOOLEAN, CheckForGameStart(forced),
         quitServer' \in BOOLEAN, toTell' = toTell, telling' = telling
  PROVE  Roster'
<1> DEFINE begins == ~countdown /\ ((AllReady /\ AnyReady) \/ forced)
           said == IF begins THEN 1 ELSE 0
<1>1. said \in Nat
  OBVIOUS
<1>2. /\ countdown' = TRUE
      /\ UNCHANGED <<participants, waited, isPaused, conns, announced>>
      /\ \/ StartGame(said)
         \/ Broadcast(said) /\ UNCHANGED <<gameHasStarted, accepting, serverFrameNum>>
  BY DEF CheckForGameStart
<1> HIDE DEF said, begins
<1>3. Presence' /\ Answers'
  BY <1>2, PresenceStays, AnswersStay DEF Roster, participants, conns
<1>4. CASE StartGame(said)
  <2> DEFINE news == said + 1 + NewFrames
             keeps == canReconnect \/ AllowSpecJoin
  <2>1. /\ gameHasStarted' = TRUE /\ accepting' = keeps
        /\ serverFrameNum' = serverFrameNum + NewFrames
        /\ numPackets' = numPackets + news /\ received' = Heard(news)
        /\ packetCache' \in {packetCache \o Packets(news), packetCache, <<>>}
    BY <1>4 DEF StartGame
  <2>2. NewFrames \in {0, 1}
    BY DEF NewFrames
  <2>3. news \in Nat
    BY <1>1, <2>2
  <2>4. accepting' \in BOOLEAN /\ serverFrameNum' \in Int
    BY <2>1, <2>2 DEF Roster, TypeOK
  <2> HIDE DEF news, keeps
  <2>5. CacheOnce' /\ packetCache' \in Seq(Nat) /\ numPackets' \in Nat
    BY <2>1, <2>3, CacheStaysOnce DEF Roster, Sent
  <2>6. received' \in [Ids -> Seq(Nat)]
    BY <2>1, <2>3, HeardType DEF Roster, TypeOK
  <2>7. SentOnce'
    <3>1. \A p \in Ids : Once(Heard(news)[p], numPackets + news)
      BY <2>3, HeardOnce DEF Roster, Sent
    <3> QED
      BY <2>1, <3>1 DEF SentOnce
  <2>8. TypeOK'
    BY <1>2, <2>1, <2>4, <2>5, <2>6 DEF Roster, TypeOK, participants, conns
  <2> QED
    BY <1>3, <2>5, <2>7, <2>8 DEF Roster, Sent
<1>5. CASE Broadcast(said) /\ UNCHANGED <<gameHasStarted, accepting, serverFrameNum>>
  <2>1. /\ numPackets' \in Nat /\ packetCache' \in Seq(Nat)
        /\ received' \in [Ids -> Seq(Nat)] /\ Sent'
    BY <1>1, <1>5, BroadcastOnce DEF Roster
  <2>2. TypeOK'
    BY <1>2, <1>5, <2>1 DEF Roster, TypeOK, participants, conns
  <2> QED
    BY <1>3, <2>1, <2>2 DEF Roster
<1> QED
  BY <1>2, <1>4, <1>5

(* Initialize sends a packet before it puts it into the cache: in between  *)
(* it is in the histories of those who take part, and not in the cache.    *)
LEMMA InitializeStays ==
  ASSUME Roster, Initialize
  PROVE  Roster'
<1> USE DEF Roster
<1>1. UNCHANGED <<participants, clock, conns, announced, quitServer>>
  BY DEF Initialize
<1>2. Presence' /\ Answers'
  BY <1>1, PresenceStays, AnswersStay DEF participants, conns
<1>3. /\ numPackets \in Nat /\ packetCache \in Seq(Nat) /\ telling \in Nat
      /\ received \in [Ids -> Seq(Nat)] /\ toTell \in 0..Untold /\ Untold \in Nat
  BY DEF TypeOK, Untold
<1>4. CASE SendUnlocked
  <2>1. /\ telling' = numPackets + 1 /\ numPackets' = numPackets + 1
        /\ received' = Heard(1) /\ UNCHANGED <<toTell, packetCache>>
    BY <1>4 DEF SendUnlocked
  <2>2. received' \in [Ids -> Seq(Nat)] /\ SentOnce'
    BY <1>3, <2>1, HeardType, HeardOnce DEF Sent, SentOnce
  <2>3. CacheOnce'
    <3>1. Once(packetCache, numPackets + 1)
      BY <1>3, OnceStays DEF Sent, CacheOnce
    <3>2. \A a \in 1..Len(packetCache) : packetCache[a] # numPackets + 1
      BY <1>3 DEF Sent, CacheOnce, Once
    <3> QED
      BY <1>3, <2>1, <3>1, <3>2 DEF CacheOnce
  <2>4. TypeOK'
    BY <1>1, <1>3, <2>1, <2>2 DEF TypeOK, participants, clock, conns
  <2> QED
    BY <1>2, <2>2, <2>3, <2>4 DEF Sent
<1>5. CASE CacheUnlocked
  <2>1. /\ packetCache' \in {Append(packetCache, telling), packetCache}
        /\ toTell > 0 /\ toTell' = toTell - 1 /\ telling' = 0 /\ telling # 0
        /\ UNCHANGED <<received, numPackets>>
    BY <1>5 DEF CacheUnlocked
  <2>2. toTell' \in 0..Untold
    BY <1>3, <2>1
  <2>3. packetCache' \in Seq(Nat)
    BY <1>3, <2>1
  <2>4. Once(packetCache', numPackets)
    <3>1. /\ Once(packetCache, numPackets) /\ telling \in 1..numPackets
          /\ \A a \in 1..Len(packetCache) : packetCache[a] # telling
      BY <1>3, <2>1 DEF Sent, CacheOnce
    <3>2. CASE packetCache' = Append(packetCache, telling)
      <4>1. /\ Len(packetCache') = Len(packetCache) + 1 /\ Len(packetCache) \in Nat
            /\ \A a \in 1..Len(packetCache) : packetCache'[a] = packetCache[a]
            /\ packetCache'[Len(packetCache) + 1] = telling
        BY <1>3, <3>2
      <4> QED
        BY <3>1, <4>1 DEF Once
    <3> QED
      BY <2>1, <3>1, <3>2
  <2>5. Sent'
    BY <2>1, <2>4 DEF Sent, CacheOnce, SentOnce, Once
  <2>6. TypeOK'
    BY <1>1, <2>1, <2>2, <2>3 DEF TypeOK, participants, clock, conns
  <2> QED
    BY <1>2, <2>5, <2>6
<1> QED
  BY <1>4, <1>5 DEF Initialize

(* Whoever is given a new link was not in the game, or was announced to    *)
(* have left; the connection was nobody's before.                          *)
LEMMA EstablishStays ==
  ASSUME Roster, NEW k \in Conns, NEW i \in Ids, NEW forceNewLink \in BOOLEAN,
         clientLink[i] = None \/ forceNewLink,
         canReconnect' = CanReconnectWith(k), Establish(i, k, forceNewLink),
         NEW outcome \in {"accepted", "reconnected"},
         outcome = "reconnected" => ConnName[k] = 0,
         attempt' = [attempt EXCEPT ![k] = outcome],
         UNCHANGED clock,
         quitServer' \in BOOLEAN, toTell' = toTell, telling' = telling
  PROVE  Roster'
<1> USE DEF Roster
<1> DEFINE news == (IF i > numPlayers THEN 1 ELSE 0) + (IF forceNewLink THEN 1 ELSE 0)
                     + (IF IsSpectator(i) THEN 0 ELSE 1)
           keeps == CanReconnectWith(k) \/ AllowSpecJoin \/ ~gameHasStarted
           cached == IF keeps THEN packetCache \o Packets(news) ELSE packetCache
<1>1. news \in Nat
  OBVIOUS
<1>2. /\ numPlayers' = IF i > numPlayers THEN i ELSE numPlayers
      /\ myState' = [myState EXCEPT ![i] = "CONNECTED"]
      /\ clientLink' = [clientLink EXCEPT ![i] = k]
      /\ quiet' = [quiet EXCEPT ![i] = 0]
      /\ numPackets' = numPackets + news
      /\ packetCache' = cached
      /\ received' = [Heard(news) EXCEPT ![i] = cached]
      /\ announced' = IF forceNewLink THEN announced \ {i} ELSE announced
      /\ greeting' = [greeting EXCEPT ![k] = Greeting(i)]
      /\ ready' = ready /\ relayed' = relayed \cup {i}
  BY DEF Establish
<1>3. packetCache' \in {packetCache \o Packets(news), packetCache, <<>>}
  BY <1>2
<1> HIDE DEF news, cached
<1>4. CacheOnce' /\ packetCache' \in Seq(Nat) /\ numPackets' \in Nat
  BY <1>1, <1>2, <1>3, CacheStaysOnce DEF Sent
<1>5. Heard(news) \in [Ids -> Seq(Nat)] /\ \A p \in Ids : Once(Heard(news)[p], numPackets + news)
  BY <1>1, HeardType, HeardOnce DEF Sent, TypeOK
<1>6. \A p \in Ids : received'[p] = IF p = i THEN packetCache' ELSE Heard(news)[p]
  BY <1>2, <1>5
<1>7. SentOnce'
  BY <1>2, <1>4, <1>5, <1>6 DEF SentOnce, CacheOnce
<1>8. TypeOK'
  <2>1. numPlayers' \in NumScripted..(NumScripted + MaxGuests)
    BY <1>2, SessionAssumption DEF TypeOK, Ids
  <2>2. /\ myState' \in [Ids -> States] /\ clientLink' \in [Ids -> Conns \cup {None}]
        /\ quiet' \in [Ids -> 0..2] /\ ready' \in [Ids -> BOOLEAN]
    BY <1>2 DEF TypeOK, States
  <2>3. canReconnect' \in BOOLEAN
    BY DEF CanReconnectWith, TypeOK
  <2>4. received' \in [Ids -> Seq(Nat)]
    BY <1>2, <1>4, <1>5
  <2>5. attempt' \in [Conns -> {"none", "refused", "accepted", "reconnected"}]
    BY DEF TypeOK
  <2>6. greeting' \in [Conns -> Seq(Items)]
    BY <1>2, GreetingType DEF TypeOK
  <2>7. announced' \subseteq Ids /\ relayed' \subseteq Ids
    BY <1>2 DEF TypeOK
  <2> QED
    BY <1>4, <2>1, <2>2, <2>3, <2>4, <2>5, <2>6, <2>7 DEF TypeOK, clock
<1>9. Presence'
  <2>1. /\ myState \in [Ids -> States] /\ clientLink \in [Ids -> Conns \cup {None}]
        /\ numPlayers \in Int /\ k # None
    BY SessionAssumption DEF TypeOK, Conns, None
  <2>2. Linked'
    BY <1>2, <2>1 DEF Presence, Linked
  <2>3. GuestsComeInTurn'
    BY <1>2, <2>1 DEF Presence, GuestsComeInTurn, Ids
  <2>4. announced' = announced \ {i}
    <3>1. clientLink[i] = None => myState[i] # "INGAME"
      BY DEF Presence, Linked
    <3> QED
      BY <1>2, <3>1 DEF Presence, PresenceIsAnnounced
  <2>5. PresenceIsAnnounced'
    BY <1>2, <2>1, <2>4 DEF Presence, PresenceIsAnnounced
  <2> QED
    BY <2>2, <2>3, <2>5 DEF Presence
<1>10. Answers'
  <2>1. /\ attempt \in [Conns -> {"none", "refused", "accepted", "reconnected"}]
        /\ greeting \in [Conns -> Seq(Items)] /\ clientLink \in [Ids -> Conns \cup {None}]
    BY DEF TypeOK
  <2>2. Untouched'
    BY <1>2, <2>1 DEF Answers, Untouched
  <2>3. ReconnectsAreNotGreeted'
    BY <1>2, <2>1 DEF Answers, ReconnectsAreNotGreeted
  <2> QED
    BY <2>2, <2>3 DEF Answers
<1> QED
  BY <1>4, <1>7, <1>8, <1>9, <1>10 DEF Sent

(* An attempt that is refused, or continues an open connection: at most a  *)
(* participant that was DISCONNECTING is CONNECTED again.                  *)
LEMMA MerelyAttemptedStays ==
  ASSUME Roster, NEW k \in Conns, attempt[k] = "none",
         canReconnect' = CanReconnectWith(k),
         NEW outcome \in {"refused", "accepted", "reconnected"},
         attempt' = [attempt EXCEPT ![k] = outcome],
         UNCHANGED <<numPlayers, clientLink, ready, relayed, quiet, greeting, packets, announced, clock>>,
         myState' \in [Ids -> States],
         \A p \in Ids : \/ myState'[p] = myState[p]
                        \/ myState[p] = "DISCONNECTING" /\ myState'[p] = "CONNECTED",
         quitServer' \in BOOLEAN, toTell' = toTell, telling' = telling
  PROVE  Roster'
<1> USE DEF Roster
<1>1. TypeOK'
  <2>1. canReconnect' \in BOOLEAN
    BY DEF CanReconnectWith, TypeOK
  <2>2. attempt' \in [Conns -> {"none", "refused", "accepted", "reconnected"}]
    BY DEF TypeOK
  <2> QED
    BY <2>1, <2>2 DEF TypeOK, clock, packets
<1>2. Presence'
  <2>1. Linked' /\ GuestsComeInTurn'
    BY DEF Presence, Linked, GuestsComeInTurn
  <2>2. PresenceIsAnnounced'
    BY DEF Presence, PresenceIsAnnounced
  <2> QED
    BY <2>1, <2>2 DEF Presence
<1>3. Answers'
  <2>1. attempt \in [Conns -> {"none", "refused", "accepted", "reconnected"}]
    BY DEF TypeOK
  <2>2. Untouched'
    BY <2>1 DEF Answers, Untouched
  <2>3. ReconnectsAreNotGreeted'
    BY <2>1 DEF Answers, Untouched, ReconnectsAreNotGreeted
  <2> QED
    BY <2>2, <2>3 DEF Answers
<1>4. Sent'
  BY SentStays
<1> QED
  BY <1>1, <1>2, <1>3, <1>4

(* What an attempt to connect comes to: it is refused; or it continues the *)
(* link of a participant that is named and has one, and that is not to be  *)
(* given a new one; or it makes a new link.  A reconnection attempt under  *)
(* a known name never makes one.                                           *)
LEMMA ConnectOutcomes ==
  ASSUME NEW k \in Conns, NEW reconnect \in BOOLEAN, Connect(k, reconnect)
  PROVE  \/ attempt' = [attempt EXCEPT ![k] = "refused"] /\ Refuse
         \/ /\ attempt' = [attempt EXCEPT ![k] = IF reconnect THEN "reconnected" ELSE "accepted"]
            /\ Wanted(k) \in Ids /\ Reestablish(Wanted(k))
            /\ reconnect \/ (ConnName[k] # 0 /\ myState[Wanted(k)] = "DISCONNECTING")
         \/ /\ attempt' = [attempt EXCEPT ![k] = IF reconnect THEN "reconnected" ELSE "accepted"]
            /\ Wanted(k) \in Ids
            /\ \E forceNewLink \in BOOLEAN :
                 /\ Establish(Wanted(k), k, forceNewLink)
                 /\ ConnName[k] = 0 \/ clientLink[Wanted(k)] = None \/ forceNewLink
                 /\ reconnect => ConnName[k] = 0
<1> DEFINE i == Wanted(k)
           named == ConnName[k] # 0
           allowed == IF named THEN AllowConnect(i, k, reconnect) ELSE AllowSpecJoin
           forceNewLink == named /\ ForceNewLink(i, reconnect)
           outcome == IF reconnect THEN "reconnected" ELSE "accepted"
<1>1. \/ attempt' = [attempt EXCEPT ![k] = "refused"] /\ Refuse
      \/ /\ allowed /\ i \in Ids
         /\ attempt' = [attempt EXCEPT ![k] = outcome]
         /\ IF named /\ clientLink[i] # None /\ ~forceNewLink
            THEN Reestablish(i) ELSE Establish(i, k, forceNewLink)
  BY DEF Connect, BindConnection
<1>2. forceNewLink \in BOOLEAN
  BY DEF ForceNewLink, NotConnected
<1>3. named /\ allowed /\ clientLink[i] # None /\ ~forceNewLink =>
        reconnect \/ myState[i] = "DISCONNECTING"
  BY DEF ForceNewLink, NotConnected
<1>4. named /\ allowed /\ (clientLink[i] = None \/ forceNewLink) => ~reconnect
  BY DEF AllowConnect, ForceNewLink, NotConnected
<1> HIDE DEF i, outcome, forceNewLink, allowed
<1>5. \/ attempt' = [attempt EXCEPT ![k] = "refused"] /\ Refuse
      \/ /\ attempt' = [attempt EXCEPT ![k] = outcome] /\ i \in Ids /\ Reestablish(i)
         /\ reconnect \/ (named /\ myState[i] = "DISCONNECTING")
      \/ /\ attempt' = [attempt EXCEPT ![k] = outcome] /\ i \in Ids
         /\ Establish(i, k, forceNewLink)
         /\ ~named \/ clientLink[i] = None \/ forceNewLink
         /\ reconnect => ~named
  BY <1>1, <1>3, <1>4
<1> QED
  BY <1>2, <1>5 DEF i, outcome

(* An attempt to connect keeps the inductive invariant.                    *)
LEMMA ConnectStays ==
  ASSUME Roster, NEW k \in Conns, NEW reconnect \in BOOLEAN, Connect(k, reconnect),
         quitServer' \in BOOLEAN, toTell' = toTell, telling' = telling
  PROVE  Roster'
<1> DEFINE i == Wanted(k)
<1>1. /\ attempt[k] = "none" /\ UNCHANGED clock
      /\ canReconnect' = CanReconnectWith(k)
  BY DEF Connect, BindConnection, MayAttempt
<1>2. PICK outcome \in {"accepted", "reconnected"} :
        /\ outcome = IF reconnect THEN "reconnected" ELSE "accepted"
        /\ outcome = "reconnected" => reconnect
  OBVIOUS
<1>3. CASE attempt' = [attempt EXCEPT ![k] = "refused"] /\ Refuse
  <2>1. myState' \in [Ids -> States] /\ \A p \in Ids : myState'[p] = myState[p]
    BY <1>3 DEF Refuse, participants, Roster, TypeOK
  <2>2. UNCHANGED <<numPlayers, clientLink, ready, relayed, quiet, greeting, packets, announced, clock>>
    BY <1>1, <1>3 DEF Refuse, participants
  <2> QED
    BY <1>1, <1>3, <2>1, <2>2, MerelyAttemptedStays
<1>4. CASE attempt' = [attempt EXCEPT ![k] = outcome] /\ i \in Ids /\ Reestablish(i)
  <2>1. /\ myState' = [myState EXCEPT ![i] =
              IF myState[i] = "DISCONNECTING" THEN "CONNECTED" ELSE myState[i]]
        /\ UNCHANGED <<numPlayers, clientLink, ready, relayed, quiet, greeting, packets, announced>>
    BY <1>4 DEF Reestablish
  <2>2. myState \in [Ids -> States]
    BY DEF Roster, TypeOK
  <2>3. /\ myState' \in [Ids -> States]
        /\ \A p \in Ids : \/ myState'[p] = myState[p]
                          \/ myState[p] = "DISCONNECTING" /\ myState'[p] = "CONNECTED"
    BY <1>4, <2>1, <2>2 DEF States
  <2>4. UNCHANGED <<numPlayers, clientLink, ready, relayed, quiet, greeting, packets, announced, clock>>
    BY <1>1, <2>1
  <2> QED
    BY <1>1, <1>4, <2>3, <2>4, MerelyAttemptedStays
<1>5. ASSUME attempt' = [attempt EXCEPT ![k] = outcome], i \in Ids, NEW forceNewLink \in BOOLEAN,
             Establish(i, k, forceNewLink),
             ConnName[k] = 0 \/ clientLink[i] = None \/ forceNewLink,
             reconnect => ConnName[k] = 0
      PROVE  Roster'
  <2>1. ConnName[k] = 0 => clientLink[i] = None
    <3>1. ConnName[k] = 0 => i > numPlayers
      BY DEF Wanted, Roster, TypeOK
    <3> QED
      BY <1>5, <3>1 DEF Roster, Presence, Linked, GuestsComeInTurn
  <2> HIDE DEF i
  <2> QED
    BY <1>1, <1>2, <1>5, <2>1, EstablishStays
<1> QED
  BY <1>2, <1>3, <1>4, <1>5, ConnectOutcomes

(* Every step keeps the inductive invariant.                               *)
LEMMA NextStays ==
  ASSUME Roster, Next
  PROVE  Roster'
<1> SUFFICES ASSUME ServerStep, CheckForPlayers, UNCHANGED opening
             PROVE  Roster'
  BY InitializeStays DEF Next
<1>1. quitServer' \in BOOLEAN /\ toTell' = toTell /\ telling' = telling
  BY DEF CheckForPlayers, opening
<1>2. ASSUME NEW k \in Conns, NEW reconnect \in BOOLEAN, Connect(k, reconnect)
      PROVE  Roster'
  BY <1>1, <1>2, ConnectStays
<1>3. ASSUME NEW i \in Ids, PlayerName(i) \/ Command(i)
      PROVE  Roster'
  BY <1>1, <1>3, PlayerNameStays, CommandStays
<1>4. ASSUME NEW i \in Ids, NEW on \in BOOLEAN, Ready(i, on) \/ Pause(i, on)
      PROVE  Roster'
  BY <1>1, <1>4, ReadyStays, PauseStays
<1>5. ASSUME NEW i \in Ids, Quit(i) \/ KickPlayer(i)
      PROVE  Roster'
  <2>1. Live(i) /\ Departs(i)
    BY <1>5 DEF Quit, KickPlayer, Speaks
  <2> QED
    BY <1>1, <2>1, DepartsStays
<1>6. ASSUME NEW i \in Ids, Timeout(i) \/ CheckForExpiredConnection(i)
      PROVE  Roster'
  BY <1>1, <1>6, TimeoutStays, CheckForExpiredConnectionStays
<1>7. ASSUME NEW i \in Ids, FallSilent(i) \/ Hear(i)
      PROVE  Roster'
  BY <1>1, <1>7, QuietStays
<1>8. ASSUME NEW forced \in BOOLEAN, CheckForGameStart(forced)
      PROVE  Roster'
  BY <1>1, <1>8, CheckForGameStartStays
<1>9. ASSUME CreateNewFrame \/ Wait
      PROVE  Roster'
  BY <1>1, <1>9, CreateNewFrameStays, WaitStays
<1> QED
  BY <1>2, <1>3, <1>4, <1>5, <1>6, <1>7, <1>8, <1>9 DEF ServerStep

(* At the start nobody is connected, and the cache has what Initialize has *)
(* broadcast by then, if anything.                                         *)
LEMMA InitRoster ==
  ASSUME Init
  PROVE  Roster
<1>1. /\ numPackets = 2 - Untold /\ packetCache = [n \in 1..(2 - Untold) |-> n]
      /\ toTell = Untold /\ telling = 0 /\ Untold \in {0, 2}
  BY DEF Init, Untold
<1>2. PICK n \in {0, 2} : n = 2 - Untold
  BY <1>1
<1>3. packetCache \in Seq(Nat) /\ Len(packetCache) = n /\ \A a \in 1..n : packetCache[a] = a
  BY <1>1, <1>2
<1>4. TypeOK
  <2>1. numPlayers \in NumScripted..(NumScripted + MaxGuests)
    BY SessionAssumption DEF Init
  <2>2. received \in [Ids -> Seq(Nat)] /\ greeting \in [Conns -> Seq(Items)]
    BY EmptySeq DEF Init
  <2>3. numPackets \in Nat /\ toTell \in 0..Untold /\ telling \in Nat
    BY <1>1
  <2>4. /\ myState \in [Ids -> States] /\ clientLink \in [Ids -> Conns \cup {None}]
        /\ ready \in [Ids -> BOOLEAN] /\ quiet \in [Ids -> 0..2] /\ relayed \subseteq Ids
        /\ attempt \in [Conns -> {"none", "refused", "accepted", "reconnected"}]
    BY DEF Init, States
  <2>5. /\ canReconnect \in BOOLEAN /\ gameHasStarted \in BOOLEAN /\ accepting \in BOOLEAN
        /\ countdown \in BOOLEAN /\ isPaused \in BOOLEAN /\ quitServer \in BOOLEAN
    BY DEF Init
  <2>6. waited \in 0..2 /\ serverFrameNum \in Int /\ announced \subseteq Ids
    BY DEF Init
  <2> QED
    BY <1>3, <2>1, <2>2, <2>3, <2>4, <2>5, <2>6 DEF TypeOK
<1>5. Presence
  BY DEF Init, Presence, Linked, GuestsComeInTurn, PresenceIsAnnounced
<1>6. Answers
  BY SessionAssumption DEF Init, Answers, Untouched, ReconnectsAreNotGreeted, Conns, None
<1>7. Sent
  <2>1. Once(packetCache, numPackets)
    BY <1>1, <1>2, <1>3 DEF Once
  <2>2. \A i \in Ids : Once(received[i], numPackets)
    BY <1>1, OnceEmpty DEF Init
  <2> QED
    BY <1>1, <2>1, <2>2 DEF Sent, CacheOnce, SentOnce
<1> QED
  BY <1>4, <1>5, <1>6, <1>7 DEF Roster

(* A step that changes nothing keeps it, too. *)
LEMMA RosterStutters ==
  ASSUME Roster, UNCHANGED vars
  PROVE  Roster'
<1>1. TypeOK'
  BY DEF Roster, TypeOK, vars, participants, clock, conns, packets, opening
<1>2. Presence' /\ Answers' /\ Sent'
  BY PresenceStays, AnswersStay, SentStays DEF Roster, vars, participants, conns, opening
<1> QED
  BY <1>1, <1>2 DEF Roster
--------------------------------------------------------------------------------
(* The theorems. *)

(* The inductive invariant holds throughout, whatever the constants are.   *)
THEOREM RosterInductive == Spec => []Roster
<1>1. Init => Roster
  BY InitRoster
<1>2. Roster /\ [Next]_vars => Roster'
  BY NextStays, RosterStutters
<1> QED
  BY <1>1, <1>2, PTL DEF Spec

(* The types of the server's and the participants' fields.                 *)
THEOREM SessionTypes == Spec => []TypeOK
<1>1. Roster => TypeOK
  BY DEF Roster
<1> QED
  BY <1>1, RosterInductive, PTL

(* What the broadcasts tell of who is in the game is what the server takes *)
(* for the truth: NETMSG_PLAYERNAME, NETMSG_QUIT, /kick, a timeout and a   *)
(* connection that replaces another each change both or neither.           *)
THEOREM EverybodyIsAnnounced == Spec => []PresenceIsAnnounced
<1>1. Roster => PresenceIsAnnounced
  BY DEF Roster, Presence
<1> QED
  BY <1>1, RosterInductive, PTL

(* BindConnection answers no reconnection attempt under a known name.      *)
THEOREM NoReconnectIsGreeted == Spec => []ReconnectsAreNotGreeted
<1>1. Roster => ReconnectsAreNotGreeted
  BY DEF Roster, Answers
<1> QED
  BY <1>1, RosterInductive, PTL

(* No packet reaches anybody twice, in whatever order Initialize,          *)
(* Broadcast and BindConnection send it and put it into the cache.         *)
THEOREM NothingIsSentTwice == Spec => []NothingComesTwice
<1>1. Roster => NothingComesTwice
  BY DEF Roster, Sent, SentOnce, Once, NothingComesTwice
<1> QED
  BY <1>1, RosterInductive, PTL
--------------------------------------------------------------------------------
(* Greetings *)

(* i is told what game it is in, and right after it who it is.             *)
Tells(items, i) ==
  \E n \in 1..2 : /\ n < Len(items)
                  /\ items[n] = Item("gamedata", None)
                  /\ items[n + 1] = Item("setplayernum", i)

(* Items that tell it still do when more items follow.                     *)
LEMMA TellsStays ==
  ASSUME NEW s \in Seq(Items), NEW r \in Seq(Items), NEW i \in Ids, Tells(s, i)
  PROVE  Tells(s \o r, i)
<1>1. PICK n \in 1..2 : /\ n < Len(s)
                        /\ s[n] = Item("gamedata", None)
                        /\ s[n + 1] = Item("setplayernum", i)
  BY DEF Tells
<1>2. Len(s) \in Nat /\ Len(r) \in Nat
  OBVIOUS
<1>3. /\ Len(s \o r) = Len(s) + Len(r)
      /\ \A a \in 1..(Len(s) + Len(r)) : (s \o r)[a] = IF a <= Len(s) THEN s[a] ELSE r[a - Len(s)]
  BY ConcatProperties
<1>4. /\ n \in 1..(Len(s) + Len(r)) /\ n + 1 \in 1..(Len(s) + Len(r))
      /\ n <= Len(s) /\ n + 1 <= Len(s)
  BY <1>1, <1>2
<1>5. n < Len(s \o r) /\ (s \o r)[n] = s[n] /\ (s \o r)[n + 1] = s[n + 1]
  BY <1>1, <1>2, <1>3, <1>4
<1> QED
  BY <1>1, <1>5 DEF Tells

(* Everybody's greeting tells it: a guest's own description comes before.  *)
LEMMA GreetingTells ==
  ASSUME NEW i \in Ids
  PROVE  Tells(Greeting(i), i)
<1> DEFINE guest == IF i > NumScripted THEN <<Item("createnewplayer", i)>> ELSE <<>>
           game == <<Item("gamedata", None), Item("setplayernum", i)>>
           joined == IF IsSpectator(i) THEN <<>> ELSE <<Item("jointeam", i)>>
           frame == IF gameHasStarted THEN <<Item("progress", None)>> ELSE <<>>
<1>1. \A p \in Ids \cup {None} :
        \A kind \in {"createnewplayer", "gamedata", "setplayernum", "jointeam", "progress"} :
          Item(kind, p) \in Items
  BY DEF Items, Item
<1>2. joined \in Seq(Items) /\ frame \in Seq(Items)
  BY <1>1
<1>3. guest \o game \in Seq(Items)
  BY <1>1
<1>4. Tells(guest \o game, i)
  <2> PICK a \in Items : a = Item("gamedata", None)
    BY <1>1
  <2> PICK b \in Items : b = Item("setplayernum", i)
    BY <1>1
  <2> PICK c \in Items : c = Item("createnewplayer", i)
    BY <1>1
  <2>0. game = <<a, b>>
    OBVIOUS
  <2>1. CASE i > NumScripted
    <3>0. guest = <<c>>
      BY <2>1
    <3>1. guest \o game = <<c, a, b>>
      <4>1. <<c>> \o <<a, b>> = <<c, a, b>>
        <5> DEFINE s == <<c>> \o <<a, b>>
        <5>1. /\ <<c>> \in Seq(Items) /\ <<a, b>> \in Seq(Items)
              /\ Len(<<c>>) = 1 /\ Len(<<a, b>>) = 2
          OBVIOUS
        <5>2. /\ s \in Seq(Items) /\ Len(s) = 3
              /\ s[1] = c /\ s[2] = a /\ s[3] = b
          BY <5>1, ConcatProperties
        <5>3. <<c, a, b>> \in Seq(Items) /\ Len(<<c, a, b>>) = 3
          OBVIOUS
        <5> HIDE DEF s
        <5>4. \A n \in 1..3 : s[n] = <<c, a, b>>[n]
          BY <5>2
        <5>5. s = <<c, a, b>>
          BY <5>2, <5>3, <5>4, SeqEqual
        <5> QED
          BY <5>5 DEF s
      <4> HIDE DEF guest, game
      <4> QED
        BY <2>0, <3>0, <4>1
    <3>2. Len(<<c, a, b>>) = 3 /\ <<c, a, b>>[2] = a /\ <<c, a, b>>[3] = b
      OBVIOUS
    <3> QED
      BY <3>1, <3>2 DEF Tells
  <2>2. CASE ~(i > NumScripted)
    <3>0. guest = <<>>
      BY <2>2
    <3>1. guest \o game = <<a, b>>
      <4>1. <<>> \o <<a, b>> = <<a, b>>
        OBVIOUS
      <4> HIDE DEF guest, game
      <4> QED
        BY <2>0, <3>0, <4>1
    <3>2. Len(<<a, b>>) = 2 /\ <<a, b>>[1] = a /\ <<a, b>>[2] = b
      OBVIOUS
    <3> QED
      BY <3>1, <3>2 DEF Tells
  <2> QED
    BY <2>1, <2>2
<1>5. Greeting(i) = guest \o game \o joined \o frame
  BY DEF Greeting
<1> HIDE DEF guest, game, joined, frame
<1>6. guest \o game \o joined \in Seq(Items) /\ Tells(guest \o game \o joined, i)
  BY <1>2, <1>3, <1>4, TellsStays, ConcatProperties
<1> QED
  BY <1>2, <1>5, <1>6, TellsStays

(* The property, in terms of Tells.                                        *)
LEMMA GreetedByTells ==
  AcceptedAreGreeted <=>
    \A k \in Conns : attempt[k] = "accepted" =>
      \E i \in Ids : Tells(greeting[k], i) /\ \A j \in Ids : clientLink[j] = k => j = i
BY DEF AcceptedAreGreeted, Tells

(* What a step that connects nobody does with connections: it sends no     *)
(* greeting, answers no attempt, and may take links away.                  *)
LEMMA OnlyConnectAnswers ==
  ASSUME Roster, Next, ~ \E k \in Conns, reconnect \in BOOLEAN : Connect(k, reconnect)
  PROVE  /\ UNCHANGED <<attempt, greeting>>
         /\ \A i \in Ids : clientLink'[i] \in {clientLink[i], None}
<1> DEFINE Answered == /\ UNCHANGED <<attempt, greeting>>
                       /\ \A i \in Ids : clientLink'[i] \in {clientLink[i], None}
<1>1. CASE Initialize
  BY <1>1 DEF Initialize, participants, conns
<1>2. ASSUME NEW i \in Ids, PlayerName(i) \/ Command(i)
      PROVE  Answered
  BY <1>2 DEF PlayerName, Command, participants, conns
<1>3. ASSUME NEW i \in Ids, NEW on \in BOOLEAN, Ready(i, on) \/ Pause(i, on)
      PROVE  Answered
  BY <1>3 DEF Ready, Pause, participants, conns
<1>4. ASSUME NEW i \in Ids, Quit(i) \/ KickPlayer(i)
      PROVE  Answered
  BY <1>4 DEF Quit, KickPlayer, Departs, conns
<1>5. ASSUME NEW i \in Ids, Timeout(i) \/ CheckForExpiredConnection(i)
      PROVE  Answered
  <2>1. UNCHANGED conns
    BY <1>5 DEF Timeout, CheckForExpiredConnection
  <2>2. clientLink' = [clientLink EXCEPT ![i] = None] \/ clientLink' = clientLink
    BY <1>5 DEF Timeout, CheckForExpiredConnection, Drop
  <2>3. clientLink \in [Ids -> Conns \cup {None}]
    BY DEF Roster, TypeOK
  <2>4. \A j \in Ids : clientLink'[j] \in {clientLink[j], None}
    BY <2>2, <2>3
  <2> QED
    BY <2>1, <2>4 DEF conns
<1>6. ASSUME NEW i \in Ids, FallSilent(i) \/ Hear(i)
      PROVE  Answered
  BY <1>6 DEF FallSilent, Hear, conns
<1>7. ASSUME NEW forced \in BOOLEAN, CheckForGameStart(forced)
      PROVE  Answered
  BY <1>7 DEF CheckForGameStart, participants, conns
<1>8. CASE CreateNewFrame \/ Wait
  BY <1>8 DEF CreateNewFrame, Wait, participants, conns
<1> QED
  BY <1>1, <1>2, <1>3, <1>4, <1>5, <1>6, <1>7, <1>8 DEF Next, ServerStep

(* Such a step keeps everybody greeted.                                    *)
LEMMA GreetedStays ==
  ASSUME AcceptedAreGreeted, UNCHANGED <<attempt, greeting>>,
         \A i \in Ids : clientLink'[i] \in {clientLink[i], None}
  PROVE  AcceptedAreGreeted'
<1> SUFFICES ASSUME NEW k \in Conns, attempt'[k] = "accepted"
             PROVE  \E i \in Ids : /\ Tells(greeting'[k], i)
                                   /\ \A j \in Ids : clientLink'[j] = k => j = i
  BY DEF AcceptedAreGreeted, Tells
<1>1. PICK i \in Ids : Tells(greeting[k], i) /\ \A j \in Ids : clientLink[j] = k => j = i
  BY GreetedByTells
<1>2. k # None
  BY SessionAssumption DEF Conns, None
<1> QED
  BY <1>1, <1>2

(* Whoever is let in on a connection of its own is greeted on it, and      *)
(* nobody else has that connection.  A player that came back while         *)
(* DISCONNECTING would have its old link continued without a greeting.     *)
LEMMA ConnectGreets ==
  ASSUME ~RejoinAtOnce, Roster, AcceptedAreGreeted,
         NEW k \in Conns, NEW reconnect \in BOOLEAN, Connect(k, reconnect)
  PROVE  AcceptedAreGreeted'
<1> DEFINE i == Wanted(k)
           outcome == IF reconnect THEN "reconnected" ELSE "accepted"
<1>1. /\ attempt \in [Conns -> {"none", "refused", "accepted", "reconnected"}]
      /\ greeting \in [Conns -> Seq(Items)] /\ clientLink \in [Ids -> Conns \cup {None}]
  BY DEF Roster, TypeOK
<1>2. attempt[k] = "none" /\ (~reconnect /\ ConnName[k] # 0 => myState[i] # "DISCONNECTING")
  BY DEF Connect, MayAttempt
<1>3. \A j \in Ids : clientLink[j] # k
  BY <1>2 DEF Roster, Answers, Untouched
<1> HIDE DEF i
<1> SUFFICES ASSUME NEW l \in Conns, attempt'[l] = "accepted"
             PROVE  \E p \in Ids : /\ Tells(greeting'[l], p)
                                   /\ \A j \in Ids : clientLink'[j] = l => j = p
  BY DEF AcceptedAreGreeted, Tells
<1>4. l # k => /\ attempt[l] = attempt'[l]
               /\ \E p \in Ids : /\ Tells(greeting[l], p)
                                 /\ \A j \in Ids : clientLink[j] = l => j = p
  <2>1. l # k => attempt[l] = attempt'[l]
    BY <1>1 DEF Connect, BindConnection
  <2> QED
    BY <2>1, GreetedByTells
<1>5. CASE attempt' = [attempt EXCEPT ![k] = "refused"] /\ Refuse
  BY <1>1, <1>4, <1>5 DEF Refuse, participants
<1>6. CASE attempt' = [attempt EXCEPT ![k] = outcome] /\ Reestablish(i)
           /\ (reconnect \/ (ConnName[k] # 0 /\ myState[i] = "DISCONNECTING"))
  <2>1. reconnect
    BY <1>2, <1>6
  <2>2. l # k
    BY <1>1, <1>6, <2>1
  <2> QED
    BY <1>4, <1>6, <2>2 DEF Reestablish
<1>7. ASSUME NEW forceNewLink \in BOOLEAN, i \in Ids, Establish(i, k, forceNewLink)
      PROVE  \E p \in Ids : /\ Tells(greeting'[l], p)
                            /\ \A j \in Ids : clientLink'[j] = l => j = p
  <2>1. /\ clientLink' = [clientLink EXCEPT ![i] = k]
        /\ greeting' = [greeting EXCEPT ![k] = Greeting(i)]
    BY <1>7 DEF Establish
  <2>2. CASE l = k
    <3>1. Tells(greeting'[l], i)
      BY <1>1, <1>7, <2>1, <2>2, GreetingTells
    <3>2. \A j \in Ids : clientLink'[j] = l => j = i
      BY <1>1, <1>3, <2>1, <2>2
    <3> QED
      BY <1>7, <3>1, <3>2
  <2>3. CASE l # k
    <3>1. greeting'[l] = greeting[l]
      BY <1>1, <2>1, <2>3
    <3>2. \A j \in Ids : clientLink'[j] = l => clientLink[j] = l
      BY <1>1, <2>1, <2>3
    <3> QED
      BY <1>4, <2>3, <3>1, <3>2
  <2> QED
    BY <2>2, <2>3
<1> QED
  BY <1>5, <1>6, <1>7, ConnectOutcomes DEF i

(* A client that is let in, other than by continuing its old link, is told *)
(* what game it is in and who it is, and nobody shares its connection:     *)
(* BindConnection greets before the link is the participant's.             *)
THEOREM WhoIsAcceptedIsGreeted == ~RejoinAtOnce => (Spec => []AcceptedAreGreeted)
<1> SUFFICES ASSUME ~RejoinAtOnce
             PROVE  Spec => []AcceptedAreGreeted
  OBVIOUS
<1>1. Init => AcceptedAreGreeted
  BY DEF Init, AcceptedAreGreeted
<1>2. Roster /\ AcceptedAreGreeted /\ [Next]_vars => AcceptedAreGreeted'
  <2> SUFFICES ASSUME Roster, AcceptedAreGreeted, [Next]_vars
               PROVE  AcceptedAreGreeted'
    OBVIOUS
  <2>1. ASSUME NEW k \in Conns, NEW reconnect \in BOOLEAN, Connect(k, reconnect)
        PROVE  AcceptedAreGreeted'
    BY <2>1, ConnectGreets
  <2>2. CASE Next /\ ~ \E k \in Conns, reconnect \in BOOLEAN : Connect(k, reconnect)
    BY <2>2, OnlyConnectAnswers, GreetedStays
  <2>3. CASE UNCHANGED vars
    BY <2>3, GreetedStays DEF vars, participants, conns
  <2> QED
    BY <2>1, <2>2, <2>3
<1> QED
  BY <1>1, <1>2, RosterInductive, PTL DEF Spec
================================================================================
