----------------------------- MODULE UdpConnection -----------------------------
(***************************************************************************)
(* The two UDPConnection objects at the ends of a game connection: end 1   *)
(* is the client's (it owns its socket), end 2 the server's (it shares the *)
(* listener's socket).  Datagrams are lost, duplicated and reordered.      *)
(*                                                                         *)
(* Time is abstracted: the tests of the 1/30 s, 200 ms and 400 ms timers   *)
(* and of the bandwidth average are choices of the action that makes them. *)
(***************************************************************************)
EXTENDS Integers, Sequences, FiniteSets, FiniteSetsExt, ChunkStream

CONSTANTS
  Messages,        \* Messages[e]: the sizes of the messages end e sends
  MaxChunkSize,    \* maxChunkSize, 254 bytes
  ChunksPerPacket, \* how many chunks the mtu lets into a packet
  MaxNak,          \* at most 127 missing chunks are named in a packet
  NakReach,        \* a chunk more than 255 ahead is not named
  NakListBelow,    \* 8: from so many leading losses on, no list is sent
  ResendPerFactor, \* 20 resends per Flush and netLossFactor
  NetLossFactor,   \* netLossFactor, 0..2
  Limited,         \* whether linkOutgoingBandwidth may cut a Flush short
  Closers,         \* the ends that may close
  Reconnects,      \* whether the client may send reconnection attempts
  Duplicates,      \* whether a datagram may arrive more than once
  MaxInFlight      \* bound: MaxInFlight[e] datagrams under way to end e

Ends == {1, 2}
Client == 1
Peer(e) == 3 - e

ASSUME UdpAssumption ==
  /\ Messages \in [Ends -> Seq(Nat \ {0})]
  /\ MaxChunkSize \in Nat \ {0} /\ ChunksPerPacket \in Nat \ {0}
  /\ MaxNak \in Nat \ {0} /\ NakReach \in Nat /\ NakListBelow \in Nat
  /\ ResendPerFactor \in Nat \ {0} /\ NetLossFactor \in 0..2
  /\ {Limited, Reconnects, Duplicates} \subseteq BOOLEAN
  /\ Closers \subseteq Ends
  /\ MaxInFlight \in [Ends -> Nat \ {0}]

VARIABLES
  outgoingData,          \* what SendData accepted and is not yet in chunks
  newChunks,             \* chunks created and not yet sent
  unackedChunks,         \* chunks sent and not yet acknowledged
  resendRequested,       \* the chunks to send again
  currentPacketChunkNum, \* the number of the next chunk
  resend,                \* the toggle between new and repeated chunks
  lastMidChunk,          \* where the rotation through the middle stands
  lastInOrder,           \* the last chunk received in order
  waitingPackets,        \* chunks received ahead of a gap
  fragmentBuffer,        \* the beginning of a message
  msgQueue,              \* messages received and not yet taken by GetData
  muted, closed,
  net,                   \* net[e]: the datagrams under way to end e
  created,               \* history: the data of every chunk e created
  processed,             \* history: the data of every chunk e processed
  numSent,               \* history: how many messages e gave to SendData
  taken                  \* history: the messages e got from GetData

sender == <<outgoingData, newChunks, unackedChunks, resendRequested,
            currentPacketChunkNum, resend, lastMidChunk, created>>
receiver == <<lastInOrder, waitingPackets, fragmentBuffer, msgQueue, processed>>
vars == <<sender, receiver, muted, closed, net, numSent, taken>>

Nums(chunks) == {c.num : c \in chunks}
FirstNum(chunks) == chunks[1].num
UseMinLossFactor == NetLossFactor = 0

Init ==
  /\ outgoingData = [e \in Ends |-> <<>>]
  /\ newChunks = [e \in Ends |-> <<>>]
  /\ unackedChunks = [e \in Ends |-> <<>>]
  /\ resendRequested = [e \in Ends |-> {}]
  /\ currentPacketChunkNum = [e \in Ends |-> 0]
  /\ resend = [e \in Ends |-> FALSE]
  /\ lastMidChunk = [e \in Ends |-> -1]
  /\ lastInOrder = [e \in Ends |-> -1]
  /\ waitingPackets = [e \in Ends |-> {}]
  /\ fragmentBuffer = [e \in Ends |-> <<>>]
  /\ msgQueue = [e \in Ends |-> <<>>]
  /\ muted = [e \in Ends |-> TRUE]
  /\ closed = [e \in Ends |-> FALSE]
  /\ net = [e \in Ends |-> {}]
  /\ created = [e \in Ends |-> <<>>]
  /\ processed = [e \in Ends |-> <<>>]
  /\ numSent = [e \in Ends |-> 0]
  /\ taken = [e \in Ends |-> <<>>]
--------------------------------------------------------------------------------
(* The application's side. *)

(* The server's connection exists from the first packet on, and the server *)
(* uses it once it has read the connection attempt from it.                *)
InUse(e) == e = Client \/ taken[e] # <<>>

(* The client sends its attempt, then nothing until it hears from the      *)
(* server.                                                                 *)
MaySend(e) == taken[e] # <<>> \/ (e = Client /\ numSent[e] = 0)

Unmute(e) ==
  /\ InUse(e)
  /\ muted[e] /\ ~closed[e]
  /\ muted' = [muted EXCEPT ![e] = FALSE]
  /\ UNCHANGED <<sender, receiver, closed, net, numSent, taken>>

SendData(e) ==
  /\ MaySend(e)
  /\ numSent[e] < Len(Messages[e])
  /\ numSent' = [numSent EXCEPT ![e] = @ + 1]
  /\ outgoingData' = [outgoingData EXCEPT ![e] =
       @ \o MessageUnits(numSent'[e], Messages[e][numSent'[e]])]
  /\ UNCHANGED <<newChunks, unackedChunks, resendRequested,
                 currentPacketChunkNum, resend, lastMidChunk, created,
                 receiver, muted, closed, net, taken>>

GetData(e) ==
  /\ msgQueue[e] # <<>>
  /\ taken' = [taken EXCEPT ![e] = Append(@, Head(msgQueue[e]))]
  /\ msgQueue' = [msgQueue EXCEPT ![e] = Tail(@)]
  /\ UNCHANGED <<sender, lastInOrder, waitingPackets, fragmentBuffer,
                 processed, muted, closed, net, numSent>>
--------------------------------------------------------------------------------
(* SendIfNecessary: what a packet says of the chunks e misses. *)

(* droppedPackets, without the chunks too far ahead to be named *)
Dropped(e) ==
  {n \in (lastInOrder[e] + 1)..(lastInOrder[e] + 1 + NakReach) :
     /\ n \notin Nums(waitingPackets[e])
     /\ \E w \in Nums(waitingPackets[e]) : n < w}

(* the run of losses right after lastInOrder *)
NumContinuous(e) ==
  Cardinality({n \in Dropped(e) : (lastInOrder[e] + 1)..n \subseteq Dropped(e)})

(* naks, as offsets from lastInOrder + 1: the first MaxNak losses *)
NakListOffByOne(e) ==
  {n - (lastInOrder[e] + 2) : n \in Dropped(e)}

NakList(e) ==
  {n - (lastInOrder[e] + 1) :
     n \in {m \in Dropped(e) :
              Cardinality({d \in Dropped(e) : d < m}) < MaxNak}}

ListsNaks(e, nakDue) == NumContinuous(e) < NakListBelow /\ nakDue
Naks(e, nakDue) == IF ListsNaks(e, nakDue) THEN NakList(e) ELSE {}
(* nakType < 0 *)
NakRun(e, nakDue) ==
  IF ListsNaks(e, nakDue) THEN 0 ELSE LesserOf(MaxNak, NumContinuous(e))
--------------------------------------------------------------------------------
(* SendIfNecessary: which chunks are sent, in which order. *)

(* resendRequested is kept in the order of the numbers *)
ByNumber(chunks) ==
  [i \in 1..Cardinality(chunks) |->
     CHOOSE c \in chunks :
       Cardinality({d \in chunks : d.num < c.num}) = i - 1]

(* On a lossy connection the requested chunks are repeated until they are  *)
(* acknowledged: from the front, the back, and twice from the middle.      *)
LossyCount(list) == LesserOf(Len(list), ResendPerFactor * NetLossFactor)
MidStart(list) == (LossyCount(list) + 3) \div 4
MidStop(list) == Len(list) - (LossyCount(list) + 2) \div 4

(* lastMidChunk is moved up to the middle when it is behind it *)
MidBefore(list, mid) ==
  IF MidStart(list) < Len(list) /\ mid < list[MidStart(list) + 1].num
  THEN list[MidStart(list) + 1].num - 1 ELSE mid

MidFirst(list, mid) ==
  LET ahead == {i \in 1..Len(list) : list[i].num > MidBefore(list, mid)}
  IN  IF \/ ahead = {} \/ MidStop(list) = Len(list)
         \/ Min(ahead) > MidStop(list)
      THEN MidStart(list) ELSE Min(ahead) - 1

MidPick(list, mid, k) ==
  MidStart(list) + 1 + ((MidFirst(list, mid) - MidStart(list) + k)
                        % (MidStop(list) - MidStart(list)))

LossyPicks(list, mid) ==
  [j \in 1..LossyCount(list) |->
     LET turn == (j - 1) % 4
         round == (j - 1) \div 4
     IN  list[CASE turn = 0 -> round + 1
                [] turn = 1 -> Len(list) - round
                [] OTHER    -> MidPick(list, mid, 2 * round + turn - 2)]]

(* the places of repeated chunks at which one from the middle has its turn *)
MidPlaces(places) ==
  {i \in places : Cardinality({j \in places : j < i}) % 4 \in {2, 3}}

(* New and repeated chunks alternate until one kind runs out. *)
Alternate(first, second) ==
  LET m == LesserOf(Len(first), Len(second))
  IN  [i \in 1..(2 * m) |->
         IF i % 2 = 1 THEN first[(i + 1) \div 2] ELSE second[i \div 2]]
      \o SubSeq(first, m + 1, Len(first)) \o SubSeq(second, m + 1, Len(second))

Agenda(repeated, new, toggle) ==
  IF toggle THEN Alternate(new, repeated) ELSE Alternate(repeated, new)

(* The first packet carries the list of losses; so do the others on a      *)
(* lossy connection.                                                       *)
Datagrams(e, agenda, count, naks, run) ==
  {[ack    |-> lastInOrder[e],
    nakRun |-> run,
    naks   |-> IF i = 1 \/ ~UseMinLossFactor THEN naks ELSE {},
    chunks |-> SubSeq(agenda, (i - 1) * ChunksPerPacket + 1,
                      LesserOf(i * ChunksPerPacket, Len(agenda)))]
     : i \in 1..count}

PacketsFor(agenda) ==
  IF agenda = <<>> THEN 1
  ELSE (Len(agenda) + ChunksPerPacket - 1) \div ChunksPerPacket
--------------------------------------------------------------------------------
(* Flush: the first k units of outgoingData become chunks, whole messages  *)
(* of them, then SendIfNecessary.  forced means all of them; otherwise the *)
(* timers and the bandwidth decide, k = 0 when it is too early.  nakDue,   *)
(* unackDue and quietDue are the three timers of SendIfNecessary, count is *)
(* how many packets the bandwidth allows.                                  *)

FreshChunksRenumbered(e, k) ==
  LET data == Cut(SubSeq(outgoingData[e], 1, k), MaxChunkSize)
  IN  [i \in 1..Len(data) |->
         [num |-> Len(unackedChunks[e] \o newChunks[e]) + i - 1, data |-> data[i]]]

FreshChunks(e, k) ==
  LET data == Cut(SubSeq(outgoingData[e], 1, k), MaxChunkSize)
  IN  [i \in 1..Len(data) |->
         [num |-> currentPacketChunkNum[e] + i - 1, data |-> data[i]]]

(* the last unacknowledged chunk is repeated when nothing new is to be sent *)
RequestedNoLast(e, new, unackDue) == resendRequested[e]

Requested(e, new, unackDue) ==
  IF unackDue /\ new = <<>> /\ unackedChunks[e] # <<>>
  THEN resendRequested[e] \cup {Last(unackedChunks[e])}
  ELSE resendRequested[e]

Repeats(e, requested) ==
  IF UseMinLossFactor THEN ByNumber(requested)
  ELSE LossyPicks(ByNumber(requested), lastMidChunk[e])

MustSend(new, requested, naks, forced, quietDue) ==
  \/ forced \/ new # <<>> \/ naks # {} \/ quietDue
  \/ UseMinLossFactor /\ requested # {}

(* What is left to do once the first n chunks of the agenda are sent. *)
AfterSending(e, new, requested, agenda, n) ==
  LET sent == ToSet(SubSeq(agenda, 1, n))
      first == Cardinality({i \in 1..Len(new) : new[i] \in sent})
      newlySent == SubSeq(new, 1, first)
      mids == MidPlaces({i \in 1..n : agenda[i] \notin ToSet(new)})
  IN  /\ newChunks' = [newChunks EXCEPT ![e] = SubSeq(new, first + 1, Len(new))]
      /\ unackedChunks' = [unackedChunks EXCEPT ![e] = @ \o newlySent]
      /\ resendRequested' = [resendRequested EXCEPT ![e] =
           IF UseMinLossFactor THEN requested \ sent
           ELSE requested \cup ToSet(newlySent)]
      /\ resend' = [resend EXCEPT ![e] =
           IF n = 0 THEN @ ELSE agenda[n] \notin ToSet(new)]
      /\ lastMidChunk' = [lastMidChunk EXCEPT ![e] =
           IF UseMinLossFactor THEN @
           ELSE IF mids = {} THEN MidBefore(ByNumber(requested), @)
           ELSE agenda[Max(mids)].num]

FlushWith(e, forced, k, nakDue, unackDue, quietDue, count) ==
  LET fresh     == FreshChunks(e, k)
      new       == newChunks[e] \o fresh
      naks      == Naks(e, nakDue)
      requested == Requested(e, new, unackDue)
      agenda    == Agenda(Repeats(e, requested), new, resend[e])
      packets   == LesserOf(count, PacketsFor(agenda))
  IN  /\ unackDue => fresh = <<>>
      /\ outgoingData' = [outgoingData EXCEPT ![e] = SubSeq(@, k + 1, Len(@))]
      /\ currentPacketChunkNum' =
           [currentPacketChunkNum EXCEPT ![e] = @ + Len(fresh)]
      /\ created' = [created EXCEPT ![e] =
           @ \o [i \in 1..Len(fresh) |-> fresh[i].data]]
      /\ IF MustSend(new, requested, naks, forced, quietDue)
         THEN /\ AfterSending(e, new, requested, agenda,
                    LesserOf(packets * ChunksPerPacket, Len(agenda)))
              /\ net' = [net EXCEPT ![Peer(e)] =
                   @ \cup Datagrams(e, agenda, packets, naks, NakRun(e, nakDue))]
              /\ Cardinality(net'[Peer(e)]) =< MaxInFlight[Peer(e)]
         ELSE /\ resendRequested' = [resendRequested EXCEPT ![e] = requested]
              /\ UNCHANGED <<newChunks, unackedChunks, resend, lastMidChunk, net>>

(* all the packets there are to send *)
Unlimited == MaxInFlight[1] + MaxInFlight[2]

(* a timer is read only where it matters *)
Timer(matters) == IF matters THEN BOOLEAN ELSE {FALSE}

DoFlush(e, forced) ==
  \E k \in IF forced THEN {Len(outgoingData[e])}
            ELSE IF Limited THEN {0} \cup MessageEnds(outgoingData[e])
            ELSE {0, Len(outgoingData[e])},
     nakDue   \in Timer(waitingPackets[e] # {}),
     unackDue \in Timer(unackedChunks[e] # <<>>),
     quietDue \in Timer(~forced),
     count \in IF Limited THEN 0..Unlimited ELSE {Unlimited} :
    FlushWith(e, forced, k, nakDue, unackDue, quietDue, count)

Flush(e, forced) ==
  /\ ~muted[e]
  /\ DoFlush(e, forced)
  /\ UNCHANGED <<receiver, muted, closed, numSent, taken>>

(* Update, once it has received what there was to receive *)
Update(e) == Flush(e, FALSE)

Close(e, flush) ==
  /\ e \in Closers /\ InUse(e) /\ ~closed[e]
  /\ IF muted[e] THEN UNCHANGED <<sender, net>> ELSE DoFlush(e, flush)
  /\ muted' = [muted EXCEPT ![e] = TRUE]
  /\ closed' = [closed EXCEPT ![e] = TRUE]
  /\ UNCHANGED <<receiver, numSent, taken>>
--------------------------------------------------------------------------------
(* ProcessRawPacket *)

(* A packet whose sender has received nothing, when this end already has   *)
(* received something and the peer has acknowledged its chunk 0.           *)
Superfluous(e, pkt) ==
  /\ pkt.ack < 0 /\ lastInOrder[e] >= 0
  /\ unackedChunks[e] = <<>> \/ FirstNum(unackedChunks[e]) > 0

(* AckChunks: the chunks up to the acknowledged one leave from the front *)
NumAckedOneMore(chunks, ack) ==
  CHOOSE n \in 0..Len(chunks) :
    /\ \A i \in 1..n : chunks[i].num =< ack + 1
    /\ n < Len(chunks) => chunks[n + 1].num > ack + 1

NumAcked(chunks, ack) ==
  CHOOSE n \in 0..Len(chunks) :
    /\ \A i \in 1..n : chunks[i].num =< ack
    /\ n < Len(chunks) => chunks[n + 1].num > ack

AfterAck(e, pkt) ==
  SubSeq(unackedChunks[e], NumAcked(unackedChunks[e], pkt.ack) + 1,
         Len(unackedChunks[e]))

(* ... and they need no repetition any more *)
StillWantedAll(e, pkt) == resendRequested[e]

StillWanted(e, pkt) == {c \in resendRequested[e] : c.num > pkt.ack}

(* unAckDiff *)
UnAckDiff(unacked, pkt) == FirstNum(unacked) - (pkt.ack + 1)

(* The losses a packet reports, as offsets from the first chunk the other  *)
(* end misses.                                                             *)
Losses(pkt) == pkt.naks \cup 0..(pkt.nakRun - 1)

(* unAckPos: where the code looks for the chunk of an offset (from 0) *)
UnAckPos(unacked, pkt, i) == i + UnAckDiff(unacked, pkt)

NakInRange(unacked, pkt) ==
  unacked # <<>> /\ UnAckDiff(unacked, pkt) =< 256

NakRequests(unacked, pkt) ==
  IF ~NakInRange(unacked, pkt) THEN {}
  ELSE {unacked[UnAckPos(unacked, pkt, i) + 1] :
          i \in {j \in Losses(pkt) : UnAckPos(unacked, pkt, j) < Len(unacked)}}

(* the gaps in a list: those chunks need no more repetition *)
NakGaps(unacked, pkt) ==
  IF ~NakInRange(unacked, pkt) \/ pkt.naks = {} THEN {}
  ELSE {unacked[p + 1] : p \in {q \in 0..(Len(unacked) - 1) :
          /\ q < UnAckPos(unacked, pkt, Max(pkt.naks))
          /\ \A i \in pkt.naks : q # UnAckPos(unacked, pkt, i)}}

(* the chunks of the packet that are neither processed nor waiting *)
Accepted(e, pkt) ==
  {c \in ToSet(pkt.chunks) :
     c.num > lastInOrder[e] /\ c.num \notin Nums(waitingPackets[e])}

(* the last chunk of the run that starts right after n *)
EndOfRun(n, chunks) ==
  CHOOSE m \in n..(n + Cardinality(chunks)) :
    (n + 1)..m \subseteq Nums(chunks) /\ m + 1 \notin Nums(chunks)

(* the data of the run right after lastInOrder *)
InOrderIgnoringGaps(e, arrived) ==
  [i \in 1..Cardinality(arrived) |-> ByNumber(arrived)[i].data]

InOrderFirstOnly(e, arrived) ==
  [i \in 1..LesserOf(1, EndOfRun(lastInOrder[e], arrived) - lastInOrder[e]) |->
     (CHOOSE c \in arrived : c.num = lastInOrder[e] + i).data]

InOrder(e, arrived) ==
  [i \in 1..(EndOfRun(lastInOrder[e], arrived) - lastInOrder[e]) |->
     (CHOOSE c \in arrived : c.num = lastInOrder[e] + i).data]

Process(e, arrived) ==
  LET data  == InOrder(e, arrived)
      last  == lastInOrder[e] + Len(data)
      units == fragmentBuffer[e] \o FlattenSeq(data)
  IN  /\ lastInOrder' = [lastInOrder EXCEPT ![e] = last]
      /\ waitingPackets' =
           [waitingPackets EXCEPT ![e] = {c \in arrived : c.num > last}]
      /\ fragmentBuffer' = [fragmentBuffer EXCEPT ![e] = Partial(units)]
      /\ msgQueue' = [msgQueue EXCEPT ![e] = @ \o Complete(units)]
      /\ processed' = [processed EXCEPT ![e] = @ \o data]

ProcessRawPacket(e, pkt) ==
  IF Superfluous(e, pkt) THEN UNCHANGED <<sender, receiver>>
  ELSE LET unacked == AfterAck(e, pkt)
       IN  /\ unackedChunks' = [unackedChunks EXCEPT ![e] = unacked]
           /\ resendRequested' = [resendRequested EXCEPT ![e] =
                (StillWanted(e, pkt) \ NakGaps(unacked, pkt)) \cup NakRequests(unacked, pkt)]
           /\ Process(e, waitingPackets[e] \cup Accepted(e, pkt))
           /\ UNCHANGED <<outgoingData, newChunks, currentPacketChunkNum,
                          resend, lastMidChunk, created>>

(* UDPListener::Update: a packet from an unknown address opens the         *)
(* server's connection if it begins with chunk 0 and reports nothing.      *)
Opens(pkt) ==
  /\ pkt.ack = -1 /\ Losses(pkt) = {}
  /\ pkt.chunks # <<>> /\ FirstNum(pkt.chunks) = 0

(* A datagram arrives, for the last time or not.  The client's socket is   *)
(* closed with its connection, the server's is the listener's.             *)
Receive(e, pkt) ==
  /\ IF e = Client THEN ~closed[e] ELSE lastInOrder[e] >= 0 \/ Opens(pkt)
  /\ ProcessRawPacket(e, pkt)
  /\ \/ net' = [net EXCEPT ![e] = @ \ {pkt}]
     \/ Duplicates /\ UNCHANGED net
  /\ UNCHANGED <<muted, closed, numSent, taken>>

Lose(e, pkt) ==
  /\ net' = [net EXCEPT ![e] = @ \ {pkt}]
  /\ UNCHANGED <<sender, receiver, muted, closed, numSent, taken>>

(* AttemptReconnect: a client that has heard nothing for a while sends,    *)
(* from a second connection object on the same socket, a chunk 0 that asks *)
(* to reconnect.  The game only does so once it has received its data.     *)
ReconnectData == <<[msg |-> 0, pos |-> 1, last |-> TRUE]>>
ReconnectPacketNextNumber ==
  [ack |-> -1, nakRun |-> 0, naks |-> {},
   chunks |-> <<[num |-> currentPacketChunkNum[Client], data |-> ReconnectData]>>]

ReconnectPacket ==
  [ack |-> -1, nakRun |-> 0, naks |-> {},
   chunks |-> <<[num |-> 0, data |-> ReconnectData]>>]

AttemptReconnectAnyTime ==
  /\ Reconnects /\ ~closed[Client]
  /\ net' = [net EXCEPT ![Peer(Client)] = @ \cup {ReconnectPacket}]
  /\ Cardinality(net'[Peer(Client)]) =< MaxInFlight[Peer(Client)]
  /\ UNCHANGED <<sender, receiver, muted, closed, numSent, taken>>

AttemptReconnect ==
  /\ Reconnects /\ ~closed[Client]
  /\ lastInOrder[Client] >= 0
  /\ net' = [net EXCEPT ![Peer(Client)] = @ \cup {ReconnectPacket}]
  /\ Cardinality(net'[Peer(Client)]) =< MaxInFlight[Peer(Client)]
  /\ UNCHANGED <<sender, receiver, muted, closed, numSent, taken>>
--------------------------------------------------------------------------------
Next ==
  \/ \E e \in Ends :
       \/ Unmute(e) \/ SendData(e) \/ GetData(e)
       \/ Update(e) \/ Flush(e, TRUE)
       \/ \E flush \in BOOLEAN : Close(e, flush)
       \/ \E pkt \in net[e] : Receive(e, pkt) \/ Lose(e, pkt)
  \/ AttemptReconnect

Spec == Init /\ [][Next]_vars

(* The server and the client call Update for ever, so each timer is found  *)
(* expired again and again; the applications send what they have to send   *)
(* and take what arrives.  A network that loses some datagrams but not all *)
(* delivers what is sent for ever: each chunk, and the reports of losses.  *)
DueUpdate(e) ==
  /\ ~muted[e]
  /\ FlushWith(e, FALSE, Len(outgoingData[e]), TRUE, outgoingData[e] = <<>>,
               TRUE, Unlimited)
  /\ UNCHANGED <<receiver, muted, closed, numSent, taken>>

ReceiveChunk(e, n) ==
  \E pkt \in net[e] : n \in Nums(ToSet(pkt.chunks)) /\ Receive(e, pkt)
ReceiveLosses(e) == \E pkt \in net[e] : Losses(pkt) # {} /\ Receive(e, pkt)

MaxChunks(e) == SumSeq(Messages[e])

Fairness ==
  \A e \in Ends :
    /\ WF_vars(Unmute(e)) /\ WF_vars(SendData(e)) /\ WF_vars(GetData(e))
    /\ WF_vars(\E pkt \in net[e] : Receive(e, pkt) \/ Lose(e, pkt))
    /\ SF_vars(DueUpdate(e)) /\ SF_vars(ReceiveLosses(e))
    /\ \A n \in 0..(MaxChunks(Peer(e)) - 1) : SF_vars(ReceiveChunk(e, n))

FairSpec == Spec /\ Fairness
--------------------------------------------------------------------------------
(* Properties. *)

Units == [msg : Nat, pos : Nat, last : BOOLEAN]
Chunk == [num : Nat, data : Seq(Units)]
Datagram == [ack : Int, nakRun : Nat, naks : SUBSET Nat, chunks : Seq(Chunk)]

(* The types of the connection's fields: chunk numbers are naturals, the   *)
(* acknowledgement starts at -1, the three queues hold chunks.             *)
TypeOK ==
  /\ outgoingData \in [Ends -> Seq(Units)]
  /\ newChunks \in [Ends -> Seq(Chunk)]
  /\ unackedChunks \in [Ends -> Seq(Chunk)]
  /\ resendRequested \in [Ends -> SUBSET Chunk]
  /\ currentPacketChunkNum \in [Ends -> Nat]
  /\ resend \in [Ends -> BOOLEAN]
  /\ lastMidChunk \in [Ends -> Int]
  /\ lastInOrder \in [Ends -> Nat \cup {-1}]
  /\ waitingPackets \in [Ends -> SUBSET Chunk]
  /\ fragmentBuffer \in [Ends -> Seq(Units)]
  /\ msgQueue \in [Ends -> Seq(Seq(Units))]
  /\ muted \in [Ends -> BOOLEAN] /\ closed \in [Ends -> BOOLEAN]
  /\ net \in [Ends -> SUBSET Datagram]
  /\ created \in [Ends -> Seq(Seq(Units))]
  /\ processed \in [Ends -> Seq(Seq(Units))]
  /\ numSent \in [Ends -> Nat]
  /\ taken \in [Ends -> Seq(Seq(Units))]

(* The chunks end e has created and the peer has not acknowledged to it.   *)
Window(e) == unackedChunks[e] \o newChunks[e]

(* The deques are what AckChunks, the nak arithmetic and the asserts of    *)
(* ProcessRawPacket take them for: consecutive numbers, up to the last     *)
(* chunk created, with the data the chunk was created with.                *)
WindowContiguous ==
  \A e \in Ends :
    /\ Len(created[e]) = currentPacketChunkNum[e]
    /\ \A i \in 1..Len(Window(e)) :
         /\ Window(e)[i].num = currentPacketChunkNum[e] - Len(Window(e)) + i - 1
         /\ Window(e)[i].data = created[e][Window(e)[i].num + 1]

(* What was acknowledged was received: an end never forgets a chunk its    *)
(* peer has not processed, so every loss can still be repaired.            *)
AckedWasProcessed ==
  \A e \in Ends :
    currentPacketChunkNum[e] - Len(Window(e)) =< lastInOrder[Peer(e)] + 1

(* A request to repeat a chunk does not outlive its acknowledgement.       *)
ResendsAreUnacked ==
  \A e \in Ends : resendRequested[e] \subseteq ToSet(unackedChunks[e])

(* The chunks an end has processed are, in order and each once, the first  *)
(* chunks its peer created, whatever the network lost, repeated and        *)
(* reordered.                                                              *)
ChunksInOrder ==
  \A e \in Ends : IsPrefix(processed[e], created[Peer(e)])

(* The waiting chunks lie ahead of a gap: none could be processed now, and *)
(* none was before.                                                        *)
WaitingAheadOfGap ==
  \A e \in Ends : \A c \in waitingPackets[e] : c.num > lastInOrder[e] + 1

(* The connection is a reliable channel of messages. *)
AllMessages ==
  UNION {{MessageUnits(i, Messages[e][i]) : i \in 1..Len(Messages[e])} : e \in Ends}

Channel ==
  INSTANCE ReliableChannel WITH
    Message  <- AllMessages,
    accepted <- [e \in Ends |->
                   [i \in 1..numSent[e] |-> MessageUnits(i, Messages[e][i])]]

(* What GetData returns at one end is, in order, what SendData was given   *)
(* at the other.                                                           *)
IsReliable == Channel!Spec

(* ... and all of it comes, when both ends have something to send.         *)
IsLive == Channel!FairSpec

(* The asserts of ProcessRawPacket: the chunk found at the position of a   *)
(* reported loss is the chunk that was lost.                               *)
NakPositionAssert ==
  \A e \in Ends : \A pkt \in net[e] :
    LET unacked == AfterAck(e, pkt)
    IN  (~Superfluous(e, pkt) /\ NakInRange(unacked, pkt)) =>
          \A i \in Losses(pkt) :
            UnAckPos(unacked, pkt, i) < Len(unacked) =>
              unacked[UnAckPos(unacked, pkt, i) + 1].num = pkt.ack + 1 + i
================================================================================
