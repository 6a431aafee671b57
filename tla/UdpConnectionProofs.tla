-------------------------- MODULE UdpConnectionProofs --------------------------
(***************************************************************************)
(* Proofs about UdpConnection, for every number and size of messages, every *)
(* chunk, packet and list limit and every network: the chunks an end has   *)
(* processed are the first its peer created, and what an end has forgotten *)
(* its peer has processed.                                                 *)
(***************************************************************************)
EXTENDS UdpConnection, SequenceTheorems, FiniteSetTheorems, TLAPS

(* The chunks end e created, as they were created. *)
Genuine(e) ==
  {c \in Chunk : c.num < Len(created[e]) /\ c.data = created[e][c.num + 1]}

(* The types of the variables the chunks travel through; those of the      *)
(* messages made of them (fragmentBuffer, msgQueue, taken) are left out.   *)
ChunkTypes ==
  /\ outgoingData \in [Ends -> Seq(Units)]
  /\ newChunks \in [Ends -> Seq(Chunk)]
  /\ unackedChunks \in [Ends -> Seq(Chunk)]
  /\ resendRequested \in [Ends -> SUBSET Chunk]
  /\ currentPacketChunkNum \in [Ends -> Nat]
  /\ lastInOrder \in [Ends -> Nat \cup {-1}]
  /\ waitingPackets \in [Ends -> SUBSET Chunk]
  /\ net \in [Ends -> SUBSET Datagram]
  /\ created \in [Ends -> Seq(Seq(Units))]
  /\ processed \in [Ends -> Seq(Seq(Units))]
  /\ numSent \in [Ends -> Nat]
  /\ DOMAIN msgQueue = Ends /\ DOMAIN taken = Ends

(* ChunksInOrder, with the place of lastInOrder in it. *)
ProcessedInOrder ==
  \A e \in Ends :
    /\ Len(processed[e]) = lastInOrder[e] + 1
    /\ Len(processed[e]) =< Len(created[Peer(e)])
    /\ \A i \in 1..Len(processed[e]) : processed[e][i] = created[Peer(e)][i]

WaitingGenuine ==
  \A e \in Ends :
    /\ IsFiniteSet(waitingPackets[e])
    /\ waitingPackets[e] \subseteq Genuine(Peer(e))

(* No datagram acknowledges more than its sender has processed, and none   *)
(* carries a chunk that could be taken for another: the chunk 0 of a       *)
(* reconnection attempt only travels when the server has had its chunk 0.  *)
NetGenuine ==
  \A e \in Ends : \A pkt \in net[e] :
    /\ pkt.ack =< lastInOrder[Peer(e)]
    /\ \A c \in ToSet(pkt.chunks) : c \in Genuine(Peer(e)) \/ c.num =< lastInOrder[e]

(* The server only has something to send once it has been connected to.    *)
ServerSilentUntilOpened ==
  lastInOrder[Peer(Client)] = -1 =>
    /\ outgoingData[Peer(Client)] = <<>> /\ created[Peer(Client)] = <<>>
    /\ msgQueue[Peer(Client)] = <<>> /\ taken[Peer(Client)] = <<>>

Inductive ==
  /\ ChunkTypes
  /\ WindowContiguous /\ AckedWasProcessed /\ ResendsAreUnacked
  /\ ProcessedInOrder /\ WaitingGenuine /\ WaitingAheadOfGap
  /\ NetGenuine /\ ServerSilentUntilOpened
--------------------------------------------------------------------------------
(* Numbers and sequences. *)

(* A set of naturals has a least element. *)
LEMMA LeastNat ==
  ASSUME NEW T, T \subseteq Nat, T # {}
  PROVE  \E x \in T : \A y \in T : x =< y
<1> DEFINE R == OpToRel(<, Nat)
<1>1. IsWellFoundedOn(R, Nat)
  BY NatLessThanWellFounded
<1>2. \A x, y \in Nat : y < x => <<y, x>> \in R
  BY DEF OpToRel
<1> HIDE DEF R
<1>3. PICK x \in T : \A y \in T : ~ (<<y, x>> \in R)
  BY <1>1, WFMin
<1>4. \A y \in T : ~ (y < x)
  BY <1>2, <1>3
<1>5. \A y \in T : x =< y
  BY <1>4
<1> QED
  BY <1>5

(* Products and quotients of naturals are naturals. *)
LEMMA ProductType == \A a, b \in Nat : a * b \in Nat
  BY SMT

(* ... the pieces of n units of a chunk size among them; *)
LEMMA QuotientType == \A a \in Nat, b \in Nat \ {0} : a \div b \in Nat
  BY SMT

(* nothing to cut gives no piece; *)
LEMMA QuotientOfLess == \A b \in Nat \ {0} : (0 + b - 1) \div b = 0
  BY SMT

(* a remainder lies below the divisor. *)
LEMMA RemainderType == \A a \in Int, b \in Nat \ {0} : a % b \in 0..(b - 1)
  BY SMT

(* A function on 1..n is a sequence of length n. *)
LEMMA FunctionIsSeq ==
  ASSUME NEW S, NEW n \in Nat, NEW f \in [1..n -> S]
  PROVE  f \in Seq(S) /\ Len(f) = n
  OBVIOUS

(* The elements of a sequence are those of any set it is a sequence of. *)
LEMMA ToSetType ==
  ASSUME NEW S, NEW s \in Seq(S)
  PROVE  /\ ToSet(s) \subseteq S
         /\ IsFiniteSet(ToSet(s))
         /\ \A x \in ToSet(s) : \E i \in 1..Len(s) : x = s[i]
         /\ \A i \in 1..Len(s) : s[i] \in ToSet(s)
<1>1. IsFiniteSet(1..Len(s))
  BY FS_Interval, LenProperties
<1>2. s \in Surjection(1..Len(s), ToSet(s))
  BY LenProperties DEF Surjection, ToSet
<1>3. IsFiniteSet(ToSet(s))
  BY <1>1, <1>2, FS_Surjection
<1> QED
  BY <1>3, LenProperties, ElementOfSeq DEF ToSet

(* Cutting a sequence of units gives chunks of units. *)
LEMMA CutType ==
  ASSUME NEW S, NEW units \in Seq(S), NEW n \in Nat \ {0}
  PROVE  Cut(units, n) \in Seq(Seq(S))
<1> DEFINE pieces == (Len(units) + n - 1) \div n
           piece(i) == SubSeq(units, (i - 1) * n + 1, LesserOf(i * n, Len(units)))
<1>1. pieces \in Nat
  <2>1. Len(units) + n - 1 \in Nat
    BY LenProperties
  <2> QED
    BY <2>1, QuotientType
<1>2. ASSUME NEW i \in 1..pieces
      PROVE  piece(i) \in Seq(S)
  <2> DEFINE from == (i - 1) * n + 1
             to == LesserOf(i * n, Len(units))
  <2>1. i \in Nat /\ i - 1 \in Nat
    BY <1>1
  <2>2. (i - 1) * n \in Nat /\ i * n \in Nat
    BY <2>1, ProductType
  <2>3. from \in Nat \ {0} /\ to \in Int /\ to =< Len(units)
    BY <2>2, LenProperties DEF LesserOf
  <2> HIDE DEF from, to
  <2>4. \A j \in from..to : units[j] \in S
    BY <2>3, ElementOfSeq
  <2> QED
    BY <2>3, <2>4, SubSeqProperties DEF from, to
<1>3. [i \in 1..pieces |-> piece(i)] \in Seq(Seq(S))
  <2> HIDE DEF pieces, piece
  <2> QED  BY <1>1, <1>2, IsASeq
<1> QED
  BY <1>3 DEF Cut

--------------------------------------------------------------------------------
(* The order in which SendIfNecessary sends. *)

Distinct(chunks) == \A c, d \in chunks : c.num = d.num => c = d

(* ByNumber lists all the chunks of a finite set: the number of chunks     *)
(* before it is another for each.                                          *)
LEMMA ByNumberType ==
  ASSUME NEW chunks \in SUBSET Chunk, IsFiniteSet(chunks), Distinct(chunks)
  PROVE  /\ ByNumber(chunks) \in Seq(chunks)
         /\ Len(ByNumber(chunks)) = Cardinality(chunks)
<1> DEFINE before(c) == {d \in chunks : d.num < c.num}
           n == Cardinality(chunks)
           rank == [c \in chunks |-> Cardinality(before(c))]
<1>1. n \in Nat
  BY FS_CardinalityType
<1>2. \A c \in chunks : c.num \in Nat
  BY DEF Chunk
<1>3. \A c \in chunks : before(c) \in SUBSET chunks /\ c \notin before(c)
  BY <1>2
<1>4. \A c, d \in chunks :
        c.num < d.num => before(c) \subseteq before(d) /\ c \in before(d)
  BY <1>2
<1>5. ByNumber(chunks)
        = [i \in 1..n |-> CHOOSE c \in chunks : Cardinality(before(c)) = i - 1]
  BY DEF ByNumber
<1> HIDE DEF before
<1>6. \A c \in chunks : IsFiniteSet(before(c)) /\ Cardinality(before(c)) \in Nat
  <2> SUFFICES ASSUME NEW c \in chunks
               PROVE  IsFiniteSet(before(c)) /\ Cardinality(before(c)) \in Nat
    OBVIOUS
  <2>1. IsFiniteSet(before(c))
    BY <1>3, FS_Subset
  <2> QED
    BY <2>1, FS_CardinalityType
<1>7. ASSUME NEW c \in chunks, NEW T \in SUBSET chunks,
             before(c) \subseteq T, c \in T
      PROVE  Cardinality(before(c)) < Cardinality(T)
  <2>1. IsFiniteSet(T)
    BY FS_Subset
  <2>2. Cardinality(T) \in Nat
    BY <2>1, FS_CardinalityType
  <2>3. before(c) \in SUBSET T /\ before(c) # T
    BY <1>3, <1>7
  <2>4. /\ Cardinality(before(c)) =< Cardinality(T)
        /\ Cardinality(T) # Cardinality(before(c))
    BY <2>1, <2>3, FS_Subset
  <2>5. Cardinality(before(c)) \in Nat
    BY <1>6
  <2> QED
    BY <2>2, <2>4, <2>5
<1>8. \A c \in chunks : rank[c] \in 0..(n - 1)
  <2> SUFFICES ASSUME NEW c \in chunks
               PROVE  Cardinality(before(c)) \in 0..(n - 1)
    OBVIOUS
  <2>1. Cardinality(before(c)) < n
    BY <1>3, <1>7
  <2>2. Cardinality(before(c)) \in Nat
    BY <1>6
  <2> HIDE DEF n
  <2> QED
    BY <1>1, <2>1, <2>2
<1>9. ASSUME NEW c \in chunks, NEW d \in chunks, c # d
      PROVE  rank[c] # rank[d]
  <2>1. c.num # d.num
    BY <1>9 DEF Distinct
  <2>2. /\ Cardinality(before(c)) \in Nat
        /\ Cardinality(before(d)) \in Nat
    BY <1>6
  <2>3. CASE c.num < d.num
    <3>1. Cardinality(before(c)) < Cardinality(before(d))
      BY <2>3, <1>3, <1>4, <1>7
    <3> QED
      BY <3>1, <2>2
  <2>4. CASE d.num < c.num
    <3>1. Cardinality(before(d)) < Cardinality(before(c))
      BY <2>4, <1>3, <1>4, <1>7
    <3> QED
      BY <3>1, <2>2
  <2> QED
    BY <1>2, <2>1, <2>3, <2>4
<1> HIDE DEF n
<1>10. rank \in Injection(chunks, 0..(n - 1))
  BY <1>8, <1>9 DEF Injection, IsInjective
<1>11. IsFiniteSet(0..(n - 1)) /\ Cardinality(0..(n - 1)) = n
  BY <1>1, FS_Interval
<1>12. rank \in Surjection(chunks, 0..(n - 1))
  BY <1>10, <1>11, FS_Injection DEF n
<1>13. ASSUME NEW i \in 1..n
       PROVE  (CHOOSE c \in chunks : Cardinality(before(c)) = i - 1) \in chunks
  <2>1. i - 1 \in 0..(n - 1)
    BY <1>1
  <2>2. \E c \in chunks : rank[c] = i - 1
    BY <1>12, <2>1 DEF Surjection
  <2> QED
    BY <2>2
<1>14. [i \in 1..n |-> CHOOSE c \in chunks : Cardinality(before(c)) = i - 1]
         \in [1..n -> chunks]
  BY <1>13
<1>15. ByNumber(chunks) \in [1..n -> chunks]
  BY <1>5, <1>14
<1> QED
  BY <1>1, <1>15 DEF n

(* Alternating two lists gives a list of their elements. *)
LEMMA AlternateType ==
  ASSUME NEW S, NEW first \in Seq(S), NEW second \in Seq(S)
  PROVE  Alternate(first, second) \in Seq(S)
<1> DEFINE m == LesserOf(Len(first), Len(second))
           mixed == [i \in 1..(2 * m) |->
                       IF i % 2 = 1 THEN first[(i + 1) \div 2] ELSE second[i \div 2]]
<1>1. /\ m \in Nat /\ m =< Len(first) /\ m =< Len(second)
      /\ Len(first) \in Nat /\ Len(second) \in Nat
  BY LenProperties DEF LesserOf
<1> HIDE DEF m
<1>2. mixed \in Seq(S)
  <2>1. \A i \in 1..(2 * m) :
          /\ i % 2 = 1 => (i + 1) \div 2 \in 1..m
          /\ i % 2 # 1 => i \div 2 \in 1..m
    BY <1>1
  <2>2. \A j \in 1..m : first[j] \in S /\ second[j] \in S
    BY <1>1, ElementOfSeq
  <2>3. 2 * m \in Nat
    BY <1>1
  <2> QED
    BY <2>1, <2>2, <2>3
<1>3. /\ SubSeq(first, m + 1, Len(first)) \in Seq(S)
      /\ SubSeq(second, m + 1, Len(second)) \in Seq(S)
  <2>1. \A j \in (m + 1)..Len(first) : first[j] \in S
    BY <1>1, ElementOfSeq
  <2>2. \A j \in (m + 1)..Len(second) : second[j] \in S
    BY <1>1, ElementOfSeq
  <2> QED
    BY <1>1, <2>1, <2>2, SubSeqProperties
<1> HIDE DEF mixed
<1>4. mixed \o SubSeq(first, m + 1, Len(first)) \in Seq(S)
  BY <1>2, <1>3, ConcatProperties
<1> QED
  BY <1>3, <1>4, ConcatProperties DEF Alternate, m, mixed

(* The rotation through the middle of a list stays in the middle. *)
LEMMA MidPickType ==
  ASSUME NEW S, NEW list \in Seq(S), NEW mid, NEW k \in Int,
         MidStart(list) \in Nat, MidStop(list) \in Nat,
         MidStart(list) < MidStop(list)
  PROVE  MidPick(list, mid, k) \in (MidStart(list) + 1)..MidStop(list)
<1> DEFINE ahead == {i \in 1..Len(list) : list[i].num > MidBefore(list, mid)}
<1>1. ahead # {} => Min(ahead) \in Nat
  <2> SUFFICES ASSUME ahead # {}
               PROVE  Min(ahead) \in Nat
    OBVIOUS
  <2>1. ahead \subseteq Nat
    OBVIOUS
  <2> HIDE DEF ahead
  <2>2. \E x \in ahead : \A y \in ahead : x =< y
    BY <2>1, LeastNat
  <2> QED
    BY <2>1, <2>2 DEF Min
<1> HIDE DEF ahead
<1>2. MidFirst(list, mid) \in Int
  <2>1. MidFirst(list, mid)
          = IF \/ ahead = {} \/ MidStop(list) = Len(list)
               \/ Min(ahead) > MidStop(list)
            THEN MidStart(list) ELSE Min(ahead) - 1
    BY DEF MidFirst, ahead
  <2> QED
    BY <1>1, <2>1
<1> DEFINE d == MidStop(list) - MidStart(list)
           r == (MidFirst(list, mid) - MidStart(list) + k) % d
<1>3. d \in Nat \ {0} /\ MidFirst(list, mid) - MidStart(list) + k \in Int
  BY <1>2
<1> HIDE DEF d
<1>4. r \in 0..(d - 1)
  BY <1>3, RemainderType
<1>5. MidPick(list, mid, k) = MidStart(list) + 1 + r
  BY DEF MidPick, d
<1> HIDE DEF r
<1> QED
  BY <1>3, <1>4, <1>5 DEF d

(* What a lossy connection repeats is taken from the list. *)
LEMMA LossyPicksType ==
  ASSUME NEW S, NEW list \in Seq(S), NEW mid
  PROVE  LossyPicks(list, mid) \in Seq(S)
<1> DEFINE n == LossyCount(list)
           turn(j) == (j - 1) % 4
           round(j) == (j - 1) \div 4
           place(j) == CASE turn(j) = 0 -> round(j) + 1
                         [] turn(j) = 1 -> Len(list) - round(j)
                         [] OTHER -> MidPick(list, mid, 2 * round(j) + turn(j) - 2)
<1>1. Len(list) \in Nat
  BY LenProperties
<1>2. ResendPerFactor * NetLossFactor \in Nat
  <2>1. ResendPerFactor \in Nat /\ NetLossFactor \in Nat
    BY UdpAssumption
  <2> QED
    BY <2>1, ProductType
<1>3. n \in Nat /\ n =< Len(list)
  BY <1>1, <1>2 DEF LossyCount, LesserOf
<1>4. /\ MidStart(list) = (n + 3) \div 4
      /\ MidStop(list) = Len(list) - (n + 2) \div 4
  BY DEF MidStart, MidStop
<1> HIDE DEF n
<1>5. ASSUME NEW j \in 1..n
      PROVE  place(j) \in 1..Len(list)
  <2>1. turn(j) \in 0..3 /\ round(j) \in Nat /\ j = 4 * round(j) + turn(j) + 1
    BY <1>3
  <2> HIDE DEF turn, round
  <2>2. CASE turn(j) = 0
    BY <2>1, <2>2, <1>1, <1>3
  <2>3. CASE turn(j) = 1
    BY <2>1, <2>3, <1>1, <1>3
  <2>4. CASE turn(j) \in {2, 3}
    <3>1. n >= 3
      BY <2>1, <2>4, <1>3
    <3>2. /\ MidStart(list) \in Nat /\ MidStop(list) \in Nat
          /\ MidStart(list) < MidStop(list) /\ MidStop(list) =< Len(list)
      BY <3>1, <1>1, <1>3, <1>4
    <3>3. 2 * round(j) + turn(j) - 2 \in Int
      BY <2>1
    <3>4. MidPick(list, mid, 2 * round(j) + turn(j) - 2)
            \in (MidStart(list) + 1)..MidStop(list)
      BY <3>2, <3>3, MidPickType
    <3>5. place(j) = MidPick(list, mid, 2 * round(j) + turn(j) - 2)
      BY <2>4
    <3> QED
      BY <3>2, <3>4, <3>5, <1>1
  <2> QED
    BY <2>1, <2>2, <2>3, <2>4
<1>6. LossyPicks(list, mid) = [j \in 1..n |-> list[place(j)]]
  BY DEF LossyPicks, n
<1> HIDE DEF place
<1>7. [j \in 1..n |-> list[place(j)]] \in [1..n -> S]
  BY <1>5, ElementOfSeq
<1>8. LossyPicks(list, mid) \in [1..n -> S]
  BY <1>6, <1>7
<1> QED
  BY <1>3, <1>8

(* Whatever is due goes out in some order, and only that. *)
LEMMA AgendaType ==
  ASSUME NEW S \in SUBSET Chunk, NEW e \in Ends, NEW requested \in SUBSET S,
         IsFiniteSet(requested), Distinct(requested),
         NEW new \in Seq(S), NEW toggle
  PROVE  Agenda(Repeats(e, requested), new, toggle) \in Seq(S)
<1>1. ByNumber(requested) \in Seq(S)
  BY ByNumberType, SeqMonotonic
<1>2. Repeats(e, requested) \in Seq(S)
  BY <1>1, LossyPicksType DEF Repeats
<1> QED
  BY <1>2, AlternateType DEF Agenda

--------------------------------------------------------------------------------
(* What ProcessRawPacket drops and processes. *)

(* From consecutive chunks AckChunks drops exactly those up to the         *)
(* acknowledged one.                                                       *)
LEMMA NumAckedChoice ==
  ASSUME NEW chunks \in Seq(Chunk), NEW base \in Int, NEW ack \in Int,
         \A i \in 1..Len(chunks) : chunks[i].num = base + i - 1
  PROVE  /\ NumAcked(chunks, ack) \in 0..Len(chunks)
         /\ \A i \in 1..NumAcked(chunks, ack) : chunks[i].num =< ack
         /\ NumAcked(chunks, ack) < Len(chunks) =>
              chunks[NumAcked(chunks, ack) + 1].num > ack
<1>1. Len(chunks) \in Nat
  BY LenProperties
<1>2. \E n \in 0..Len(chunks) :
        /\ \A i \in 1..n : chunks[i].num =< ack
        /\ n < Len(chunks) => chunks[n + 1].num > ack
  <2>1. CASE ack < base
    BY <2>1, <1>1
  <2>2. CASE ack - base + 1 \in 0..Len(chunks)
    <3> DEFINE k == ack - base + 1
    <3>1. ASSUME NEW i \in 1..k
          PROVE  chunks[i].num =< ack
      <4>1. i \in 1..Len(chunks) /\ base + i - 1 =< ack
        BY <2>2, <1>1
      <4> QED
        BY <4>1
    <3>2. ASSUME k < Len(chunks)
          PROVE  chunks[k + 1].num = base + k
      <4>1. k + 1 \in 1..Len(chunks)
        BY <3>2, <2>2, <1>1
      <4>2. chunks[k + 1].num = base + (k + 1) - 1
        BY <4>1
      <4> QED
        BY <4>2
    <3>3. base + k > ack
      OBVIOUS
    <3>4. k \in 0..Len(chunks) /\ (k < Len(chunks) => chunks[k + 1].num > ack)
      BY <2>2, <3>2, <3>3
    <3> HIDE DEF k
    <3> QED
      BY <3>1, <3>4
  <2>3. CASE ack - base + 1 > Len(chunks)
    BY <2>3, <1>1
  <2> QED
    BY <2>1, <2>2, <2>3, <1>1
<1> QED
  BY <1>2 DEF NumAcked

(* The run of chunks right after n ends before the first one missing.      *)
LEMMA EndOfRunChoice ==
  ASSUME NEW chunks \in SUBSET Chunk, IsFiniteSet(chunks), NEW n \in Int
  PROVE  /\ EndOfRun(n, chunks) \in Int /\ EndOfRun(n, chunks) >= n
         /\ (n + 1)..EndOfRun(n, chunks) \subseteq Nums(chunks)
         /\ EndOfRun(n, chunks) + 1 \notin Nums(chunks)
<1> DEFINE size == Cardinality(chunks)
           missing == {k \in Nat : n + 1 + k \notin Nums(chunks)}
<1>1. size \in Nat
  BY FS_CardinalityType
<1>2. \E k \in 0..size : n + 1 + k \notin Nums(chunks)
  <2> SUFFICES ASSUME \A k \in 0..size : n + 1 + k \in Nums(chunks)
               PROVE  FALSE
    OBVIOUS
  <2> DEFINE place == [k \in 0..size |-> CHOOSE c \in chunks : c.num = n + 1 + k]
  <2>1. \A k \in 0..size : place[k] \in chunks /\ place[k].num = n + 1 + k
    BY DEF Nums
  <2>2. place \in Injection(0..size, chunks)
    <3>1. place \in [0..size -> chunks]
      BY <2>1
    <3>2. \A j, k \in 0..size : place[j] = place[k] => j = k
      BY <2>1, <1>1
    <3> QED
      BY <3>1, <3>2 DEF Injection, IsInjective
  <2>3. Cardinality(0..size) = size + 1
    BY <1>1, FS_Interval
  <2>4. Cardinality(0..size) =< size
    BY <2>2, FS_Injection
  <2> QED
    BY <2>3, <2>4, <1>1
<1>3. PICK k \in missing : \A j \in missing : k =< j
  <2>1. PICK j \in 0..size : n + 1 + j \notin Nums(chunks)
    BY <1>2
  <2>2. j \in missing
    BY <2>1, <1>1
  <2>3. missing \subseteq Nat /\ missing # {}
    BY <2>2
  <2> HIDE DEF missing
  <2> QED
    BY <2>3, LeastNat
<1>4. /\ k =< size /\ n + k + 1 \notin Nums(chunks)
      /\ (n + 1)..(n + k) \subseteq Nums(chunks)
  <2>1. k \in Nat /\ n + 1 + k \notin Nums(chunks)
    BY <1>3
  <2>2. PICK j \in 0..size : n + 1 + j \notin Nums(chunks)
    BY <1>2
  <2>3. j \in missing /\ j =< size
    BY <2>2, <1>1
  <2>4. k =< size
    BY <2>1, <2>3, <1>1, <1>3
  <2>5. ASSUME NEW m \in (n + 1)..(n + k)
        PROVE  m \in Nums(chunks)
    <3>1. m - n - 1 \in Nat /\ m - n - 1 < k /\ n + 1 + (m - n - 1) = m
      BY <2>1
    <3>2. \A j1 \in missing : ~ (j1 < k)
      <4>1. \A j1 \in missing : j1 \in Nat
        OBVIOUS
      <4> HIDE DEF missing
      <4> QED
        BY <4>1, <2>1, <1>3
    <3>3. m - n - 1 \notin missing
      BY <3>1, <3>2
    <3> QED
      BY <3>1, <3>3
  <2> QED
    BY <2>1, <2>4, <2>5
<1>5. \E m \in n..(n + size) :
        (n + 1)..m \subseteq Nums(chunks) /\ m + 1 \notin Nums(chunks)
  <2>1. n + k \in n..(n + size)
    BY <1>1, <1>3, <1>4
  <2> QED
    BY <2>1, <1>4
<1> HIDE DEF missing
<1> QED
  BY <1>1, <1>5 DEF EndOfRun

--------------------------------------------------------------------------------
(* The steps that leave the chunks alone. *)

(* There are two ends, each the peer of the other. *)
LEMMA EndsFacts ==
  /\ Ends = {1, 2} /\ Client = 1 /\ Client \in Ends /\ Peer(Client) = 2
  /\ \A e \in Ends : Peer(e) \in Ends /\ Peer(e) # e /\ Peer(Peer(e)) = e
  /\ \A e, x \in Ends : x # e => x = Peer(e)
  BY DEF Ends, Client, Peer

(* A fresh connection has no chunks anywhere. *)
LEMMA InitInductive == Init => Inductive
<1> SUFFICES ASSUME Init
             PROVE  Inductive
  OBVIOUS
<1> USE EndsFacts DEF Init
<1>1. ChunkTypes
  BY DEF ChunkTypes
<1>2. \A e \in Ends : Window(e) = <<>> /\ Len(Window(e)) = 0
  BY DEF Window
<1>3. WindowContiguous /\ AckedWasProcessed
  BY <1>2 DEF WindowContiguous, AckedWasProcessed
<1>4. ResendsAreUnacked /\ ProcessedInOrder /\ WaitingAheadOfGap
  BY DEF ResendsAreUnacked, ProcessedInOrder, WaitingAheadOfGap
<1>5. WaitingGenuine /\ NetGenuine /\ ServerSilentUntilOpened
  BY FS_EmptySet DEF WaitingGenuine, NetGenuine, ServerSilentUntilOpened
<1> QED
  BY <1>1, <1>3, <1>4, <1>5 DEF Inductive

(* the variables that say which chunks there are and who has them *)
chunkVars ==
  <<newChunks, unackedChunks, resendRequested, currentPacketChunkNum, created,
    lastInOrder, waitingPackets, processed>>

(* When no chunk moves, what is said of the chunks alone stays true. *)
LEMMA ChunksUntouched ==
  ASSUME Inductive, UNCHANGED chunkVars
  PROVE  /\ WindowContiguous' /\ AckedWasProcessed' /\ ResendsAreUnacked'
         /\ ProcessedInOrder' /\ WaitingGenuine' /\ WaitingAheadOfGap'
         /\ \A e \in Ends : Genuine(e)' = Genuine(e)
<1> USE DEF chunkVars, Inductive
<1>1. \A e \in Ends : Genuine(e)' = Genuine(e)
  BY DEF Genuine
<1>2. \A e \in Ends : Window(e)' = Window(e)
  BY DEF Window
<1>3. WindowContiguous' /\ AckedWasProcessed'
  BY <1>2 DEF WindowContiguous, AckedWasProcessed
<1>4. ResendsAreUnacked' /\ ProcessedInOrder' /\ WaitingAheadOfGap'
  BY DEF ResendsAreUnacked, ProcessedInOrder, WaitingAheadOfGap
<1>5. WaitingGenuine'
  BY EndsFacts, <1>1 DEF WaitingGenuine
<1> QED
  BY <1>1, <1>3, <1>4, <1>5

(* Unmute, Lose and stuttering *)
LEMMA NoChunkStep ==
  ASSUME Inductive, UNCHANGED <<sender, receiver, numSent, taken>>,
         net' \in [Ends -> SUBSET Datagram],
         \A e \in Ends : net'[e] \subseteq net[e]
  PROVE  Inductive'
<1>1. /\ UNCHANGED chunkVars
      /\ UNCHANGED <<outgoingData, msgQueue, taken, numSent>>
  BY DEF sender, receiver, chunkVars
<1>2. ChunkTypes'
  BY <1>1 DEF Inductive, ChunkTypes, chunkVars
<1>3. \A e \in Ends : Genuine(e)' = Genuine(e)
  BY <1>1, ChunksUntouched
<1>4. NetGenuine'
  <2> SUFFICES ASSUME NEW e \in Ends, NEW pkt \in net'[e]
               PROVE  /\ pkt.ack =< lastInOrder'[Peer(e)]
                      /\ \A c \in ToSet(pkt.chunks) :
                           c \in Genuine(Peer(e))' \/ c.num =< lastInOrder'[e]
    BY DEF NetGenuine
  <2> QED
    BY <1>1, <1>3, EndsFacts DEF Inductive, NetGenuine, chunkVars
<1>5. ServerSilentUntilOpened'
  BY <1>1 DEF Inductive, ServerSilentUntilOpened, chunkVars
<1> QED
  BY <1>1, <1>2, <1>4, <1>5, ChunksUntouched DEF Inductive

(* A message is a sequence of units. *)
LEMMA MessageUnitsType ==
  ASSUME NEW i \in Nat, NEW size \in Nat
  PROVE  MessageUnits(i, size) \in Seq(Units)
<1>1. \A k \in 1..size : [msg |-> i, pos |-> k, last |-> k = size] \in Units
  BY DEF Units
<1>2. MessageUnits(i, size) \in [1..size -> Units]
  BY <1>1 DEF MessageUnits
<1> QED
  BY <1>2

(* SendData only adds to outgoingData. *)
LEMMA SendDataStep ==
  ASSUME Inductive, NEW e \in Ends, SendData(e)
  PROVE  Inductive'
<1>1. /\ UNCHANGED chunkVars /\ UNCHANGED <<net, msgQueue, taken>>
      /\ numSent[e] < Len(Messages[e])
      /\ numSent' = [numSent EXCEPT ![e] = @ + 1]
      /\ outgoingData' = [outgoingData EXCEPT ![e] =
           @ \o MessageUnits(numSent'[e], Messages[e][numSent'[e]])]
  BY DEF SendData, receiver, chunkVars
<1>2. ChunkTypes'
  <2>1. numSent[e] \in Nat /\ numSent'[e] = numSent[e] + 1
    BY <1>1 DEF Inductive, ChunkTypes
  <2>2. Messages[e] \in Seq(Nat \ {0})
    BY UdpAssumption
  <2>3. numSent'[e] \in 1..Len(Messages[e])
    BY <1>1, <2>1, <2>2, LenProperties
  <2>4. Messages[e][numSent'[e]] \in Nat
    BY <2>2, <2>3, ElementOfSeq
  <2>5. outgoingData[e] \o MessageUnits(numSent'[e], Messages[e][numSent'[e]])
          \in Seq(Units)
    <3>1. MessageUnits(numSent'[e], Messages[e][numSent'[e]]) \in Seq(Units)
      <4>1. numSent'[e] \in Nat
        BY <2>1
      <4> HIDE <2>1, <2>3
      <4> QED
        BY <4>1, <2>4, MessageUnitsType
    <3>2. outgoingData[e] \in Seq(Units)
      BY DEF Inductive, ChunkTypes
    <3> QED
      BY <3>1, <3>2, ConcatProperties
  <2> QED
    BY <1>1, <2>5 DEF Inductive, ChunkTypes, chunkVars
<1>3. \A x \in Ends : Genuine(x)' = Genuine(x)
  BY <1>1, ChunksUntouched
<1>4. NetGenuine'
  BY <1>1, <1>3, EndsFacts DEF Inductive, NetGenuine, chunkVars
<1>5. ServerSilentUntilOpened'
  <2>1. e = Client \/ taken[e] # <<>>
    BY DEF SendData, MaySend
  <2>2. lastInOrder[Peer(Client)] = -1 => e = Client
    BY <2>1, EndsFacts DEF Inductive, ServerSilentUntilOpened
  <2> QED
    BY <1>1, <2>2, EndsFacts
    DEF Inductive, ServerSilentUntilOpened, chunkVars, ChunkTypes
<1> QED
  BY <1>1, <1>2, <1>4, <1>5, ChunksUntouched DEF Inductive

(* GetData only takes a complete message. *)
LEMMA GetDataStep ==
  ASSUME Inductive, NEW e \in Ends, GetData(e)
  PROVE  Inductive'
<1>1. /\ UNCHANGED chunkVars /\ UNCHANGED <<outgoingData, net, numSent>>
      /\ msgQueue[e] # <<>>
      /\ taken' = [taken EXCEPT ![e] = Append(@, Head(msgQueue[e]))]
      /\ msgQueue' = [msgQueue EXCEPT ![e] = Tail(@)]
  BY DEF GetData, sender, chunkVars
<1>2. ChunkTypes'
  BY <1>1 DEF Inductive, ChunkTypes, chunkVars
<1>3. \A x \in Ends : Genuine(x)' = Genuine(x)
  BY <1>1, ChunksUntouched
<1>4. NetGenuine'
  BY <1>1, <1>3, EndsFacts DEF Inductive, NetGenuine, chunkVars
<1>5. ServerSilentUntilOpened'
  <2>1. lastInOrder[Peer(Client)] = -1 => e # Peer(Client)
    BY <1>1 DEF Inductive, ServerSilentUntilOpened
  <2> QED
    BY <1>1, <2>1, EndsFacts
    DEF Inductive, ServerSilentUntilOpened, chunkVars, ChunkTypes
<1> QED
  BY <1>1, <1>2, <1>4, <1>5, ChunksUntouched DEF Inductive

(* The chunk 0 of a reconnection attempt is one the server has had. *)
LEMMA AttemptReconnectStep ==
  ASSUME Inductive, AttemptReconnect
  PROVE  Inductive'
<1>1. /\ UNCHANGED chunkVars /\ UNCHANGED <<outgoingData, msgQueue, taken, numSent>>
      /\ lastInOrder[Client] >= 0
      /\ net' = [net EXCEPT ![Peer(Client)] = @ \cup {ReconnectPacket}]
  BY DEF AttemptReconnect, sender, receiver, chunkVars
<1>2. /\ ReconnectPacket \in Datagram
      /\ ReconnectPacket.ack = -1
      /\ \A c \in ToSet(ReconnectPacket.chunks) : c.num = 0
  <2>1. [msg |-> 0, pos |-> 1, last |-> TRUE] \in Units
    BY DEF Units
  <2>2. ReconnectData \in Seq(Units)
    BY <2>1 DEF ReconnectData
  <2>3. [num |-> 0, data |-> ReconnectData] \in Chunk
    BY <2>2 DEF Chunk
  <2> QED
    BY <2>3 DEF ReconnectPacket, Datagram, ToSet
<1>3. ChunkTypes'
  BY <1>1, <1>2, EndsFacts DEF Inductive, ChunkTypes, chunkVars
<1>4. lastInOrder[Peer(Client)] >= 0
  <2>1. /\ Len(processed[Client]) = lastInOrder[Client] + 1
        /\ Len(processed[Client]) =< Len(created[Peer(Client)])
    BY EndsFacts DEF Inductive, ProcessedInOrder
  <2>2. Len(created[Peer(Client)]) \in Nat /\ lastInOrder[Client] \in Int
    BY EndsFacts, LenProperties DEF Inductive, ChunkTypes
  <2>3. Len(created[Peer(Client)]) >= 1
    BY <1>1, <2>1, <2>2
  <2>4. created[Peer(Client)] # <<>>
    BY <2>3
  <2>5. lastInOrder[Peer(Client)] # -1
    BY <2>4 DEF Inductive, ServerSilentUntilOpened
  <2> QED
    BY <2>5, EndsFacts DEF Inductive, ChunkTypes
<1>5. \A x \in Ends : Genuine(x)' = Genuine(x)
  BY <1>1, ChunksUntouched
<1>6. NetGenuine'
  <2> SUFFICES ASSUME NEW e \in Ends, NEW pkt \in net'[e]
               PROVE  /\ pkt.ack =< lastInOrder[Peer(e)]
                      /\ \A c \in ToSet(pkt.chunks) :
                           c \in Genuine(Peer(e)) \/ c.num =< lastInOrder[e]
    BY <1>1, <1>5, EndsFacts DEF NetGenuine, chunkVars
  <2>1. CASE pkt \in net[e]
    BY <2>1 DEF Inductive, NetGenuine
  <2>2. CASE e = Peer(Client) /\ pkt = ReconnectPacket
    <3>1. Peer(e) = Client
      BY <2>2, EndsFacts
    <3>2. \A c \in ToSet(pkt.chunks) : c.num =< lastInOrder[e]
      BY <1>2, <1>4, <2>2
    <3> QED
      BY <1>1, <1>2, <2>2, <3>1, <3>2, EndsFacts DEF Inductive, ChunkTypes
  <2> QED
    BY <1>1, <2>1, <2>2, EndsFacts DEF Inductive, ChunkTypes
<1>7. ServerSilentUntilOpened'
  BY <1>1 DEF Inductive, ServerSilentUntilOpened, chunkVars
<1> QED
  BY <1>1, <1>3, <1>6, <1>7, ChunksUntouched DEF Inductive

--------------------------------------------------------------------------------
(* Flush, Update and Close. *)

(* The chunks of a sender are the last ones it created. *)
IsWindow(chunks, next, data) ==
  \A i \in 1..Len(chunks) :
    /\ chunks[i].num = next - Len(chunks) + i - 1
    /\ chunks[i].data = data[chunks[i].num + 1]

(* The chunks made of new data, numbered from next on. *)
AreFresh(fresh, next, data) ==
  /\ Len(fresh) = Len(data)
  /\ \A i \in 1..Len(data) : fresh[i].num = next + i - 1 /\ fresh[i].data = data[i]

(* The elements of a concatenation. *)
LEMMA ConcatAt ==
  ASSUME NEW S, NEW s \in Seq(S), NEW t \in Seq(S)
  PROVE  /\ s \o t \in Seq(S)
         /\ Len(s) \in Nat /\ Len(t) \in Nat /\ Len(s \o t) = Len(s) + Len(t)
         /\ \A i \in 1..Len(s) : (s \o t)[i] = s[i]
         /\ \A i \in 1..Len(t) : (s \o t)[Len(s) + i] = t[i]
  BY ConcatProperties, LenProperties

(* They extend the window. *)
LEMMA WindowGrows ==
  ASSUME NEW chunks \in Seq(Chunk), NEW fresh \in Seq(Chunk),
         NEW old \in Seq(Seq(Units)), NEW data \in Seq(Seq(Units)),
         IsWindow(chunks, Len(old), old), AreFresh(fresh, Len(old), data)
  PROVE  IsWindow(chunks \o fresh, Len(old \o data), old \o data)
<1> DEFINE all == chunks \o fresh
           grown == old \o data
           c == Len(chunks)
           f == Len(fresh)
           o == Len(old)
<1>1. /\ c \in Nat /\ f \in Nat /\ Len(all) = c + f
      /\ \A i \in 1..c : all[i] = chunks[i]
      /\ \A i \in 1..f : all[c + i] = fresh[i]
  BY ConcatAt
<1>2. /\ o \in Nat /\ Len(data) = f /\ Len(grown) = o + f
      /\ \A i \in 1..o : grown[i] = old[i]
      /\ \A i \in 1..f : grown[o + i] = data[i]
  BY ConcatAt DEF AreFresh
<1>3. \A i \in 1..c : chunks[i] \in Chunk
  BY ElementOfSeq
<1>4. \A i \in 1..c : /\ chunks[i].num = o - c + i - 1
                      /\ chunks[i].data = old[chunks[i].num + 1]
  BY DEF IsWindow
<1>5. \A i \in 1..f : /\ fresh[i].num = o + i - 1
                      /\ fresh[i].data = data[i]
  BY <1>2 DEF AreFresh
<1> HIDE DEF all, grown, c, f, o
<1>6. ASSUME NEW i \in 1..c
      PROVE  /\ all[i].num = o - c + i - 1
             /\ all[i].data = grown[all[i].num + 1]
  <2>1. /\ all[i] = chunks[i]
        /\ chunks[i].num = o - c + i - 1
        /\ chunks[i].data = old[chunks[i].num + 1]
    BY <1>1, <1>4
  <2>2. chunks[i].num \in Nat
    BY <1>3 DEF Chunk
  <2>3. chunks[i].num + 1 \in 1..o
    BY <2>1, <2>2, <1>1, <1>2
  <2>4. grown[chunks[i].num + 1] = old[chunks[i].num + 1]
    BY <2>3, <1>2
  <2> QED
    BY <2>1, <2>4
<1>7. ASSUME NEW i \in 1..f
      PROVE  /\ all[c + i].num = o - c + (c + i) - 1
             /\ all[c + i].data = grown[all[c + i].num + 1]
  <2>1. /\ all[c + i] = fresh[i]
        /\ fresh[i].num = o + i - 1
        /\ fresh[i].data = data[i]
    BY <1>1, <1>5
  <2>2. grown[o + i] = data[i]
    BY <1>2
  <2>3. /\ o + i - 1 + 1 = o + i
        /\ o + i - 1 = o - c + (c + i) - 1
    BY <1>1, <1>2
  <2> QED
    BY <2>1, <2>2, <2>3
<1>8. ASSUME NEW i \in 1..Len(all)
      PROVE  /\ all[i].num = o - c + i - 1
             /\ all[i].data = grown[all[i].num + 1]
  <2>1. CASE i =< c
    BY <2>1, <1>1, <1>6
  <2>2. CASE i > c
    <3>1. i - c \in 1..f /\ c + (i - c) = i
      BY <2>2, <1>1
    <3> QED
      BY <3>1, <1>7
  <2> QED
    BY <2>1, <2>2, <1>1
<1>9. Len(grown) - Len(all) = o - c
  BY <1>1, <1>2
<1>10. IsWindow(all, Len(grown), grown)
  BY <1>8, <1>9 DEF IsWindow
<1> QED
  BY <1>10 DEF all, grown

(* The invariant's view of the window of an end. *)
LEMMA WindowOf ==
  ASSUME Inductive, NEW e \in Ends
  PROVE  /\ Window(e) \in Seq(Chunk)
         /\ IsWindow(Window(e), Len(created[e]), created[e])
         /\ Len(created[e]) = currentPacketChunkNum[e]
<1>1. unackedChunks[e] \in Seq(Chunk) /\ newChunks[e] \in Seq(Chunk)
  BY DEF Inductive, ChunkTypes
<1>2. Window(e) \in Seq(Chunk)
  BY <1>1, ConcatProperties DEF Window
<1> QED
  BY <1>2 DEF Inductive, WindowContiguous, IsWindow

(* The chunks of a window are what was created, and have distinct numbers. *)
LEMMA WindowChunks ==
  ASSUME NEW chunks \in Seq(Chunk), NEW data \in Seq(Seq(Units)),
         IsWindow(chunks, Len(data), data)
  PROVE  /\ ToSet(chunks) \subseteq
              {c \in Chunk : c.num < Len(data) /\ c.data = data[c.num + 1]}
         /\ Distinct(ToSet(chunks))
<1>1. Len(chunks) \in Nat /\ Len(data) \in Nat
  BY LenProperties
<1>2. \A i \in 1..Len(chunks) :
        /\ chunks[i] \in Chunk
        /\ chunks[i].num = Len(data) - Len(chunks) + i - 1
        /\ chunks[i].data = data[chunks[i].num + 1]
  BY ElementOfSeq DEF IsWindow
<1>3. \A c \in ToSet(chunks) : \E i \in 1..Len(chunks) : c = chunks[i]
  BY ToSetType
<1>4. ASSUME NEW c \in ToSet(chunks)
      PROVE  c \in Chunk /\ c.num < Len(data) /\ c.data = data[c.num + 1]
  <2>1. PICK i \in 1..Len(chunks) : c = chunks[i]
    BY <1>3
  <2>2. Len(data) - Len(chunks) + i - 1 < Len(data)
    BY <1>1
  <2> QED
    BY <1>2, <2>1, <2>2
<1>5. \A c, d \in ToSet(chunks) : c.num = d.num => c = d
  <2> SUFFICES ASSUME NEW c \in ToSet(chunks), NEW d \in ToSet(chunks),
                      c.num = d.num
               PROVE  c = d
    OBVIOUS
  <2>1. PICK i \in 1..Len(chunks) : c = chunks[i]
    BY <1>3
  <2>2. PICK j \in 1..Len(chunks) : d = chunks[j]
    BY <1>3
  <2>3. i = j
    BY <1>1, <1>2, <2>1, <2>2
  <2> QED
    BY <2>1, <2>2, <2>3
<1> QED
  BY <1>4, <1>5 DEF Distinct

(* What is sent moves from newChunks to unackedChunks, the rest of the     *)
(* window and its order stay.                                              *)
LEMMA AfterSendingStep ==
  ASSUME ChunkTypes, NEW e \in Ends, NEW new \in Seq(Chunk),
         NEW requested \in SUBSET ToSet(unackedChunks[e]),
         NEW agenda, NEW n, AfterSending(e, new, requested, agenda, n)
  PROVE  /\ newChunks' \in [Ends -> Seq(Chunk)]
         /\ unackedChunks' \in [Ends -> Seq(Chunk)]
         /\ resendRequested' \in [Ends -> SUBSET Chunk]
         /\ Window(e)' = unackedChunks[e] \o new
         /\ resendRequested'[e] \subseteq ToSet(unackedChunks'[e])
         /\ \A x \in Ends \ {e} :
              UNCHANGED <<newChunks[x], unackedChunks[x], resendRequested[x]>>
<1> DEFINE sent == ToSet(SubSeq(agenda, 1, n))
           places == {i \in 1..Len(new) : new[i] \in sent}
           first == Cardinality(places)
           newlySent == SubSeq(new, 1, first)
           rest == SubSeq(new, first + 1, Len(new))
           kept == unackedChunks[e] \o newlySent
<1>1. first \in 0..Len(new) /\ Len(new) \in Nat
  <2>1. Len(new) \in Nat
    BY LenProperties
  <2>2. IsFiniteSet(1..Len(new)) /\ Cardinality(1..Len(new)) = Len(new)
    <3>1. /\ IsFiniteSet(1..Len(new))
          /\ Cardinality(1..Len(new)) = IF 1 > Len(new) THEN 0 ELSE Len(new) - 1 + 1
      BY <2>1, FS_Interval
    <3> QED
      BY <2>1, <3>1
  <2>3. places \in SUBSET (1..Len(new))
    OBVIOUS
  <2> HIDE DEF places
  <2>4. IsFiniteSet(places) /\ Cardinality(places) =< Len(new)
    BY <2>2, <2>3, FS_Subset
  <2>5. Cardinality(places) \in Nat
    BY <2>4, FS_CardinalityType
  <2> QED
    BY <2>1, <2>4, <2>5
<1>2. /\ newChunks' = [newChunks EXCEPT ![e] = rest]
      /\ unackedChunks' = [unackedChunks EXCEPT ![e] = kept]
      /\ resendRequested' = [resendRequested EXCEPT ![e] =
           IF UseMinLossFactor THEN requested \ sent
           ELSE requested \cup ToSet(newlySent)]
  BY DEF AfterSending
<1> HIDE DEF places, sent, first
<1>3. newlySent \in Seq(Chunk) /\ rest \in Seq(Chunk) /\ newlySent \o rest = new
  <2>1. \A i \in 1..first : new[i] \in Chunk
    BY <1>1, ElementOfSeq
  <2>2. \A i \in (first + 1)..Len(new) : new[i] \in Chunk
    BY <1>1, ElementOfSeq
  <2>3. newlySent \in Seq(Chunk)
    BY <1>1, <2>1, SubSeqProperties
  <2>4. rest \in Seq(Chunk)
    BY <1>1, <2>2, SubSeqProperties
  <2>5. newlySent \o rest = SubSeq(new, 1, Len(new))
    <3>1. /\ 1 \in 1..(Len(new) + 1) /\ first \in (1 - 1)..Len(new)
          /\ Len(new) \in first..Len(new)
      BY <1>1
    <3> QED
      BY <3>1, ConcatAdjacentSubSeq
  <2>6. SubSeq(new, 1, Len(new)) = new
    BY SubSeqFull
  <2> QED
    BY <2>3, <2>4, <2>5, <2>6
<1> HIDE DEF newlySent, rest
<1>4. unackedChunks[e] \in Seq(Chunk)
  BY DEF ChunkTypes
<1>5. /\ kept \in Seq(Chunk)
      /\ ToSet(unackedChunks[e]) \subseteq ToSet(kept)
      /\ ToSet(newlySent) \subseteq ToSet(kept)
  <2>1. /\ kept \in Seq(Chunk)
        /\ Len(unackedChunks[e]) \in Nat /\ Len(newlySent) \in Nat
        /\ Len(kept) = Len(unackedChunks[e]) + Len(newlySent)
        /\ \A i \in 1..Len(unackedChunks[e]) : kept[i] = unackedChunks[e][i]
        /\ \A i \in 1..Len(newlySent) :
             kept[Len(unackedChunks[e]) + i] = newlySent[i]
    BY <1>3, <1>4, ConcatAt
  <2> HIDE DEF kept
  <2>2. \A i \in 1..Len(kept) : kept[i] \in ToSet(kept)
    BY <2>1, ToSetType
  <2>3. ASSUME NEW c \in ToSet(unackedChunks[e])
        PROVE  c \in ToSet(kept)
    <3>1. PICK i \in 1..Len(unackedChunks[e]) : c = unackedChunks[e][i]
      BY <1>4, ToSetType
    <3>2. i \in 1..Len(kept)
      BY <2>1
    <3>3. c = kept[i]
      BY <2>1, <3>1
    <3> QED
      BY <2>2, <3>2, <3>3
  <2>4. ASSUME NEW c \in ToSet(newlySent)
        PROVE  c \in ToSet(kept)
    <3>1. PICK i \in 1..Len(newlySent) : c = newlySent[i]
      BY <1>3, ToSetType
    <3>2. Len(unackedChunks[e]) + i \in 1..Len(kept)
      BY <2>1
    <3>3. c = kept[Len(unackedChunks[e]) + i]
      BY <2>1, <3>1
    <3> QED
      BY <2>2, <3>2, <3>3
  <2> QED
    BY <2>1, <2>3, <2>4
<1>6. kept \o rest = unackedChunks[e] \o new
  <2>1. kept \o rest = unackedChunks[e] \o (newlySent \o rest)
    <3>1. newlySent \in Seq(Chunk) /\ rest \in Seq(Chunk)
      BY <1>3
    <3>2. \A u, v, r \in Seq(Chunk) : (u \o v) \o r = u \o (v \o r)
      BY ConcatAssociative
    <3> QED
      BY <1>4, <3>1, <3>2, Zenon
  <2> HIDE DEF kept
  <2> QED
    BY <2>1, <1>3
<1> HIDE DEF kept
<1>7. /\ newChunks'[e] = rest /\ unackedChunks'[e] = kept
      /\ newChunks' \in [Ends -> Seq(Chunk)]
      /\ unackedChunks' \in [Ends -> Seq(Chunk)]
  BY <1>2, <1>3, <1>5 DEF ChunkTypes
<1>8. resendRequested'[e] \subseteq ToSet(kept)
  BY <1>2, <1>5 DEF ChunkTypes
<1>9. resendRequested' \in [Ends -> SUBSET Chunk]
  <2>1. ToSet(kept) \subseteq Chunk
    BY <1>5, ToSetType
  <2> QED
    BY <1>2, <1>8, <2>1 DEF ChunkTypes
<1>10. Window(e)' = unackedChunks[e] \o new
  BY <1>6, <1>7 DEF Window
<1>11. \A x \in Ends \ {e} :
         UNCHANGED <<newChunks[x], unackedChunks[x], resendRequested[x]>>
  BY <1>2 DEF ChunkTypes
<1> QED
  BY <1>7, <1>8, <1>9, <1>10, <1>11

(* A packet carries a piece of the agenda and the sender's                 *)
(* acknowledgement.                                                        *)
LEMMA DatagramsType ==
  ASSUME ChunkTypes, NEW e \in Ends, NEW S \in SUBSET Chunk, NEW agenda \in Seq(S),
         NEW count \in Int, NEW nakDue \in BOOLEAN,
         NEW pkt \in Datagrams(e, agenda, count, Naks(e, nakDue), NakRun(e, nakDue))
  PROVE  /\ pkt \in Datagram
         /\ pkt.ack = lastInOrder[e]
         /\ ToSet(pkt.chunks) \subseteq S
<1>1. lastInOrder[e] \in Int
  BY DEF ChunkTypes
<1>2. IsFiniteSet(Dropped(e))
  <2> DEFINE reach == (lastInOrder[e] + 1)..(lastInOrder[e] + 1 + NakReach)
  <2>1. IsFiniteSet(reach)
    <3>1. lastInOrder[e] + 1 \in Int /\ lastInOrder[e] + 1 + NakReach \in Int
      BY <1>1, UdpAssumption
    <3> QED
      BY <3>1, FS_Interval
  <2>2. Dropped(e) \in SUBSET reach
    BY DEF Dropped
  <2> QED
    BY <2>1, <2>2, FS_Subset
<1>3. Naks(e, nakDue) \subseteq Nat
  <2>1. \A n \in Dropped(e) : n - (lastInOrder[e] + 1) \in Nat
    BY <1>1 DEF Dropped
  <2> QED
    BY <2>1 DEF Naks, NakList
<1>4. NakRun(e, nakDue) \in Nat
  <2>1. IsFiniteSet({n \in Dropped(e) : (lastInOrder[e] + 1)..n \subseteq Dropped(e)})
    BY <1>2, FS_Subset
  <2>2. NumContinuous(e) \in Nat
    BY <2>1, FS_CardinalityType DEF NumContinuous
  <2> QED
    BY <2>2, UdpAssumption DEF NakRun, LesserOf
<1>5. PICK i \in 1..count :
        pkt = [ack    |-> lastInOrder[e],
               nakRun |-> NakRun(e, nakDue),
               naks   |-> IF i = 1 \/ ~UseMinLossFactor THEN Naks(e, nakDue) ELSE {},
               chunks |-> SubSeq(agenda, (i - 1) * ChunksPerPacket + 1,
                                 LesserOf(i * ChunksPerPacket, Len(agenda)))]
  BY DEF Datagrams
<1> DEFINE from == (i - 1) * ChunksPerPacket + 1
           to == LesserOf(i * ChunksPerPacket, Len(agenda))
<1>6. from \in Nat \ {0} /\ to \in Int /\ to =< Len(agenda)
  <2>1. i \in Nat /\ i - 1 \in Nat /\ ChunksPerPacket \in Nat
    BY UdpAssumption
  <2>2. (i - 1) * ChunksPerPacket \in Nat /\ i * ChunksPerPacket \in Nat
    BY <2>1, ProductType
  <2> QED
    BY <2>2, LenProperties DEF LesserOf
<1>7. pkt.chunks = SubSeq(agenda, from, to)
  BY <1>5
<1> HIDE DEF from, to
<1>8. pkt.chunks \in Seq(S)
  <2>1. \A j \in from..to : agenda[j] \in S
    BY <1>6, ElementOfSeq
  <2> QED
    BY <1>6, <1>7, <2>1, SubSeqProperties
<1>9. ToSet(pkt.chunks) \subseteq S
  BY <1>8, ToSetType
<1>10. pkt.chunks \in Seq(Chunk)
  BY <1>8, SeqMonotonic
<1>11. /\ pkt.naks \subseteq Nat /\ pkt.nakRun \in Nat /\ pkt.ack \in Int
       /\ pkt = [ack |-> pkt.ack, nakRun |-> pkt.nakRun, naks |-> pkt.naks,
                 chunks |-> pkt.chunks]
  BY <1>1, <1>3, <1>4, <1>5
<1>12. pkt \in Datagram
  BY <1>10, <1>11 DEF Datagram
<1> QED
  BY <1>5, <1>9, <1>12

(* A bounded set of numbers has a greatest element, which Max chooses. *)
LEMMA MaxIn ==
  ASSUME NEW n \in Int, NEW T, T \subseteq 1..n, T # {}
  PROVE  Max(T) \in T
<1> DEFINE below == {n - x : x \in T}
<1>1. below \subseteq Nat /\ below # {}
  <2>1. \A x \in T : x \in Int /\ n - x \in Nat
    OBVIOUS
  <2>2. PICK x : x \in T
    OBVIOUS
  <2>3. n - x \in below
    BY <2>2
  <2> QED
    BY <2>1, <2>3
<1>2. PICK z \in below : \A y \in below : z =< y
  BY <1>1, LeastNat
<1>3. PICK x \in T : z = n - x
  BY <1>2
<1>4. \A y \in T : x >= y
  <2> SUFFICES ASSUME NEW y \in T
               PROVE  x >= y
    OBVIOUS
  <2>1. n - x =< n - y
    BY <1>2, <1>3
  <2>2. x \in Int /\ y \in Int
    OBVIOUS
  <2> QED
    BY <2>1, <2>2
<1> DEFINE Greatest(w) == \A y \in T : w >= y
<1>5. \E w \in T : Greatest(w)
  BY <1>4
<1>6. Max(T) = CHOOSE w \in T : Greatest(w)
  BY DEF Max
<1> HIDE DEF Greatest
<1> QED
  BY <1>5, <1>6

(* The rotation through the middle of the requested chunks is a number. *)
LEMMA MidBeforeType ==
  ASSUME NEW list \in Seq(Chunk), NEW mid \in Int
  PROVE  MidBefore(list, mid) \in Int
<1>1. Len(list) \in Nat /\ LossyCount(list) \in Nat
  <2>1. Len(list) \in Nat
    BY LenProperties
  <2>2. ResendPerFactor \in Nat /\ NetLossFactor \in Nat
    BY UdpAssumption
  <2>3. ResendPerFactor * NetLossFactor \in Nat
    BY <2>2, ProductType
  <2> QED
    BY <2>1, <2>3 DEF LossyCount, LesserOf
<1>2. MidStart(list) \in Nat
  <2>1. LossyCount(list) + 3 \in Nat /\ 4 \in Nat \ {0}
    BY <1>1
  <2> QED
    BY <2>1, QuotientType DEF MidStart
<1>3. CASE MidStart(list) < Len(list)
  <2>1. MidStart(list) + 1 \in 1..Len(list)
    BY <1>1, <1>2, <1>3
  <2>2. list[MidStart(list) + 1] \in Chunk
    BY <2>1, ElementOfSeq
  <2>3. list[MidStart(list) + 1].num \in Int
    BY <2>2 DEF Chunk
  <2> QED
    BY <2>3 DEF MidBefore
<1>4. CASE ~(MidStart(list) < Len(list))
  BY <1>4 DEF MidBefore
<1> QED
  BY <1>3, <1>4

(* The toggle and the rotation keep their types. *)
TurnTypes == resend \in [Ends -> BOOLEAN] /\ lastMidChunk \in [Ends -> Int]

LEMMA AfterSendingTurns ==
  ASSUME TurnTypes, NEW e \in Ends, NEW new, NEW requested \in SUBSET Chunk,
         IsFiniteSet(requested), Distinct(requested),
         NEW agenda \in Seq(Chunk), NEW n \in Int, n =< Len(agenda),
         AfterSending(e, new, requested, agenda, n)
  PROVE  TurnTypes'
<1> DEFINE mids == MidPlaces({i \in 1..n : agenda[i] \notin ToSet(new)})
           list == ByNumber(requested)
<1>1. /\ resend' = [resend EXCEPT ![e] = IF n = 0 THEN @ ELSE agenda[n] \notin ToSet(new)]
      /\ lastMidChunk' = [lastMidChunk EXCEPT ![e] =
           IF UseMinLossFactor THEN @
           ELSE IF mids = {} THEN MidBefore(list, @) ELSE agenda[Max(mids)].num]
  BY DEF AfterSending
<1>2. resend' \in [Ends -> BOOLEAN]
  <2>1. resend \in [Ends -> BOOLEAN]
    BY DEF TurnTypes
  <2>2. CASE n = 0
    BY <1>1, <2>1, <2>2
  <2>3. CASE n # 0
    <3>1. (agenda[n] \notin ToSet(new)) \in BOOLEAN
      OBVIOUS
    <3> QED
      BY <1>1, <2>1, <2>3, <3>1, Zenon
  <2> QED
    BY <2>2, <2>3
<1>3. MidBefore(list, lastMidChunk[e]) \in Int
  <2>1. list \in Seq(Chunk)
    BY ByNumberType, SeqMonotonic
  <2>2. lastMidChunk[e] \in Int
    BY DEF TurnTypes
  <2> HIDE DEF list
  <2> QED
    BY <2>1, <2>2, MidBeforeType
<1>4. mids # {} => agenda[Max(mids)].num \in Int
  <2> SUFFICES ASSUME mids # {}
               PROVE  agenda[Max(mids)].num \in Int
    OBVIOUS
  <2>1. mids \subseteq 1..n
    BY DEF MidPlaces
  <2> HIDE DEF mids
  <2>2. Max(mids) \in 1..n
    BY <2>1, MaxIn
  <2>3. Max(mids) \in 1..Len(agenda)
    BY <2>2, LenProperties
  <2>4. agenda[Max(mids)] \in Chunk
    BY <2>3, ElementOfSeq
  <2> QED
    BY <2>4 DEF Chunk
<1> HIDE DEF mids, list
<1>5. lastMidChunk' \in [Ends -> Int]
  <2>1. lastMidChunk \in [Ends -> Int]
    BY DEF TurnTypes
  <2> QED
    BY <1>1, <1>3, <1>4, <2>1
<1> QED
  BY <1>2, <1>5 DEF TurnTypes

(* What a Flush comes to: the new data have become the chunks fresh at the *)
(* end of the window, and what was sent is what was created.               *)
Flushed(e, data, fresh) ==
  /\ AreFresh(fresh, Len(created[e]), data)
  /\ created' = [created EXCEPT ![e] = @ \o data]
  /\ currentPacketChunkNum' = [currentPacketChunkNum EXCEPT ![e] = @ + Len(data)]
  /\ outgoingData' \in [Ends -> Seq(Units)]
  /\ \A x \in Ends \ {e} : outgoingData'[x] = outgoingData[x]
  /\ outgoingData[e] = <<>> => outgoingData'[e] = <<>> /\ data = <<>>
  /\ newChunks' \in [Ends -> Seq(Chunk)]
  /\ unackedChunks' \in [Ends -> Seq(Chunk)]
  /\ resendRequested' \in [Ends -> SUBSET Chunk]
  /\ Window(e)' = Window(e) \o fresh
  /\ resendRequested'[e] \subseteq ToSet(unackedChunks'[e])
  /\ \A x \in Ends \ {e} :
       UNCHANGED <<newChunks[x], unackedChunks[x], resendRequested[x]>>
  /\ \E sent \in SUBSET Datagram :
       /\ net' = [net EXCEPT ![Peer(e)] = @ \cup sent]
       /\ \A pkt \in sent : /\ pkt.ack = lastInOrder[e]
                            /\ ToSet(pkt.chunks) \subseteq Genuine(e)'
  /\ TurnTypes => TurnTypes'
  /\ \E k \in 0..Len(outgoingData[e]) :
       /\ data = Cut(SubSeq(outgoingData[e], 1, k), MaxChunkSize)
       /\ outgoingData' = [outgoingData EXCEPT ![e] = SubSeq(@, k + 1, Len(@))]

(* FlushWith does what Flushed says, whatever the timers and the limits. *)
LEMMA FlushEffect ==
  ASSUME Inductive, NEW e \in Ends, NEW forced \in BOOLEAN,
         NEW k \in 0..Len(outgoingData[e]), NEW nakDue \in BOOLEAN,
         NEW unackDue \in BOOLEAN, NEW quietDue \in BOOLEAN, NEW count \in Nat,
         FlushWith(e, forced, k, nakDue, unackDue, quietDue, count)
  PROVE  \E data \in Seq(Seq(Units)), fresh \in Seq(Chunk) : Flushed(e, data, fresh)
<1> DEFINE data == Cut(SubSeq(outgoingData[e], 1, k), MaxChunkSize)
           fresh == FreshChunks(e, k)
           new == newChunks[e] \o fresh
           naks == Naks(e, nakDue)
           run == NakRun(e, nakDue)
           requested == Requested(e, new, unackDue)
           agenda == Agenda(Repeats(e, requested), new, resend[e])
           packets == LesserOf(count, PacketsFor(agenda))
           n == LesserOf(packets * ChunksPerPacket, Len(agenda))
           all == unackedChunks[e] \o new
<1>1. /\ outgoingData[e] \in Seq(Units) /\ Len(outgoingData[e]) \in Nat
      /\ newChunks[e] \in Seq(Chunk) /\ unackedChunks[e] \in Seq(Chunk)
      /\ created[e] \in Seq(Seq(Units)) /\ Len(created[e]) \in Nat
      /\ resendRequested[e] \subseteq ToSet(unackedChunks[e])
      /\ ChunkTypes
  BY LenProperties DEF Inductive, ChunkTypes, ResendsAreUnacked
<1>2. /\ SubSeq(outgoingData[e], 1, k) \in Seq(Units)
      /\ SubSeq(outgoingData[e], k + 1, Len(outgoingData[e])) \in Seq(Units)
  <2>1. \A j \in 1..k : outgoingData[e][j] \in Units
    BY <1>1, ElementOfSeq
  <2>2. \A j \in (k + 1)..Len(outgoingData[e]) : outgoingData[e][j] \in Units
    BY <1>1, ElementOfSeq
  <2>3. SubSeq(outgoingData[e], 1, k) \in Seq(Units)
    BY <1>1, <2>1, SubSeqProperties
  <2>4. SubSeq(outgoingData[e], k + 1, Len(outgoingData[e])) \in Seq(Units)
    BY <1>1, <2>2, SubSeqProperties
  <2> QED
    BY <2>3, <2>4
<1>3. data \in Seq(Seq(Units)) /\ Len(data) \in Nat
  BY <1>2, CutType, UdpAssumption, LenProperties
<1>4. /\ fresh \in Seq(Chunk) /\ AreFresh(fresh, Len(created[e]), data)
      /\ [i \in 1..Len(fresh) |-> fresh[i].data] = data
      /\ Len(fresh) = Len(data)
  <2>1. currentPacketChunkNum[e] = Len(created[e])
    BY WindowOf
  <2>2. fresh = [i \in 1..Len(data) |->
                   [num |-> Len(created[e]) + i - 1, data |-> data[i]]]
    BY <2>1 DEF FreshChunks
  <2> HIDE DEF fresh, data
  <2>3. \A i \in 1..Len(data) :
          [num |-> Len(created[e]) + i - 1, data |-> data[i]] \in Chunk
    BY <1>1, <1>3, ElementOfSeq DEF Chunk
  <2>4. fresh \in [1..Len(data) -> Chunk]
    BY <2>2, <2>3
  <2>5. fresh \in Seq(Chunk) /\ Len(fresh) = Len(data)
    BY <1>3, <2>4, FunctionIsSeq
  <2>6. AreFresh(fresh, Len(created[e]), data)
    BY <2>2, <2>5 DEF AreFresh
  <2>7. data = [i \in 1..Len(data) |-> data[i]]
    BY <1>3, LenProperties
  <2>8. [i \in 1..Len(fresh) |-> fresh[i].data] = [i \in 1..Len(data) |-> data[i]]
    BY <2>2, <2>5
  <2> QED
    BY <2>5, <2>6, <2>7, <2>8
<1>5. /\ outgoingData' = [outgoingData EXCEPT ![e] = SubSeq(@, k + 1, Len(@))]
      /\ currentPacketChunkNum' =
           [currentPacketChunkNum EXCEPT ![e] = @ + Len(fresh)]
      /\ created' = [created EXCEPT ![e] =
           @ \o [i \in 1..Len(fresh) |-> fresh[i].data]]
      /\ MustSend(new, requested, naks, forced, quietDue) =>
           /\ AfterSending(e, new, requested, agenda, n)
           /\ net' = [net EXCEPT ![Peer(e)] =
                @ \cup Datagrams(e, agenda, packets, naks, run)]
      /\ ~MustSend(new, requested, naks, forced, quietDue) =>
           /\ resendRequested' = [resendRequested EXCEPT ![e] = requested]
           /\ UNCHANGED <<newChunks, unackedChunks, resend, lastMidChunk, net>>
  BY DEF FlushWith
<1>6. outgoingData[e] = <<>> => data = <<>>
  <2> SUFFICES ASSUME outgoingData[e] = <<>>
               PROVE  data = <<>>
    OBVIOUS
  <2>1. k = 0
    BY <1>1
  <2>2. SubSeq(outgoingData[e], 1, k) = <<>>
    BY <2>1, SubSeqEmpty
  <2>3. (0 + MaxChunkSize - 1) \div MaxChunkSize = 0
    BY UdpAssumption, QuotientOfLess
  <2> QED
    BY <2>2, <2>3 DEF Cut
<1> HIDE DEF data, fresh
<1>7. /\ new \in Seq(Chunk) /\ all \in Seq(Chunk) /\ Window(e) \in Seq(Chunk)
      /\ all = Window(e) \o fresh
  <2>1. new \in Seq(Chunk)
    BY <1>1, <1>4, ConcatProperties
  <2>2. all \in Seq(Chunk)
    <3> HIDE DEF new
    <3> QED  BY <1>1, <2>1, ConcatProperties
  <2>3. \A u, v, r \in Seq(Chunk) : (u \o v) \o r = u \o (v \o r)
    BY ConcatAssociative
  <2>4. (unackedChunks[e] \o newChunks[e]) \o fresh
          = unackedChunks[e] \o (newChunks[e] \o fresh)
    BY <1>1, <1>4, <2>3, Zenon
  <2> QED
    BY <2>1, <2>2, <2>4, WindowOf, Zenon DEF Window
<1>8. created'[e] = created[e] \o data /\ created'[e] \in Seq(Seq(Units))
  <2>1. created'[e] = created[e] \o data
    BY <1>4, <1>5 DEF Inductive, ChunkTypes
  <2> QED
    BY <1>1, <1>3, <2>1, ConcatProperties
<1>9. IsWindow(all, Len(created'[e]), created'[e])
  <2>1. IsWindow(Window(e) \o fresh, Len(created[e] \o data), created[e] \o data)
    BY <1>1, <1>3, <1>4, WindowOf, WindowGrows
  <2> QED
    BY <1>7, <1>8, <2>1
<1> HIDE DEF new, all
<1>10. ToSet(all) \subseteq Genuine(e)' /\ Distinct(ToSet(all))
  BY <1>7, <1>8, <1>9, WindowChunks DEF Genuine
<1>11. /\ ToSet(unackedChunks[e]) \subseteq ToSet(all)
       /\ new \in Seq(Genuine(e)')
  <2>1. /\ Len(unackedChunks[e]) \in Nat /\ Len(new) \in Nat
        /\ Len(all) = Len(unackedChunks[e]) + Len(new)
        /\ \A i \in 1..Len(unackedChunks[e]) : all[i] = unackedChunks[e][i]
        /\ \A i \in 1..Len(new) : all[Len(unackedChunks[e]) + i] = new[i]
    <3>1. unackedChunks[e] \in Seq(Chunk) /\ new \in Seq(Chunk)
      BY <1>1, <1>7
    <3> QED
      BY <3>1, ConcatAt DEF all
  <2>2. \A i \in 1..Len(all) : all[i] \in ToSet(all)
    BY <1>7, ToSetType
  <2>3. \A c \in ToSet(unackedChunks[e]) :
          \E i \in 1..Len(unackedChunks[e]) : c = unackedChunks[e][i]
    BY <1>1, ToSetType
  <2>4. ASSUME NEW c \in ToSet(unackedChunks[e])
        PROVE  c \in ToSet(all)
    <3>1. PICK i \in 1..Len(unackedChunks[e]) : c = unackedChunks[e][i]
      BY <2>3
    <3>2. i \in 1..Len(all) /\ c = all[i]
      BY <2>1, <3>1
    <3> QED
      BY <2>2, <3>2
  <2>5. \A i \in 1..Len(new) : new[i] \in Genuine(e)'
    BY <1>10, <2>1, <2>2
  <2>6. new \in [1..Len(new) -> Genuine(e)']
    BY <1>7, <2>5, LenProperties
  <2> QED
    BY <2>1, <2>4, <2>6, FunctionIsSeq
<1>12. requested \subseteq ToSet(unackedChunks[e])
  <2>1. unackedChunks[e] # <<>> => Last(unackedChunks[e]) \in ToSet(unackedChunks[e])
    <3> SUFFICES ASSUME unackedChunks[e] # <<>>
                 PROVE  unackedChunks[e][Len(unackedChunks[e])] \in ToSet(unackedChunks[e])
      BY DEF Last
    <3>1. Len(unackedChunks[e]) \in 1..Len(unackedChunks[e])
      BY <1>1, EmptySeq
    <3> QED
      BY <1>1, <3>1, ToSetType
  <2> QED
    BY <1>1, <2>1 DEF Requested
<1>13. /\ requested \in SUBSET Genuine(e)' /\ IsFiniteSet(requested)
       /\ Distinct(requested)
  <2>1. IsFiniteSet(ToSet(unackedChunks[e]))
    BY <1>1, ToSetType
  <2>2. IsFiniteSet(requested)
    BY <1>12, <2>1, FS_Subset
  <2> QED
    BY <1>10, <1>11, <1>12, <2>2 DEF Distinct
<1> HIDE DEF requested
<1>14. agenda \in Seq(Genuine(e)')
  <2>1. Genuine(e)' \in SUBSET Chunk
    BY DEF Genuine
  <2> QED
    BY <1>11, <1>13, <2>1, AgendaType
<1>15. packets \in Int /\ n \in Int /\ n =< Len(agenda)
  <2>1. Len(agenda) \in Nat /\ ChunksPerPacket \in Nat \ {0}
    BY <1>14, LenProperties, UdpAssumption
  <2>2. Len(agenda) + ChunksPerPacket - 1 \in Nat
    BY <2>1
  <2>3. (Len(agenda) + ChunksPerPacket - 1) \div ChunksPerPacket \in Nat
    BY <2>1, <2>2, QuotientType
  <2>4. packets \in Nat
    BY <2>3 DEF PacketsFor, LesserOf
  <2> HIDE DEF agenda, packets
  <2>5. packets * ChunksPerPacket \in Nat
    BY <2>1, <2>4, ProductType
  <2> QED
    BY <2>1, <2>4, <2>5 DEF LesserOf
<1> HIDE DEF agenda, packets, n
<1>16. /\ outgoingData' \in [Ends -> Seq(Units)]
       /\ \A x \in Ends \ {e} : outgoingData'[x] = outgoingData[x]
       /\ outgoingData[e] = <<>> => outgoingData'[e] = <<>>
  <2>1. outgoingData[e] = <<>> =>
          SubSeq(outgoingData[e], k + 1, Len(outgoingData[e])) = <<>>
    <3>1. outgoingData[e] = <<>> => k = 0 /\ Len(outgoingData[e]) < k + 1
      BY <1>1
    <3> QED
      BY <1>1, <3>1, SubSeqEmpty
  <2> QED
    BY <1>1, <1>2, <1>5, <2>1 DEF ChunkTypes
<1>17. /\ newChunks' \in [Ends -> Seq(Chunk)]
       /\ unackedChunks' \in [Ends -> Seq(Chunk)]
       /\ resendRequested' \in [Ends -> SUBSET Chunk]
       /\ Window(e)' = all
       /\ resendRequested'[e] \subseteq ToSet(unackedChunks'[e])
       /\ \A x \in Ends \ {e} :
            UNCHANGED <<newChunks[x], unackedChunks[x], resendRequested[x]>>
  <2>1. CASE MustSend(new, requested, naks, forced, quietDue)
    <3>1. AfterSending(e, new, requested, agenda, n)
      BY <1>5, <2>1
    <3> QED
      BY <1>1, <1>7, <1>12, <3>1, AfterSendingStep DEF all
  <2>2. CASE ~MustSend(new, requested, naks, forced, quietDue)
    <3>1. new = <<>>
      BY <2>2 DEF MustSend
    <3>2. newChunks[e] = <<>>
      BY <1>1, <1>4, <3>1, ConcatEqualIffEmpty DEF new
    <3>3. /\ resendRequested' = [resendRequested EXCEPT ![e] = requested]
          /\ UNCHANGED <<newChunks, unackedChunks>>
      BY <1>5, <2>2
    <3>4. Window(e)' = all
      BY <3>1, <3>2, <3>3 DEF Window, all
    <3>5. requested \subseteq Chunk
      BY <1>13 DEF Genuine
    <3> QED
      BY <1>1, <1>12, <3>3, <3>4, <3>5 DEF ChunkTypes
  <2> QED
    BY <2>1, <2>2
<1>18. \E sent \in SUBSET Datagram :
         /\ net' = [net EXCEPT ![Peer(e)] = @ \cup sent]
         /\ \A pkt \in sent : /\ pkt.ack = lastInOrder[e]
                              /\ ToSet(pkt.chunks) \subseteq Genuine(e)'
  <2>1. CASE MustSend(new, requested, naks, forced, quietDue)
    <3> DEFINE sent == Datagrams(e, agenda, packets, naks, run)
    <3>1. Genuine(e)' \in SUBSET Chunk
      BY DEF Genuine
    <3>2. \A pkt \in sent : /\ pkt \in Datagram /\ pkt.ack = lastInOrder[e]
                            /\ ToSet(pkt.chunks) \subseteq Genuine(e)'
      BY <1>1, <1>14, <1>15, <3>1, DatagramsType
    <3>3. net' = [net EXCEPT ![Peer(e)] = @ \cup sent]
      BY <1>5, <2>1
    <3> HIDE DEF sent
    <3> QED
      BY <3>2, <3>3
  <2>2. CASE ~MustSend(new, requested, naks, forced, quietDue)
    <3>1. net' = [net EXCEPT ![Peer(e)] = @ \cup {}]
      BY <1>1, <1>5, <2>2, EndsFacts DEF ChunkTypes
    <3> WITNESS {} \in SUBSET Datagram
    <3> QED
      BY <3>1
  <2> QED
    BY <2>1, <2>2
<1>19. /\ created' = [created EXCEPT ![e] = @ \o data]
       /\ currentPacketChunkNum' = [currentPacketChunkNum EXCEPT ![e] = @ + Len(data)]
  BY <1>4, <1>5
<1>20. Window(e)' = Window(e) \o fresh /\ AreFresh(fresh, Len(created[e]), data)
  BY <1>4, <1>7, <1>17
<1>22. TurnTypes => TurnTypes'
  <2> SUFFICES ASSUME TurnTypes
               PROVE  TurnTypes'
    OBVIOUS
  <2>1. CASE MustSend(new, requested, naks, forced, quietDue)
    <3>1. AfterSending(e, new, requested, agenda, n)
      BY <1>5, <2>1
    <3>2. agenda \in Seq(Chunk) /\ requested \in SUBSET Chunk
      <4>1. Genuine(e)' \subseteq Chunk
        BY DEF Genuine
      <4> QED
        BY <1>13, <1>14, <4>1, SeqMonotonic
    <3> QED
      BY <1>13, <1>15, <3>1, <3>2, AfterSendingTurns
  <2>2. CASE ~MustSend(new, requested, naks, forced, quietDue)
    BY <1>5, <2>2 DEF TurnTypes
  <2> QED
    BY <2>1, <2>2
<1>23. \E j \in 0..Len(outgoingData[e]) :
         /\ data = Cut(SubSeq(outgoingData[e], 1, j), MaxChunkSize)
         /\ outgoingData' = [outgoingData EXCEPT ![e] = SubSeq(@, j + 1, Len(@))]
  BY <1>5 DEF data
<1> data \in Seq(Seq(Units)) /\ fresh \in Seq(Chunk)
  BY <1>3, <1>4
<1> WITNESS data \in Seq(Seq(Units)), fresh \in Seq(Chunk)
<1>21. outgoingData[e] = <<>> => outgoingData'[e] = <<>> /\ data = <<>>
  BY <1>6, <1>16
<1> QED
  BY <1>16, <1>17, <1>18, <1>19, <1>20, <1>21, <1>22, <1>23
  DEF Flushed

(* What was created stays created. *)
LEMMA GenuineGrows ==
  ASSUME NEW e \in Ends, NEW old \in Seq(Seq(Units)), NEW data \in Seq(Seq(Units)),
         created[e] = old, created'[e] = old \o data
  PROVE  Genuine(e) \subseteq Genuine(e)'
<1>1. /\ Len(old) \in Nat /\ Len(data) \in Nat
      /\ Len(old \o data) = Len(old) + Len(data)
      /\ \A i \in 1..Len(old) : (old \o data)[i] = old[i]
  BY ConcatAt
<1> SUFFICES ASSUME NEW c \in Chunk, c.num < Len(old), c.data = old[c.num + 1]
             PROVE  c.num < Len(old \o data) /\ c.data = (old \o data)[c.num + 1]
  BY DEF Genuine
<1>2. c.num \in Nat
  BY DEF Chunk
<1>3. c.num + 1 \in 1..Len(old)
  BY <1>1, <1>2
<1> QED
  BY <1>1, <1>2, <1>3

(* ... and so does DoFlush. *)
LEMMA DoFlushEffect ==
  ASSUME Inductive, NEW e \in Ends, NEW forced \in BOOLEAN, DoFlush(e, forced)
  PROVE  \E data \in Seq(Seq(Units)), fresh \in Seq(Chunk) : Flushed(e, data, fresh)
<1>1. PICK k \in 0..Len(outgoingData[e]), nakDue \in BOOLEAN, unackDue \in BOOLEAN,
           quietDue \in BOOLEAN, count \in Nat :
        FlushWith(e, forced, k, nakDue, unackDue, quietDue, count)
  <2>1. Len(outgoingData[e]) \in Nat
    BY LenProperties DEF Inductive, ChunkTypes
  <2>2. Unlimited \in Nat
    BY UdpAssumption DEF Unlimited, Ends
  <2>3. PICK k \in IF forced THEN {Len(outgoingData[e])}
                  ELSE IF Limited THEN {0} \cup MessageEnds(outgoingData[e])
                  ELSE {0, Len(outgoingData[e])},
             nakDue   \in Timer(waitingPackets[e] # {}),
             unackDue \in Timer(unackedChunks[e] # <<>>),
             quietDue \in Timer(~forced),
             count \in IF Limited THEN 0..Unlimited ELSE {Unlimited} :
          FlushWith(e, forced, k, nakDue, unackDue, quietDue, count)
    BY DEF DoFlush
  <2>4. k \in 0..Len(outgoingData[e])
    BY <2>1 DEF MessageEnds
  <2>5. nakDue \in BOOLEAN /\ unackDue \in BOOLEAN /\ quietDue \in BOOLEAN
    BY DEF Timer
  <2>6. count \in Nat
    BY <2>2
  <2> QED
    BY <2>3, <2>4, <2>5, <2>6
<1> QED
  BY <1>1, FlushEffect

(* Flush and Update keep the invariant. *)
LEMMA FlushStep ==
  ASSUME Inductive, NEW e \in Ends, NEW forced \in BOOLEAN, DoFlush(e, forced),
         UNCHANGED <<receiver, numSent, taken>>
  PROVE  Inductive'
<1>2. PICK data \in Seq(Seq(Units)), fresh \in Seq(Chunk) : Flushed(e, data, fresh)
  BY DoFlushEffect
<1>3. PICK sent \in SUBSET Datagram :
        /\ net' = [net EXCEPT ![Peer(e)] = @ \cup sent]
        /\ \A pkt \in sent : /\ pkt.ack = lastInOrder[e]
                             /\ ToSet(pkt.chunks) \subseteq Genuine(e)'
  BY <1>2 DEF Flushed
<1>4. /\ UNCHANGED <<lastInOrder, waitingPackets, processed, msgQueue, numSent, taken>>
      /\ ChunkTypes
  BY DEF receiver, Inductive
<1>5. /\ created[e] \in Seq(Seq(Units)) /\ created'[e] = created[e] \o data
      /\ Len(created[e]) \in Nat /\ Len(data) \in Nat
      /\ created'[e] \in Seq(Seq(Units))
      /\ Len(created'[e]) = Len(created[e]) + Len(data)
      /\ \A i \in 1..Len(created[e]) : created'[e][i] = created[e][i]
      /\ \A x \in Ends \ {e} : created'[x] = created[x]
  <2>1. created[e] \in Seq(Seq(Units))
    BY <1>4 DEF ChunkTypes
  <2>2. created'[e] = created[e] \o data /\ \A x \in Ends \ {e} : created'[x] = created[x]
    BY <1>2, <1>4 DEF Flushed, ChunkTypes
  <2> QED
    BY <2>1, <2>2, ConcatAt
<1>6. ChunkTypes'
  <2>1. created' \in [Ends -> Seq(Seq(Units))]
    BY <1>2, <1>4, <1>5 DEF Flushed, ChunkTypes
  <2>2. net' \in [Ends -> SUBSET Datagram]
    BY <1>3, <1>4, EndsFacts DEF ChunkTypes
  <2>3. currentPacketChunkNum' \in [Ends -> Nat]
    <3>1. currentPacketChunkNum[e] + Len(data) \in Nat
      BY <1>4, <1>5 DEF ChunkTypes
    <3>2. currentPacketChunkNum' = [currentPacketChunkNum EXCEPT ![e] = @ + Len(data)]
      BY <1>2 DEF Flushed
    <3> QED
      BY <3>1, <3>2, <1>4 DEF ChunkTypes
  <2> QED
    BY <2>1, <2>2, <2>3, <1>2, <1>4 DEF Flushed, ChunkTypes
<1>7. \A x \in Ends : Genuine(x) \subseteq Genuine(x)'
  <2>1. Genuine(e) \subseteq Genuine(e)'
    BY <1>5, GenuineGrows
  <2>2. \A x \in Ends \ {e} : Genuine(x) = Genuine(x)'
    BY <1>5 DEF Genuine
  <2> QED
    BY <2>1, <2>2
<1>8. /\ Window(e) \in Seq(Chunk) /\ Len(Window(e)) \in Nat
      /\ Len(Window(e)') = Len(Window(e)) + Len(data)
      /\ IsWindow(Window(e)', Len(created'[e]), created'[e])
      /\ currentPacketChunkNum'[e] = Len(created'[e])
      /\ \A x \in Ends \ {e} : Window(x)' = Window(x)
  <2>1. Window(e) \in Seq(Chunk) /\ IsWindow(Window(e), Len(created[e]), created[e])
    BY WindowOf
  <2>2. IsWindow(Window(e) \o fresh, Len(created[e] \o data), created[e] \o data)
    BY <1>2, <1>5, <2>1, WindowGrows DEF Flushed
  <2>3. Len(Window(e)) \in Nat /\ Len(Window(e) \o fresh) = Len(Window(e)) + Len(fresh)
    BY <2>1, ConcatAt
  <2>4. Len(fresh) = Len(data)
    BY <1>2 DEF Flushed, AreFresh
  <2>5. currentPacketChunkNum'[e] = Len(created'[e])
    BY <1>2, <1>4, <1>5, WindowOf DEF Flushed, ChunkTypes
  <2>6. \A x \in Ends \ {e} : Window(x)' = Window(x)
    BY <1>2 DEF Flushed, Window
  <2> QED
    BY <1>2, <1>5, <2>1, <2>2, <2>3, <2>4, <2>5, <2>6 DEF Flushed
<1>9. WindowContiguous'
  <2> SUFFICES ASSUME NEW x \in Ends
               PROVE  /\ Len(created'[x]) = currentPacketChunkNum'[x]
                      /\ IsWindow(Window(x)', currentPacketChunkNum'[x], created'[x])
    BY DEF WindowContiguous, IsWindow
  <2>1. CASE x = e
    BY <2>1, <1>8
  <2>2. CASE x # e
    <3>1. /\ currentPacketChunkNum'[x] = currentPacketChunkNum[x]
          /\ created'[x] = created[x] /\ Window(x)' = Window(x)
      BY <2>2, <1>2, <1>4, <1>5, <1>8 DEF Flushed, ChunkTypes
    <3>2. /\ IsWindow(Window(x), Len(created[x]), created[x])
          /\ Len(created[x]) = currentPacketChunkNum[x]
      BY WindowOf
    <3> QED
      BY <3>1, <3>2
  <2> QED
    BY <2>1, <2>2
<1>10. AckedWasProcessed'
  <2> SUFFICES ASSUME NEW x \in Ends
               PROVE  currentPacketChunkNum'[x] - Len(Window(x)')
                        =< lastInOrder[Peer(x)] + 1
    BY <1>4 DEF AckedWasProcessed
  <2>1. currentPacketChunkNum[x] - Len(Window(x)) =< lastInOrder[Peer(x)] + 1
    BY DEF Inductive, AckedWasProcessed
  <2>2. CASE x = e
    <3>1. /\ currentPacketChunkNum'[e] = Len(created[e]) + Len(data)
          /\ currentPacketChunkNum[e] = Len(created[e])
      BY <1>5, <1>8, WindowOf
    <3> QED
      BY <2>1, <2>2, <3>1, <1>5, <1>8
  <2>3. CASE x # e
    BY <2>1, <2>3, <1>2, <1>4, <1>8 DEF Flushed, ChunkTypes
  <2> QED
    BY <2>2, <2>3
<1>11. ResendsAreUnacked'
  BY <1>2 DEF Flushed, Inductive, ResendsAreUnacked
<1>12. ProcessedInOrder'
  <2> SUFFICES ASSUME NEW x \in Ends
               PROVE  /\ Len(processed[x]) = lastInOrder[x] + 1
                      /\ Len(processed[x]) =< Len(created'[Peer(x)])
                      /\ \A i \in 1..Len(processed[x]) :
                           processed[x][i] = created'[Peer(x)][i]
    BY <1>4 DEF ProcessedInOrder
  <2>1. /\ Len(processed[x]) = lastInOrder[x] + 1
        /\ Len(processed[x]) =< Len(created[Peer(x)])
        /\ \A i \in 1..Len(processed[x]) : processed[x][i] = created[Peer(x)][i]
        /\ Len(processed[x]) \in Nat
    BY LenProperties DEF Inductive, ProcessedInOrder, ChunkTypes
  <2>2. CASE Peer(x) = e
    BY <2>1, <2>2, <1>5
  <2>3. CASE Peer(x) # e
    BY <2>1, <2>3, <1>5, EndsFacts
  <2> QED
    BY <2>2, <2>3
<1>13. WaitingGenuine' /\ WaitingAheadOfGap'
  BY <1>4, <1>7, EndsFacts
  DEF Inductive, WaitingGenuine, WaitingAheadOfGap
<1>14. NetGenuine'
  <2> SUFFICES ASSUME NEW x \in Ends, NEW pkt \in net'[x]
               PROVE  /\ pkt.ack =< lastInOrder[Peer(x)]
                      /\ \A c \in ToSet(pkt.chunks) :
                           c \in Genuine(Peer(x))' \/ c.num =< lastInOrder[x]
    BY <1>4 DEF NetGenuine
  <2>1. CASE pkt \in net[x]
    BY <2>1, <1>7, EndsFacts DEF Inductive, NetGenuine
  <2>2. CASE x = Peer(e) /\ pkt \in sent
    <3>1. Peer(x) = e
      BY <2>2, EndsFacts
    <3>2. pkt.ack = lastInOrder[e] /\ lastInOrder[e] \in Int
      BY <2>2, <1>3, <1>4 DEF ChunkTypes
    <3>3. \A c \in ToSet(pkt.chunks) : c \in Genuine(e)'
      BY <2>2, <1>3
    <3> QED
      BY <3>1, <3>2, <3>3
  <2> QED
    BY <2>1, <2>2, <1>3, <1>4, EndsFacts DEF ChunkTypes
<1>15. ServerSilentUntilOpened'
  <2>1. created[e] = <<>> /\ data = <<>> => created'[e] = <<>>
    BY <1>5, ConcatEmptySeq
  <2> QED
    BY <2>1, <1>2, <1>4, <1>5, EndsFacts
    DEF Flushed, Inductive, ServerSilentUntilOpened
<1> QED
  BY <1>6, <1>9, <1>10, <1>11, <1>12, <1>13, <1>14, <1>15 DEF Inductive

--------------------------------------------------------------------------------
(* ProcessRawPacket. *)

(* AckChunks takes from the front of the window what the peer has          *)
(* processed; what is to be repeated afterwards is still in the window.    *)
LEMMA AckStep ==
  ASSUME Inductive, NEW e \in Ends, NEW pkt \in Datagram,
         pkt.ack =< lastInOrder[Peer(e)]
  PROVE  LET unacked == AfterAck(e, pkt)
             window  == unacked \o newChunks[e]
         IN  /\ unacked \in Seq(Chunk)
             /\ IsWindow(window, Len(created[e]), created[e])
             /\ Len(created[e]) - Len(window) =< lastInOrder[Peer(e)] + 1
             /\ StillWanted(e, pkt) \cup NakRequests(unacked, pkt) \subseteq ToSet(unacked)
<1> DEFINE old == unackedChunks[e]
           new == newChunks[e]
           n == NumAcked(old, pkt.ack)
           unacked == SubSeq(old, n + 1, Len(old))
           window == unacked \o new
           next == Len(created[e])
           base == next - Len(Window(e))
<1>1. /\ old \in Seq(Chunk) /\ new \in Seq(Chunk) /\ Window(e) = old \o new
      /\ resendRequested[e] \subseteq ToSet(old)
      /\ lastInOrder[Peer(e)] \in Int
  BY EndsFacts DEF Inductive, ChunkTypes, ResendsAreUnacked, Window
<1>2. /\ Len(old) \in Nat /\ Len(new) \in Nat
      /\ Window(e) \in Seq(Chunk) /\ Len(Window(e)) = Len(old) + Len(new)
      /\ \A i \in 1..Len(old) : Window(e)[i] = old[i]
      /\ \A i \in 1..Len(new) : Window(e)[Len(old) + i] = new[i]
  <2> HIDE DEF old, new
  <2>1. /\ old \o new \in Seq(Chunk) /\ Len(old) \in Nat /\ Len(new) \in Nat
        /\ Len(old \o new) = Len(old) + Len(new)
        /\ \A i \in 1..Len(old) : (old \o new)[i] = old[i]
        /\ \A i \in 1..Len(new) : (old \o new)[Len(old) + i] = new[i]
    BY <1>1, ConcatAt
  <2> QED
    BY <1>1, <2>1
<1>3. /\ next \in Nat /\ base \in Int /\ base =< lastInOrder[Peer(e)] + 1
      /\ \A i \in 1..Len(Window(e)) :
           /\ Window(e)[i].num = base + i - 1
           /\ Window(e)[i].data = created[e][Window(e)[i].num + 1]
  <2>1. next \in Nat /\ next = currentPacketChunkNum[e]
    BY WindowOf, LenProperties DEF Inductive, ChunkTypes
  <2>2. base =< lastInOrder[Peer(e)] + 1
    BY <2>1 DEF Inductive, AckedWasProcessed
  <2>3. base \in Int
    BY <2>1, WindowOf, LenProperties
  <2> QED
    BY <2>1, <2>2, <2>3, WindowOf DEF IsWindow
<1>4. pkt.ack \in Int /\ pkt.naks \subseteq Nat /\ pkt.nakRun \in Nat
  BY DEF Datagram
<1> HIDE DEF old, new, base, next
<1>5. /\ n \in 0..Len(old)
      /\ \A i \in 1..n : old[i].num =< pkt.ack
      /\ n < Len(old) => old[n + 1].num > pkt.ack
  <2>1. \A i \in 1..Len(old) : old[i].num = base + i - 1
    BY <1>2, <1>3
  <2> QED
    BY <1>1, <1>3, <1>4, <2>1, NumAckedChoice
<1>6. unacked = AfterAck(e, pkt)
  BY DEF AfterAck, old
<1> HIDE DEF n
<1>7. /\ unacked \in Seq(Chunk) /\ Len(unacked) = Len(old) - n
      /\ \A i \in 1..Len(unacked) : unacked[i] = old[n + i]
  <2>1. \A j \in (n + 1)..Len(old) : old[j] \in Chunk
    BY <1>1, <1>2, <1>5, ElementOfSeq
  <2>2. n + 1 \in Int /\ Len(old) \in Int
    BY <1>2, <1>5
  <2>3. /\ unacked \in Seq(Chunk)
        /\ Len(unacked) = IF n + 1 =< Len(old) THEN Len(old) - (n + 1) + 1 ELSE 0
        /\ \A i \in 1..(Len(old) - (n + 1) + 1) : unacked[i] = old[n + 1 + i - 1]
    BY <2>1, <2>2, SubSeqProperties
  <2>4. Len(unacked) = Len(old) - n
    BY <2>3, <1>2, <1>5
  <2>5. ASSUME NEW i \in 1..Len(unacked)
        PROVE  unacked[i] = old[n + i]
    <3>1. i \in 1..(Len(old) - (n + 1) + 1) /\ n + 1 + i - 1 = n + i
      BY <2>4, <1>2, <1>5
    <3> QED
      BY <3>1, <2>3
  <2> QED
    BY <2>3, <2>4, <2>5
<1> HIDE DEF unacked
<1>8. /\ Len(window) = Len(Window(e)) - n
      /\ \A i \in 1..Len(window) : window[i] = Window(e)[n + i]
  <2>1. /\ Len(unacked) \in Nat
        /\ Len(unacked \o new) = Len(unacked) + Len(new)
        /\ \A i \in 1..Len(unacked) : (unacked \o new)[i] = unacked[i]
        /\ \A i \in 1..Len(new) : (unacked \o new)[Len(unacked) + i] = new[i]
    <3>1. unacked \in Seq(Chunk) /\ new \in Seq(Chunk)
      BY <1>1, <1>7
    <3> QED
      BY <3>1, ConcatAt
  <2>2. /\ Len(unacked) \in Nat /\ Len(window) = Len(unacked) + Len(new)
        /\ \A i \in 1..Len(unacked) : window[i] = unacked[i]
        /\ \A i \in 1..Len(new) : window[Len(unacked) + i] = new[i]
    BY <2>1
  <2> HIDE DEF window
  <2>3. Len(window) = Len(Window(e)) - n
    BY <2>2, <1>2, <1>5, <1>7
  <2>4. ASSUME NEW i \in 1..Len(window)
        PROVE  window[i] = Window(e)[n + i]
    <3>1. CASE i =< Len(unacked)
      <4>1. window[i] = unacked[i] /\ unacked[i] = old[n + i] /\ n + i \in 1..Len(old)
        BY <3>1, <2>2, <1>2, <1>5, <1>7
      <4> QED
        BY <4>1, <1>2
    <3>2. CASE i > Len(unacked)
      <4> DEFINE j == i - Len(unacked)
      <4>1. /\ j \in 1..Len(new) /\ i = Len(unacked) + j
            /\ n + i = Len(old) + j
        BY <3>2, <2>2, <1>2, <1>5, <1>7
      <4> HIDE DEF j
      <4>2. window[Len(unacked) + j] = new[j] /\ Window(e)[Len(old) + j] = new[j]
        BY <4>1, <2>2, <1>2
      <4> QED
        BY <4>1, <4>2
    <3> QED
      BY <3>1, <3>2, <2>2
  <2> QED
    BY <2>3, <2>4
<1> HIDE DEF window
<1>9. IsWindow(window, next, created[e])
  <2> SUFFICES ASSUME NEW i \in 1..Len(window)
               PROVE  /\ window[i].num = next - Len(window) + i - 1
                      /\ window[i].data = created[e][window[i].num + 1]
    BY DEF IsWindow
  <2>1. n + i \in 1..Len(Window(e)) /\ window[i] = Window(e)[n + i]
    BY <1>2, <1>5, <1>8
  <2>2. /\ Window(e)[n + i].num = base + (n + i) - 1
        /\ Window(e)[n + i].data = created[e][Window(e)[n + i].num + 1]
    BY <2>1, <1>3
  <2>3. base + (n + i) - 1 = next - Len(window) + i - 1
    BY <1>2, <1>3, <1>5, <1>8 DEF base
  <2> QED
    BY <2>1, <2>2, <2>3
<1>10. next - Len(window) =< lastInOrder[Peer(e)] + 1
  <2>1. next - Len(window) = base + n
    BY <1>2, <1>3, <1>5, <1>8 DEF base
  <2>2. CASE n = 0
    BY <2>1, <2>2, <1>3
  <2>3. CASE n > 0
    <3>1. n \in 1..n /\ n \in 1..Len(old) /\ n \in 1..Len(Window(e))
      BY <2>3, <1>2, <1>5
    <3>2. old[n].num =< pkt.ack /\ old[n] = Window(e)[n]
      BY <3>1, <1>2, <1>5
    <3>3. Window(e)[n].num = base + n - 1
      BY <3>1, <1>3
    <3> QED
      BY <2>1, <3>2, <3>3, <1>1, <1>3, <1>4, <1>5
  <2> QED
    BY <2>2, <2>3, <1>5
<1>11. \A i \in 1..Len(unacked) : unacked[i] \in ToSet(unacked)
  BY <1>7, ToSetType
<1>12. ASSUME NEW c \in StillWanted(e, pkt)
       PROVE  c \in ToSet(unacked)
  <2>1. c \in ToSet(old) /\ c.num > pkt.ack
    BY <1>1 DEF StillWanted
  <2>2. PICK i \in 1..Len(old) : c = old[i]
    BY <1>1, <2>1, ToSetType
  <2>3. c \in Chunk /\ c.num \in Nat
    <3>1. old[i] \in Chunk
      BY <1>1, ElementOfSeq
    <3> QED
      BY <2>2, <3>1 DEF Chunk
  <2>4. ~ (i \in 1..n)
    BY <2>1, <2>2, <2>3, <1>4, <1>5
  <2>5. i - n \in 1..Len(unacked) /\ n + (i - n) = i
    BY <2>4, <1>2, <1>5, <1>7
  <2>6. c = unacked[i - n]
    BY <2>2, <2>5, <1>7
  <2> QED
    BY <2>5, <2>6, <1>11
<1>13. ASSUME NEW c \in NakRequests(unacked, pkt)
       PROVE  c \in ToSet(unacked)
  <2>1. /\ NakInRange(unacked, pkt)
        /\ \E i \in Losses(pkt) : /\ UnAckPos(unacked, pkt, i) < Len(unacked)
                                  /\ c = unacked[UnAckPos(unacked, pkt, i) + 1]
    BY DEF NakRequests
  <2>2. PICK i \in Losses(pkt) : /\ UnAckPos(unacked, pkt, i) < Len(unacked)
                                 /\ c = unacked[UnAckPos(unacked, pkt, i) + 1]
    BY <2>1
  <2>3. unacked # <<>> /\ Len(unacked) \in Nat
    BY <2>1, <1>7, LenProperties DEF NakInRange
  <2>4. 1 \in 1..Len(unacked)
    BY <2>3, <1>7, EmptySeq
  <2>5. unacked[1] = old[n + 1] /\ old[n + 1].num > pkt.ack /\ unacked[1].num \in Nat
    <3>1. unacked[1] = old[n + 1] /\ n < Len(old)
      BY <2>4, <1>2, <1>5, <1>7
    <3>2. unacked[1] \in Chunk
      BY <2>4, <1>7, ElementOfSeq
    <3> QED
      BY <3>1, <3>2, <1>5 DEF Chunk
  <2>6. UnAckDiff(unacked, pkt) \in Nat
    BY <2>5, <1>4 DEF UnAckDiff, FirstNum
  <2>7. i \in Nat
    BY <1>4 DEF Losses
  <2>8. UnAckPos(unacked, pkt, i) + 1 \in 1..Len(unacked)
    BY <2>2, <2>3, <2>6, <2>7 DEF UnAckPos
  <2> QED
    BY <2>2, <2>8, <1>11
<1> QED
  BY <1>6, <1>7, <1>9, <1>10, <1>12, <1>13 DEF window, next, new

(* What is processed continues what was, with what the peer created; what  *)
(* waits is still ahead of a gap.                                          *)
LEMMA ProcessStep ==
  ASSUME Inductive, NEW e \in Ends, NEW pkt \in net[e],
         Process(e, waitingPackets[e] \cup Accepted(e, pkt))
  PROVE  /\ lastInOrder' \in [Ends -> Nat \cup {-1}]
         /\ waitingPackets' \in [Ends -> SUBSET Chunk]
         /\ processed' \in [Ends -> Seq(Seq(Units))]
         /\ InOrder(e, waitingPackets[e] \cup Accepted(e, pkt)) \in Seq(Seq(Units))
         /\ processed'[e] =
              processed[e] \o InOrder(e, waitingPackets[e] \cup Accepted(e, pkt))
         /\ DOMAIN msgQueue' = Ends
         /\ \A x \in Ends \ {e} :
              UNCHANGED <<lastInOrder[x], waitingPackets[x], processed[x], msgQueue[x]>>
         /\ lastInOrder'[e] >= lastInOrder[e]
         /\ Opens(pkt) => lastInOrder'[e] >= 0
         /\ Len(processed'[e]) = lastInOrder'[e] + 1
         /\ Len(processed'[e]) =< Len(created[Peer(e)])
         /\ \A i \in 1..Len(processed'[e]) : processed'[e][i] = created[Peer(e)][i]
         /\ IsFiniteSet(waitingPackets'[e])
         /\ waitingPackets'[e] \subseteq Genuine(Peer(e))
         /\ \A c \in waitingPackets'[e] : c.num > lastInOrder'[e] + 1
<1> DEFINE arrived == waitingPackets[e] \cup Accepted(e, pkt)
           n == lastInOrder[e]
           m == EndOfRun(n, arrived)
           at(i) == CHOOSE c \in arrived : c.num = n + i
           data == [i \in 1..(m - n) |-> at(i).data]
           theirs == created[Peer(e)]
           rest == {c \in arrived : c.num > m}
<1>1. /\ n \in Nat \cup {-1} /\ theirs \in Seq(Seq(Units)) /\ Len(theirs) \in Nat
      /\ processed[e] \in Seq(Seq(Units)) /\ Len(processed[e]) = n + 1
      /\ n + 1 =< Len(theirs)
      /\ \A i \in 1..(n + 1) : processed[e][i] = theirs[i]
      /\ pkt \in Datagram
  BY EndsFacts, LenProperties DEF Inductive, ChunkTypes, ProcessedInOrder
<1>2. pkt.chunks \in Seq(Chunk)
  BY <1>1 DEF Datagram
<1>3. arrived \in SUBSET Genuine(Peer(e)) /\ IsFiniteSet(arrived)
  <2>1. ASSUME NEW c \in Accepted(e, pkt)
        PROVE  c \in Genuine(Peer(e))
    <3>1. c \in ToSet(pkt.chunks) /\ c.num > n
      BY DEF Accepted
    <3>2. c \in Chunk
      BY <3>1, <1>2, ToSetType
    <3>3. c \in Genuine(Peer(e)) \/ c.num =< n
      BY <3>1 DEF Inductive, NetGenuine
    <3> QED
      BY <3>1, <3>2, <3>3, <1>1 DEF Chunk
  <2>2. waitingPackets[e] \subseteq Genuine(Peer(e)) /\ IsFiniteSet(waitingPackets[e])
    BY DEF Inductive, WaitingGenuine
  <2>3. IsFiniteSet(Accepted(e, pkt))
    <3>1. Accepted(e, pkt) \in SUBSET ToSet(pkt.chunks)
      BY DEF Accepted
    <3> QED
      BY <1>2, <3>1, ToSetType, FS_Subset
  <2> QED
    BY <2>1, <2>2, <2>3, FS_Union
<1>4. Opens(pkt) /\ n = -1 => 0 \in Nums(arrived)
  <2> SUFFICES ASSUME Opens(pkt), n = -1
               PROVE  0 \in Nums(arrived)
    OBVIOUS
  <2>1. pkt.chunks # <<>> /\ pkt.chunks[1].num = 0
    BY DEF Opens, FirstNum
  <2>2. 1 \in 1..Len(pkt.chunks)
    BY <1>2, <2>1, EmptySeq, LenProperties
  <2>3. pkt.chunks[1] \in ToSet(pkt.chunks)
    BY <1>2, <2>2, ToSetType
  <2>4. 0 \notin Nums(waitingPackets[e])
    <3>1. \A c \in waitingPackets[e] : c.num > n + 1
      BY DEF Inductive, WaitingAheadOfGap
    <3> QED
      BY <3>1 DEF Nums
  <2>5. pkt.chunks[1] \in Accepted(e, pkt)
    BY <2>1, <2>3, <2>4 DEF Accepted
  <2> QED
    BY <2>1, <2>5 DEF Nums
<1> HIDE DEF arrived
<1>5. \A c \in arrived : /\ c \in Chunk /\ c.num \in Nat
                         /\ c.num < Len(theirs) /\ c.data = theirs[c.num + 1]
  BY <1>3 DEF Genuine, Chunk
<1>6. /\ m \in Int /\ m >= n /\ (n + 1)..m \subseteq Nums(arrived)
      /\ m + 1 \notin Nums(arrived)
  <2>1. arrived \in SUBSET Chunk /\ n \in Int
    BY <1>1, <1>5
  <2> QED
    BY <1>3, <2>1, EndOfRunChoice
<1>7. /\ lastInOrder' = [lastInOrder EXCEPT ![e] = n + Len(data)]
      /\ waitingPackets' = [waitingPackets EXCEPT ![e] =
           {c \in arrived : c.num > n + Len(data)}]
      /\ processed' = [processed EXCEPT ![e] = @ \o data]
      /\ DOMAIN msgQueue' = DOMAIN msgQueue
      /\ \A x \in Ends \ {e} : msgQueue'[x] = msgQueue[x]
  BY DEF Process, InOrder, arrived, Inductive, ChunkTypes
<1>0. data = InOrder(e, waitingPackets[e] \cup Accepted(e, pkt))
  BY DEF InOrder, arrived
<1> HIDE DEF n, m, theirs
<1>8. \A i \in 1..(m - n) : /\ n + i \in Nat /\ n + i < Len(theirs)
                            /\ at(i).data = theirs[n + i + 1]
  <2> SUFFICES ASSUME NEW i \in 1..(m - n)
               PROVE  /\ n + i \in Nat /\ n + i < Len(theirs)
                      /\ at(i).data = theirs[n + i + 1]
    OBVIOUS
  <2>1. n + i \in (n + 1)..m
    BY <1>1, <1>6
  <2>2. \E c \in arrived : c.num = n + i
    BY <1>6, <2>1 DEF Nums
  <2>3. at(i) \in arrived /\ at(i).num = n + i
    BY <2>2
  <2> HIDE DEF at
  <2> QED
    BY <2>3, <1>5
<1>9. \A x \in Seq(Seq(Units)) : \A i \in 1..Len(x) : x[i] \in Seq(Units)
  BY ElementOfSeq
<1>10. data \in Seq(Seq(Units)) /\ Len(data) = m - n
  <2>1. \A i \in 1..(m - n) : at(i).data \in Seq(Units)
    <3> HIDE DEF at
    <3> SUFFICES ASSUME NEW i \in 1..(m - n)
                 PROVE  at(i).data \in Seq(Units)
      OBVIOUS
    <3>1. n + i + 1 \in 1..Len(theirs) /\ at(i).data = theirs[n + i + 1]
      BY <1>1, <1>8
    <3> QED
      BY <3>1, <1>1, <1>9
  <2> HIDE DEF at
  <2>2. m - n \in Nat
    BY <1>1, <1>6
  <2>3. data \in [1..(m - n) -> Seq(Units)]
    BY <2>1
  <2> HIDE DEF data
  <2> QED
    BY <2>2, <2>3, FunctionIsSeq
<1>11. \A i \in 1..(m - n) : data[i] = theirs[n + i + 1]
  <2> HIDE DEF at
  <2> QED
    BY <1>8
<1> HIDE DEF data
<1>12. n + Len(data) = m /\ m \in Nat \cup {-1}
  BY <1>1, <1>6, <1>10
<1>13. /\ lastInOrder'[e] = m /\ waitingPackets'[e] = rest
       /\ processed'[e] = processed[e] \o data
       /\ rest \in SUBSET arrived
  BY <1>7, <1>12 DEF Inductive, ChunkTypes
<1>14. /\ processed'[e] \in Seq(Seq(Units)) /\ Len(processed'[e]) = m + 1
       /\ \A i \in 1..(n + 1) : processed'[e][i] = processed[e][i]
       /\ \A i \in 1..(m - n) : processed'[e][n + 1 + i] = data[i]
  <2>1. /\ processed[e] \o data \in Seq(Seq(Units))
        /\ Len(processed[e] \o data) = Len(processed[e]) + Len(data)
        /\ \A i \in 1..Len(processed[e]) : (processed[e] \o data)[i] = processed[e][i]
        /\ \A i \in 1..Len(data) : (processed[e] \o data)[Len(processed[e]) + i] = data[i]
    <3>1. processed[e] \in Seq(Seq(Units)) /\ data \in Seq(Seq(Units))
      BY <1>1, <1>10
    <3> QED
      BY <3>1, ConcatAt
  <2>2. Len(processed[e]) = n + 1 /\ Len(data) = m - n /\ n + 1 + (m - n) = m + 1
    BY <1>1, <1>6, <1>10
  <2> QED
    BY <2>1, <2>2, <1>13
<1>15. \A i \in 1..(m + 1) : processed'[e][i] = theirs[i]
  <2> SUFFICES ASSUME NEW i \in 1..(m + 1)
               PROVE  processed'[e][i] = theirs[i]
    OBVIOUS
  <2>1. CASE i =< n + 1
    BY <2>1, <1>1, <1>14
  <2>2. CASE i > n + 1
    <3> DEFINE j == i - (n + 1)
    <3>1. j \in 1..(m - n) /\ i = n + 1 + j /\ n + j + 1 = i
      BY <2>2, <1>1, <1>6
    <3> HIDE DEF j
    <3>2. processed'[e][n + 1 + j] = data[j] /\ data[j] = theirs[n + j + 1]
      BY <3>1, <1>11, <1>14
    <3> QED
      BY <3>1, <3>2
  <2> QED
    BY <2>1, <2>2, <1>1
<1>16. m + 1 =< Len(theirs)
  <2>1. CASE m = n
    BY <2>1, <1>1
  <2>2. CASE m > n
    <3>1. m - n \in 1..(m - n) /\ n + (m - n) = m
      BY <2>2, <1>1, <1>6
    <3>2. n + (m - n) < Len(theirs)
      BY <3>1, <1>8
    <3> QED
      BY <3>1, <3>2, <1>1, <1>6
  <2> QED
    BY <2>1, <2>2, <1>1, <1>6
<1>17. \A c \in rest : c.num > m + 1
  <2> SUFFICES ASSUME NEW c \in rest
               PROVE  c.num > m + 1
    OBVIOUS
  <2>1. c \in arrived /\ c.num > m
    OBVIOUS
  <2>2. c.num # m + 1
    BY <2>1, <1>6 DEF Nums
  <2> QED
    BY <2>1, <2>2, <1>5, <1>6
<1>18. Opens(pkt) => m >= 0
  <2>1. CASE n = -1
    <3>1. Opens(pkt) => m + 1 # 0
      BY <2>1, <1>4, <1>6 DEF n
    <3> QED
      BY <3>1, <1>12
  <2>2. CASE n >= 0
    BY <2>2, <1>1, <1>6
  <2> QED
    BY <2>1, <2>2, <1>1
<1>19. IsFiniteSet(rest) /\ rest \subseteq Genuine(Peer(e)) /\ rest \subseteq Chunk
  BY <1>3, <1>5, <1>13, FS_Subset
<1> HIDE DEF rest
<1>20. /\ lastInOrder' \in [Ends -> Nat \cup {-1}]
       /\ waitingPackets' \in [Ends -> SUBSET Chunk]
       /\ processed' \in [Ends -> Seq(Seq(Units))]
       /\ DOMAIN msgQueue' = Ends
       /\ \A x \in Ends \ {e} :
            UNCHANGED <<lastInOrder[x], waitingPackets[x], processed[x], msgQueue[x]>>
  <2>1. lastInOrder' \in [Ends -> Nat \cup {-1}]
    BY <1>7, <1>12 DEF Inductive, ChunkTypes
  <2>2. waitingPackets' \in [Ends -> SUBSET Chunk]
    <3>1. waitingPackets' = [waitingPackets EXCEPT ![e] = rest]
      BY <1>7, <1>12 DEF rest
    <3> QED
      BY <3>1, <1>19 DEF Inductive, ChunkTypes
  <2>3. processed' \in [Ends -> Seq(Seq(Units))]
    <3>1. processed[e] \o data \in Seq(Seq(Units))
      BY <1>13, <1>14
    <3> QED
      BY <1>7, <3>1 DEF Inductive, ChunkTypes
  <2>4. \A x \in Ends \ {e} :
            UNCHANGED <<lastInOrder[x], waitingPackets[x], processed[x], msgQueue[x]>>
    BY <1>7 DEF Inductive, ChunkTypes
  <2> QED
    BY <2>1, <2>2, <2>3, <2>4, <1>7 DEF Inductive, ChunkTypes
<1>21. /\ InOrder(e, waitingPackets[e] \cup Accepted(e, pkt)) \in Seq(Seq(Units))
       /\ processed'[e] =
            processed[e] \o InOrder(e, waitingPackets[e] \cup Accepted(e, pkt))
  BY <1>0, <1>10, <1>13
<1> QED
  BY <1>6, <1>13, <1>14, <1>15, <1>16, <1>17, <1>18, <1>19, <1>20, <1>21 DEF n, theirs

(* A datagram, lost ones aside, keeps the invariant whatever it carries. *)
LEMMA ReceiveStep ==
  ASSUME Inductive, NEW e \in Ends, NEW pkt \in net[e], Receive(e, pkt)
  PROVE  Inductive'
<1> DEFINE unacked == AfterAck(e, pkt)
           f == Peer(e)
<1>1. /\ net' \in [Ends -> SUBSET Datagram] /\ \A x \in Ends : net'[x] \subseteq net[x]
      /\ UNCHANGED <<numSent, taken>>
      /\ e = Client \/ lastInOrder[e] >= 0 \/ Opens(pkt)
      /\ ProcessRawPacket(e, pkt)
  BY DEF Receive, Inductive, ChunkTypes
<1>2. CASE Superfluous(e, pkt)
  <2>1. UNCHANGED <<sender, receiver>>
    BY <1>1, <1>2 DEF ProcessRawPacket
  <2> QED
    BY <1>1, <2>1, NoChunkStep
<1>3. CASE ~Superfluous(e, pkt)
  <2>1. /\ unackedChunks' = [unackedChunks EXCEPT ![e] = unacked]
        /\ resendRequested' = [resendRequested EXCEPT ![e] =
             (StillWanted(e, pkt) \ NakGaps(unacked, pkt)) \cup NakRequests(unacked, pkt)]
        /\ Process(e, waitingPackets[e] \cup Accepted(e, pkt))
        /\ UNCHANGED <<outgoingData, newChunks, currentPacketChunkNum, created>>
    BY <1>1, <1>3 DEF ProcessRawPacket
  <2>2. /\ f \in Ends /\ f # e /\ Peer(f) = e /\ ChunkTypes
        /\ \A x \in Ends : x # e => x = f
        /\ pkt \in Datagram /\ pkt.ack =< lastInOrder[f]
    BY EndsFacts DEF Inductive, ChunkTypes, NetGenuine
  <2>3. /\ lastInOrder' \in [Ends -> Nat \cup {-1}]
        /\ waitingPackets' \in [Ends -> SUBSET Chunk]
        /\ processed' \in [Ends -> Seq(Seq(Units))]
        /\ DOMAIN msgQueue' = Ends
        /\ \A x \in Ends \ {e} :
             UNCHANGED <<lastInOrder[x], waitingPackets[x], processed[x], msgQueue[x]>>
        /\ lastInOrder'[e] >= lastInOrder[e]
        /\ Opens(pkt) => lastInOrder'[e] >= 0
    BY <2>1, ProcessStep
  <2>4. /\ Len(processed'[e]) = lastInOrder'[e] + 1
        /\ Len(processed'[e]) =< Len(created[f])
        /\ \A i \in 1..Len(processed'[e]) : processed'[e][i] = created[f][i]
        /\ IsFiniteSet(waitingPackets'[e])
        /\ waitingPackets'[e] \subseteq Genuine(f)
        /\ \A c \in waitingPackets'[e] : c.num > lastInOrder'[e] + 1
    BY <2>1, ProcessStep
  <2>5. /\ unacked \in Seq(Chunk)
        /\ IsWindow(unacked \o newChunks[e], Len(created[e]), created[e])
        /\ Len(created[e]) - Len(unacked \o newChunks[e]) =< lastInOrder[f] + 1
        /\ StillWanted(e, pkt) \cup NakRequests(unacked, pkt) \subseteq ToSet(unacked)
    BY <2>2, AckStep
  <2> HIDE DEF unacked, f
  <2>6. /\ lastInOrder'[f] = lastInOrder[f]
        /\ lastInOrder[e] \in Int /\ lastInOrder'[e] \in Int
        /\ lastInOrder[f] \in Int
    BY <2>2, <2>3 DEF ChunkTypes
  <2>7. /\ unackedChunks'[e] = unacked /\ unackedChunks'[f] = unackedChunks[f]
        /\ resendRequested'[e] \subseteq ToSet(unacked)
        /\ resendRequested'[f] = resendRequested[f]
    BY <2>1, <2>2, <2>5 DEF ChunkTypes
  <2>8. ChunkTypes'
    <3>1. unackedChunks' \in [Ends -> Seq(Chunk)]
      BY <2>1, <2>2, <2>5 DEF ChunkTypes
    <3>2. resendRequested' \in [Ends -> SUBSET Chunk]
      <4>1. ToSet(unacked) \subseteq Chunk
        BY <2>5, ToSetType
      <4> QED
        BY <2>1, <2>2, <2>7, <4>1 DEF ChunkTypes
    <3> QED
      BY <3>1, <3>2, <1>1, <2>1, <2>2, <2>3 DEF ChunkTypes
  <2>9. /\ \A x \in Ends : Genuine(x)' = Genuine(x)
        /\ Window(e)' = unacked \o newChunks[e] /\ Window(f)' = Window(f)
    BY <2>1, <2>7 DEF Genuine, Window
  <2>10. WindowContiguous'
    <3> SUFFICES ASSUME NEW x \in Ends
                 PROVE  /\ Len(created[x]) = currentPacketChunkNum[x]
                        /\ IsWindow(Window(x)', currentPacketChunkNum[x], created[x])
      BY <2>1 DEF WindowContiguous, IsWindow
    <3>1. /\ Len(created[x]) = currentPacketChunkNum[x]
          /\ IsWindow(Window(x), Len(created[x]), created[x])
      BY WindowOf
    <3> QED
      BY <3>1, <2>2, <2>5, <2>9
  <2>11. AckedWasProcessed'
    <3> SUFFICES ASSUME NEW x \in Ends
                 PROVE  currentPacketChunkNum[x] - Len(Window(x)')
                          =< lastInOrder'[Peer(x)] + 1
      BY <2>1 DEF AckedWasProcessed
    <3>1. CASE x = e
      <4>1. Len(created[e]) = currentPacketChunkNum[e]
        BY WindowOf
      <4> QED
        BY <3>1, <4>1, <2>5, <2>6, <2>9 DEF f
    <3>2. CASE x = f
      <4>1. currentPacketChunkNum[f] - Len(Window(f)) =< lastInOrder[e] + 1
        BY <2>2 DEF Inductive, AckedWasProcessed
      <4>2. currentPacketChunkNum[f] - Len(Window(f)) \in Int
        <5>1. Window(f) \in Seq(Chunk)
          BY <2>2, WindowOf
        <5>2. Len(Window(f)) \in Nat
          BY <5>1, LenProperties
        <5>3. currentPacketChunkNum[f] \in Nat
          BY <2>2 DEF ChunkTypes
        <5> QED
          BY <5>2, <5>3
      <4>3. lastInOrder'[e] >= lastInOrder[e]
        BY <2>3
      <4>4. currentPacketChunkNum[f] - Len(Window(f)) =< lastInOrder'[e] + 1
        BY <4>1, <4>2, <4>3, <2>6
      <4> QED
        BY <3>2, <4>4, <2>2, <2>9
    <3> QED
      BY <3>1, <3>2, <2>2
  <2>12. ResendsAreUnacked'
    <3> SUFFICES ASSUME NEW x \in Ends
                 PROVE  resendRequested'[x] \subseteq ToSet(unackedChunks'[x])
      BY DEF ResendsAreUnacked
    <3>1. resendRequested[x] \subseteq ToSet(unackedChunks[x])
      BY DEF Inductive, ResendsAreUnacked
    <3> QED
      BY <3>1, <2>2, <2>7
  <2>13. ProcessedInOrder'
    <3> SUFFICES ASSUME NEW x \in Ends
                 PROVE  /\ Len(processed'[x]) = lastInOrder'[x] + 1
                        /\ Len(processed'[x]) =< Len(created[Peer(x)])
                        /\ \A i \in 1..Len(processed'[x]) :
                             processed'[x][i] = created[Peer(x)][i]
      BY <2>1 DEF ProcessedInOrder
    <3>1. CASE x = e
      BY <3>1, <2>4 DEF f
    <3>2. CASE x # e
      BY <3>2, <2>3 DEF Inductive, ProcessedInOrder
    <3> QED
      BY <3>1, <3>2
  <2>14. WaitingGenuine' /\ WaitingAheadOfGap'
    <3> SUFFICES ASSUME NEW x \in Ends
                 PROVE  /\ IsFiniteSet(waitingPackets'[x])
                        /\ waitingPackets'[x] \subseteq Genuine(Peer(x))'
                        /\ \A c \in waitingPackets'[x] : c.num > lastInOrder'[x] + 1
      BY DEF WaitingGenuine, WaitingAheadOfGap
    <3>1. Genuine(Peer(x))' = Genuine(Peer(x))
      BY <2>1 DEF Genuine
    <3>2. CASE x = e
      BY <3>1, <3>2, <2>4 DEF f
    <3>3. CASE x # e
      BY <3>1, <3>3, <2>3 DEF Inductive, WaitingGenuine, WaitingAheadOfGap
    <3> QED
      BY <3>2, <3>3
  <2>15. NetGenuine'
    <3> SUFFICES ASSUME NEW x \in Ends, NEW p \in net[x]
                 PROVE  /\ p.ack =< lastInOrder'[Peer(x)]
                        /\ \A c \in ToSet(p.chunks) :
                             c \in Genuine(Peer(x))' \/ c.num =< lastInOrder'[x]
      BY <1>1 DEF NetGenuine
    <3>1. /\ p.ack =< lastInOrder[Peer(x)]
          /\ \A c \in ToSet(p.chunks) :
               c \in Genuine(Peer(x)) \/ c.num =< lastInOrder[x]
      BY DEF Inductive, NetGenuine
    <3>2. p \in Datagram /\ Peer(x) \in Ends
      BY <2>2, EndsFacts DEF ChunkTypes
    <3>3. \A y \in Ends : /\ lastInOrder[y] \in Int /\ lastInOrder'[y] \in Int
                          /\ lastInOrder[y] =< lastInOrder'[y]
      BY <2>2, <2>3, <2>6
    <3>4. p.ack \in Int /\ p.chunks \in Seq(Chunk)
      BY <3>2 DEF Datagram
    <3>5. \A c \in ToSet(p.chunks) : c.num \in Nat
      <4>1. ToSet(p.chunks) \subseteq Chunk
        BY <3>4, ToSetType
      <4> QED
        BY <4>1 DEF Chunk
    <3>6. Genuine(Peer(x))' = Genuine(Peer(x))
      BY <2>1 DEF Genuine
    <3>7. p.ack =< lastInOrder'[Peer(x)]
      BY <3>1, <3>2, <3>3, <3>4
    <3>8. ASSUME NEW c \in ToSet(p.chunks)
          PROVE  c \in Genuine(Peer(x))' \/ c.num =< lastInOrder'[x]
      <4>1. CASE c \in Genuine(Peer(x))
        BY <4>1, <3>6
      <4>2. CASE c.num =< lastInOrder[x]
        BY <4>2, <3>3, <3>5
      <4> QED
        BY <4>1, <4>2, <3>1
    <3> QED
      BY <3>7, <3>8
  <2>16. ServerSilentUntilOpened'
    <3> SUFFICES ASSUME lastInOrder'[Peer(Client)] = -1
                 PROVE  /\ outgoingData'[Peer(Client)] = <<>>
                        /\ created'[Peer(Client)] = <<>>
                        /\ msgQueue'[Peer(Client)] = <<>>
                        /\ taken'[Peer(Client)] = <<>>
      BY DEF ServerSilentUntilOpened
    <3>1. CASE e = Client
      <4>1. Peer(Client) \in Ends \ {e}
        BY <3>1, EndsFacts
      <4>2. /\ lastInOrder'[Peer(Client)] = lastInOrder[Peer(Client)]
            /\ msgQueue'[Peer(Client)] = msgQueue[Peer(Client)]
        BY <4>1, <2>3
      <4> QED
        BY <4>2, <1>1, <2>1 DEF Inductive, ServerSilentUntilOpened
    <3>2. CASE e # Client
      <4>1. e = Peer(Client)
        BY <3>2, EndsFacts
      <4>2. lastInOrder[e] >= 0 \/ Opens(pkt)
        BY <3>2, <1>1
      <4>3. lastInOrder'[e] >= 0
        BY <4>2, <2>3, <2>6
      <4> QED
        BY <4>1, <4>3, <2>6
    <3> QED
      BY <3>1, <3>2
  <2> QED
    BY <2>8, <2>10, <2>11, <2>12, <2>13, <2>14, <2>15, <2>16 DEF Inductive
<1> QED
  BY <1>2, <1>3

(* Close flushes or does nothing. *)
LEMMA CloseStep ==
  ASSUME Inductive, NEW e \in Ends, NEW flush \in BOOLEAN, Close(e, flush)
  PROVE  Inductive'
<1>1. CASE muted[e]
  <2>1. UNCHANGED <<sender, receiver, numSent, taken, net>>
    BY <1>1 DEF Close
  <2> QED
    BY <2>1, NoChunkStep DEF Inductive, ChunkTypes
<1>2. CASE ~muted[e]
  <2>1. DoFlush(e, flush) /\ UNCHANGED <<receiver, numSent, taken>>
    BY <1>2 DEF Close
  <2> QED
    BY <2>1, FlushStep
<1> QED
  BY <1>1, <1>2

--------------------------------------------------------------------------------
(* The theorems. *)

(* Every step keeps the invariant. *)
LEMMA NextInductive ==
  ASSUME Inductive, [Next]_vars
  PROVE  Inductive'
<1>1. ASSUME NEW e \in Ends, Unmute(e)
      PROVE  Inductive'
  BY <1>1, NoChunkStep DEF Unmute, Inductive, ChunkTypes
<1>2. ASSUME NEW e \in Ends, SendData(e)
      PROVE  Inductive'
  BY <1>2, SendDataStep
<1>3. ASSUME NEW e \in Ends, GetData(e)
      PROVE  Inductive'
  BY <1>3, GetDataStep
<1>4. ASSUME NEW e \in Ends, NEW forced \in BOOLEAN, Flush(e, forced)
      PROVE  Inductive'
  BY <1>4, FlushStep DEF Flush
<1>5. ASSUME NEW e \in Ends, NEW flush \in BOOLEAN, Close(e, flush)
      PROVE  Inductive'
  BY <1>5, CloseStep
<1>6. ASSUME NEW e \in Ends, NEW pkt \in net[e], Receive(e, pkt)
      PROVE  Inductive'
  BY <1>6, ReceiveStep
<1>7. ASSUME NEW e \in Ends, NEW pkt \in net[e], Lose(e, pkt)
      PROVE  Inductive'
  <2>1. /\ net' = [net EXCEPT ![e] = @ \ {pkt}]
        /\ UNCHANGED <<sender, receiver, numSent, taken>>
    BY <1>7 DEF Lose
  <2>2. net \in [Ends -> SUBSET Datagram]
    BY DEF Inductive, ChunkTypes
  <2>3. net' \in [Ends -> SUBSET Datagram] /\ \A x \in Ends : net'[x] \subseteq net[x]
    BY <2>1, <2>2
  <2> QED
    BY <2>1, <2>3, NoChunkStep
<1>8. CASE AttemptReconnect
  BY <1>8, AttemptReconnectStep
<1>9. CASE UNCHANGED vars
  BY <1>9, NoChunkStep DEF vars, Inductive, ChunkTypes
<1> QED
  BY <1>1, <1>2, <1>3, <1>4, <1>5, <1>6, <1>7, <1>8, <1>9 DEF Next, Update

(* The inductive invariant holds whatever the network does. *)
THEOREM InductiveHolds == Spec => []Inductive
  BY InitInductive, NextInductive, PTL DEF Spec

(* unackedChunks and newChunks hold consecutive numbers with the data they *)
(* were created with, as AckChunks and the nak arithmetic assume.          *)
THEOREM WindowIsContiguous == Spec => []WindowContiguous
<1>1. Inductive => WindowContiguous
  BY DEF Inductive
<1> QED
  BY <1>1, InductiveHolds, PTL

(* A chunk only leaves unackedChunks once the peer has processed it. *)
THEOREM NothingForgotten == Spec => []AckedWasProcessed
<1>1. Inductive => AckedWasProcessed
  BY DEF Inductive
<1> QED
  BY <1>1, InductiveHolds, PTL

(* resendRequested only names chunks the peer may still miss. *)
THEOREM OnlyUnackedAreRepeated == Spec => []ResendsAreUnacked
<1>1. Inductive => ResendsAreUnacked
  BY DEF Inductive
<1> QED
  BY <1>1, InductiveHolds, PTL

(* waitingPackets holds only chunks that cannot be processed yet. *)
THEOREM WaitingChunksWait == Spec => []WaitingAheadOfGap
<1>1. Inductive => WaitingAheadOfGap
  BY DEF Inductive
<1> QED
  BY <1>1, InductiveHolds, PTL

(* Whatever the network loses, repeats and reorders, an end processes the  *)
(* chunks its peer created, in their order, each once.                     *)
THEOREM ProcessingIsInOrder == Spec => []ChunksInOrder
<1>1. Inductive => ChunksInOrder
  <2> SUFFICES ASSUME Inductive, NEW e \in Ends
               PROVE  IsPrefix(processed[e], created[Peer(e)])
    BY DEF ChunksInOrder
  <2> DEFINE p == processed[e]
             c == created[Peer(e)]
  <2>1. /\ p \in Seq(Seq(Units)) /\ c \in Seq(Seq(Units))
        /\ Len(p) \in Nat /\ Len(c) \in Nat /\ Len(p) =< Len(c)
        /\ \A i \in 1..Len(p) : p[i] = c[i]
    BY EndsFacts, LenProperties DEF Inductive, ChunkTypes, ProcessedInOrder
  <2> HIDE DEF p, c
  <2>2. SubSeq(c, 1, Len(p)) \in Seq(Seq(Units))
    BY <2>1, ElementOfSeq, SubSeqProperties
  <2>3. /\ Len(SubSeq(c, 1, Len(p))) = Len(p)
        /\ \A i \in 1..Len(p) : SubSeq(c, 1, Len(p))[i] = p[i]
    BY <2>1
  <2>4. p = SubSeq(c, 1, Len(p))
    BY <2>1, <2>2, <2>3, SeqEqual
  <2>5. SubSeq(p, 1, Len(p)) = p
    BY <2>1, SubSeqFull
  <2> QED
    BY <2>1, <2>4, <2>5 DEF IsPrefix, p, c
<1> QED
  BY <1>1, InductiveHolds, PTL

================================================================================
