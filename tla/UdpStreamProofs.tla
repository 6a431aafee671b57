---------------------------- MODULE UdpStreamProofs ----------------------------
(***************************************************************************)
(* Proofs about UdpConnection, continued: from the order of the chunks to  *)
(* the order of the messages.  The units of an end's messages are one      *)
(* stream; its chunks and outgoingData are consecutive pieces of it, and   *)
(* the peer has cut what it has processed of it into the same messages.    *)
(***************************************************************************)
EXTENDS UdpConnectionProofs

(* The unit before the first one. *)
Origin == [msg |-> 0, pos |-> 0, last |-> TRUE]

(* The units of the first m messages, and how they follow one another. *)
UnitsOf(sizes, m) ==
  {u \in Units : /\ u.msg \in 1..m
                 /\ u.pos \in 1..sizes[u.msg]
                 /\ u.last <=> u.pos = sizes[u.msg]}

Follows(u, v) ==
  /\ u.last => v.msg = u.msg + 1 /\ v.pos = 1
  /\ ~u.last => v.msg = u.msg /\ v.pos = u.pos + 1

(* A piece of the stream. *)
IsRun(units, S) ==
  /\ units \in Seq(S)
  /\ \A i \in 1..(Len(units) - 1) : Follows(units[i], units[i + 1])

(* Consecutive pieces of the stream, the first of which follows start. *)
EndAt(start, chunks, i) == IF i = 0 THEN start ELSE chunks[i][Len(chunks[i])]

AreJoined(start, chunks, S) ==
  \A i \in 1..Len(chunks) :
    /\ IsRun(chunks[i], S) /\ chunks[i] # <<>>
    /\ Follows(EndAt(start, chunks, i - 1), chunks[i][1])
--------------------------------------------------------------------------------
(* Pieces of the stream. *)

(* Two pieces that follow each other are one. *)
LEMMA ConcatRun ==
  ASSUME NEW S, NEW s, NEW t, IsRun(s, S), IsRun(t, S), s # <<>>, t # <<>>,
         Follows(s[Len(s)], t[1])
  PROVE  /\ IsRun(s \o t, S) /\ s \o t # <<>>
         /\ (s \o t)[1] = s[1] /\ (s \o t)[Len(s \o t)] = t[Len(t)]
<1> DEFINE both == s \o t
<1>1. s \in Seq(S) /\ t \in Seq(S)
  BY DEF IsRun
<1>2. /\ both \in Seq(S) /\ Len(s) \in Nat /\ Len(t) \in Nat
      /\ Len(both) = Len(s) + Len(t)
      /\ \A i \in 1..Len(s) : both[i] = s[i]
      /\ \A i \in 1..Len(t) : both[Len(s) + i] = t[i]
  BY <1>1, ConcatAt
<1>3. Len(s) >= 1 /\ Len(t) >= 1
  BY <1>1, <1>2, EmptySeq
<1> HIDE DEF both
<1>4. ASSUME NEW i \in 1..(Len(both) - 1)
      PROVE  Follows(both[i], both[i + 1])
  <2>1. CASE i < Len(s)
    <3>1. i \in 1..Len(s) /\ i + 1 \in 1..Len(s) /\ i \in 1..(Len(s) - 1)
      BY <2>1, <1>2
    <3> QED
      BY <3>1, <1>2 DEF IsRun
  <2>2. CASE i = Len(s)
    <3>1. i \in 1..Len(s) /\ 1 \in 1..Len(t)
      BY <2>2, <1>2, <1>3
    <3> QED
      BY <2>2, <3>1, <1>2
  <2>3. CASE i > Len(s)
    <3> DEFINE j == i - Len(s)
    <3>1. /\ j \in 1..(Len(t) - 1) /\ j \in 1..Len(t) /\ j + 1 \in 1..Len(t)
          /\ i = Len(s) + j /\ i + 1 = Len(s) + (j + 1)
      BY <2>3, <1>2
    <3> HIDE DEF j
    <3>2. both[i] = t[j] /\ both[i + 1] = t[j + 1]
      BY <3>1, <1>2
    <3> QED
      BY <3>1, <3>2 DEF IsRun
  <2> QED
    BY <2>1, <2>2, <2>3, <1>2
<1>5. both[1] = s[1] /\ both[Len(both)] = t[Len(t)] /\ both # <<>>
  <2>1. 1 \in 1..Len(s) /\ Len(t) \in 1..Len(t)
    BY <1>2, <1>3
  <2>2. Len(both) # 0
    BY <1>2, <1>3
  <2> QED
    BY <2>1, <2>2, <1>2, EmptySeq
<1> QED
  BY <1>2, <1>4, <1>5 DEF IsRun, both

(* So is a part of one. *)
LEMMA SubRun ==
  ASSUME NEW S, NEW s, IsRun(s, S), NEW a \in 1..(Len(s) + 1), NEW b \in 0..Len(s)
  PROVE  /\ IsRun(SubSeq(s, a, b), S)
         /\ Len(SubSeq(s, a, b)) = IF a =< b THEN b - a + 1 ELSE 0
         /\ \A i \in 1..Len(SubSeq(s, a, b)) : SubSeq(s, a, b)[i] = s[a + i - 1]
<1> DEFINE part == SubSeq(s, a, b)
<1>1. s \in Seq(S) /\ Len(s) \in Nat
  BY LenProperties DEF IsRun
<1>2. \A j \in a..b : s[j] \in S
  BY <1>1, ElementOfSeq
<1>3. /\ part \in Seq(S) /\ Len(part) = IF a =< b THEN b - a + 1 ELSE 0
      /\ \A i \in 1..(b - a + 1) : part[i] = s[a + i - 1]
  BY <1>1, <1>2, SubSeqProperties
<1> HIDE DEF part
<1>4. \A i \in 1..Len(part) : part[i] = s[a + i - 1]
  BY <1>1, <1>3
<1>5. ASSUME NEW i \in 1..(Len(part) - 1)
      PROVE  Follows(part[i], part[i + 1])
  <2> DEFINE j == a + i - 1
  <2>1. /\ i \in 1..Len(part) /\ i + 1 \in 1..Len(part)
        /\ j \in 1..(Len(s) - 1) /\ a + (i + 1) - 1 = j + 1
    <3>1. a =< b /\ Len(part) = b - a + 1
      BY <1>1, <1>3
    <3> QED
      BY <3>1, <1>1
  <2>2. part[i] = s[j] /\ part[i + 1] = s[j + 1]
    BY <2>1, <1>4
  <2> HIDE DEF j
  <2> QED
    BY <2>1, <2>2 DEF IsRun
<1> QED
  BY <1>3, <1>4, <1>5 DEF IsRun, part

(* ... from after b up to k. *)
LEMMA PieceOfRun ==
  ASSUME NEW S, NEW s, IsRun(s, S), NEW b \in Nat, NEW k \in Nat,
         b =< k, k =< Len(s)
  PROVE  /\ IsRun(SubSeq(s, b + 1, k), S)
         /\ Len(SubSeq(s, b + 1, k)) = k - b
         /\ \A j \in 1..(k - b) : SubSeq(s, b + 1, k)[j] = s[b + j]
<1> DEFINE part == SubSeq(s, b + 1, k)
           from == b + 1
<1>1. Len(s) \in Nat /\ k \in 0..Len(s) /\ from \in 1..(Len(s) + 1)
  <2>1. Len(s) \in Nat
    BY LenProperties DEF IsRun
  <2> QED
    BY <2>1
<1>2. /\ IsRun(part, S) /\ Len(part) = IF from =< k THEN k - from + 1 ELSE 0
      /\ \A j \in 1..Len(part) : part[j] = s[from + j - 1]
  <2>1. part = SubSeq(s, from, k)
    OBVIOUS
  <2> HIDE DEF part, from
  <2> QED
    BY <1>1, <2>1, SubRun
<1>3. Len(part) = k - b
  BY <1>2
<1>4. \A j \in 1..(k - b) : from + j - 1 = b + j
  OBVIOUS
<1> QED
  BY <1>2, <1>3, <1>4

(* The units of a run are elements of its set. *)
LEMMA RunAt ==
  ASSUME NEW S, NEW s, IsRun(s, S)
  PROVE  /\ s \in Seq(S) /\ Len(s) \in Nat
         /\ \A i \in 1..Len(s) : s[i] \in S
         /\ s # <<>> <=> Len(s) >= 1
  BY LenProperties, ElementOfSeq, EmptySeq DEF IsRun
--------------------------------------------------------------------------------
(* FlattenSeq joins pieces. *)

FlattenAt(chunks, f, i) == IF i = 1 THEN chunks[i] ELSE f[i - 1] \o chunks[i]

(* Its function exists. *)
LEMMA FlattenExists ==
  ASSUME NEW chunks, NEW n \in Nat
  PROVE  \E f : f = [i \in 1..n |-> FlattenAt(chunks, f, i)]
<1> DEFINE Fine(k) == \E f : f = [i \in 1..k |-> FlattenAt(chunks, f, i)]
           T == {k \in Nat : ~Fine(k)}
<1>1. Fine(0)
  <2> DEFINE f == [i \in 1..0 |-> 0]
  <2>1. f = [i \in 1..0 |-> FlattenAt(chunks, f, i)]
    OBVIOUS
  <2> QED
    BY <2>1
<1>2. ASSUME NEW k \in Nat, Fine(k)
      PROVE  Fine(k + 1)
  <2>1. PICK f : f = [i \in 1..k |-> FlattenAt(chunks, f, i)]
    BY <1>2
  <2> DEFINE h == [i \in 1..(k + 1) |->
                     IF i = k + 1 THEN FlattenAt(chunks, f, i) ELSE f[i]]
  <2>2. \A i \in 1..k : h[i] = f[i]
    OBVIOUS
  <2>3. ASSUME NEW i \in 1..(k + 1)
        PROVE  h[i] = FlattenAt(chunks, h, i)
    <3>1. i # 1 => i - 1 \in 1..k
      OBVIOUS
    <3>2. FlattenAt(chunks, h, i) = FlattenAt(chunks, f, i)
      BY <2>2, <3>1 DEF FlattenAt
    <3>3. CASE i = k + 1
      BY <3>2, <3>3
    <3>4. CASE i # k + 1
      <4>1. i \in 1..k
        BY <3>4
      <4>2. f[i] = FlattenAt(chunks, f, i)
        BY <2>1, <4>1
      <4> QED
        BY <2>2, <3>2, <4>1, <4>2
    <3> QED
      BY <3>3, <3>4
  <2>4. h = [i \in 1..(k + 1) |-> h[i]]
    OBVIOUS
  <2> HIDE DEF h
  <2>5. h = [i \in 1..(k + 1) |-> FlattenAt(chunks, h, i)]
    BY <2>3, <2>4
  <2> QED
    BY <2>5
<1> HIDE DEF Fine
<1>3. T = {}
  <2> SUFFICES ASSUME T # {}
               PROVE  FALSE
    OBVIOUS
  <2>1. PICK k \in T : \A y \in T : k =< y
    BY LeastNat
  <2>2. k \in Nat \ {0}
    BY <1>1
  <2>3. k - 1 \in Nat /\ k - 1 \notin T /\ (k - 1) + 1 = k
    BY <2>1, <2>2
  <2> QED
    BY <1>2, <2>3
<1>4. Fine(n)
  BY <1>3
<1> QED
  BY <1>4 DEF Fine

(* Nothing is joined to nothing. *)
LEMMA FlattenNothing == FlattenSeq(<<>>) = <<>>
  BY DEF FlattenSeq

(* Consecutive pieces are joined to one. *)
LEMMA FlattenRun ==
  ASSUME NEW S, NEW start, NEW chunks \in Seq(Seq(S)), chunks # <<>>,
         AreJoined(start, chunks, S)
  PROVE  LET flat == FlattenSeq(chunks)
         IN  /\ IsRun(flat, S) /\ flat # <<>>
             /\ Follows(start, flat[1])
             /\ flat[Len(flat)] = EndAt(start, chunks, Len(chunks))
<1> DEFINE n == Len(chunks)
           flatten[i \in 1..n] == IF i = 1 THEN chunks[i] ELSE flatten[i-1] \o chunks[i]
<1>1. n \in Nat /\ n >= 1
  BY LenProperties, EmptySeq
<1>2. FlattenSeq(chunks) = flatten[n]
  BY <1>1 DEF FlattenSeq
<1>3. flatten = [i \in 1..n |-> FlattenAt(chunks, flatten, i)]
  <2>1. \E f : f = [i \in 1..n |-> FlattenAt(chunks, f, i)]
    BY <1>1, FlattenExists
  <2> QED
    BY <2>1 DEF FlattenAt
<1> HIDE DEF flatten, n
<1> DEFINE Good(i) == /\ IsRun(flatten[i], S) /\ flatten[i] # <<>>
                      /\ Follows(start, flatten[i][1])
                      /\ flatten[i][Len(flatten[i])] = EndAt(start, chunks, i)
           T == {i \in Nat : i \in 1..n /\ ~Good(i)}
<1>4. ASSUME NEW i \in 1..n, i = 1 \/ (i - 1 \in 1..n /\ Good(i - 1))
      PROVE  Good(i)
  <2>1. /\ IsRun(chunks[i], S) /\ chunks[i] # <<>>
        /\ Follows(EndAt(start, chunks, i - 1), chunks[i][1])
        /\ EndAt(start, chunks, i) = chunks[i][Len(chunks[i])]
    BY <1>1 DEF AreJoined, EndAt, n
  <2>2. CASE i = 1
    <3>1. flatten[i] = chunks[i]
      BY <1>3, <2>2 DEF FlattenAt
    <3>2. EndAt(start, chunks, i - 1) = start
      BY <2>2 DEF EndAt
    <3> QED
      BY <2>1, <3>1, <3>2
  <2>3. CASE i # 1
    <3>1. flatten[i] = flatten[i - 1] \o chunks[i]
      BY <1>3, <2>3 DEF FlattenAt
    <3>2. Good(i - 1)
      BY <1>4, <2>3
    <3> DEFINE before == flatten[i - 1]
               piece == chunks[i]
    <3>3. /\ IsRun(before, S) /\ before # <<>> /\ Follows(start, before[1])
          /\ IsRun(piece, S) /\ piece # <<>> /\ flatten[i] = before \o piece
          /\ piece[Len(piece)] = EndAt(start, chunks, i)
      BY <2>1, <3>1, <3>2
    <3>4. Follows(before[Len(before)], piece[1])
      BY <2>1, <3>2
    <3> HIDE DEF before, piece
    <3>5. /\ IsRun(before \o piece, S) /\ before \o piece # <<>>
          /\ (before \o piece)[1] = before[1]
          /\ (before \o piece)[Len(before \o piece)] = piece[Len(piece)]
      BY <3>3, <3>4, ConcatRun
    <3> QED
      BY <3>3, <3>5
  <2> QED
    BY <2>2, <2>3
<1> HIDE DEF Good
<1>5. T = {}
  <2> SUFFICES ASSUME T # {}
               PROVE  FALSE
    OBVIOUS
  <2>1. PICK i \in T : \A y \in T : i =< y
    BY LeastNat
  <2>2. i = 1 \/ (i - 1 \in 1..n /\ i - 1 \notin T)
    BY <1>1, <2>1
  <2> QED
    BY <1>4, <2>2
<1>6. Good(n)
  BY <1>1, <1>5
<1> QED
  BY <1>2, <1>6 DEF Good, n
--------------------------------------------------------------------------------
(* Where the messages of a run end. *)

(* The run of units of a sender's first m messages that begins with the    *)
(* first unit of message n + 1.                                            *)
BeginsMessage(units, sizes, m, n) ==
  /\ sizes \in Seq(Nat \ {0}) /\ m \in Nat /\ m =< Len(sizes) /\ n \in Nat
  /\ IsRun(units, UnitsOf(sizes, m)) /\ units # <<>>
  /\ units[1].msg = n + 1 /\ units[1].pos = 1

(* The units of the stream. *)
LEMMA UnitsOfFacts ==
  ASSUME NEW sizes \in Seq(Nat \ {0}), NEW m \in Nat, m =< Len(sizes),
         NEW u \in UnitsOf(sizes, m)
  PROVE  /\ u \in Units /\ u = [msg |-> u.msg, pos |-> u.pos, last |-> u.last]
         /\ u.msg \in Nat /\ u.msg \in 1..m
         /\ sizes[u.msg] \in Nat \ {0}
         /\ u.pos \in Nat /\ u.pos >= 1 /\ u.pos =< sizes[u.msg]
         /\ u.last \in BOOLEAN
         /\ u.last <=> u.pos = sizes[u.msg]
<1>1. /\ u \in Units /\ u.msg \in 1..m /\ u.pos \in 1..sizes[u.msg]
      /\ u.last <=> u.pos = sizes[u.msg]
  BY DEF UnitsOf
<1>2. u = [msg |-> u.msg, pos |-> u.pos, last |-> u.last] /\ u.last \in BOOLEAN
  BY <1>1 DEF Units
<1>3. u.msg \in 1..Len(sizes)
  BY <1>1, LenProperties
<1>4. sizes[u.msg] \in Nat \ {0}
  BY <1>3, ElementOfSeq
<1> QED
  BY <1>1, <1>2, <1>4

(* Before a unit of a run lie the units of its message up to it, and before *)
(* those the end of the message before.                                    *)
PlacedAt(units, p) ==
  /\ units[p].pos =< p
  /\ \A i \in 1..units[p].pos :
       /\ units[p - units[p].pos + i].msg = units[p].msg
       /\ units[p - units[p].pos + i].pos = i
  /\ p = units[p].pos \/ units[p - units[p].pos].last

LEMMA RunPlaced ==
  ASSUME NEW units, NEW sizes, NEW m, NEW n, BeginsMessage(units, sizes, m, n),
         NEW p \in 1..Len(units)
  PROVE  PlacedAt(units, p)
<1> DEFINE T == {q \in Nat : q \in 1..Len(units) /\ ~PlacedAt(units, q)}
<1>1. /\ Len(units) \in Nat /\ Len(units) >= 1
      /\ \A q \in 1..Len(units) : units[q].pos \in Nat /\ units[q].pos >= 1
      /\ \A q \in 1..(Len(units) - 1) : Follows(units[q], units[q + 1])
      /\ units[1].pos = 1
  <2>1. /\ IsRun(units, UnitsOf(sizes, m)) /\ units # <<>>
        /\ sizes \in Seq(Nat \ {0}) /\ m \in Nat /\ m =< Len(sizes)
    BY DEF BeginsMessage
  <2>2. \A q \in 1..Len(units) : units[q].pos \in Nat /\ units[q].pos >= 1
    BY <2>1, RunAt, UnitsOfFacts
  <2> QED
    BY <2>1, <2>2, RunAt DEF BeginsMessage, IsRun
<1>2. PlacedAt(units, 1)
  <2>1. units[1].pos = 1
    BY <1>1
  <2>2. \A i \in 1..1 : i = 1 /\ 1 - 1 + i = 1
    OBVIOUS
  <2> QED
    BY <2>1, <2>2 DEF PlacedAt
<1>3. ASSUME NEW q \in 1..(Len(units) - 1), PlacedAt(units, q)
      PROVE  PlacedAt(units, q + 1)
  <2> DEFINE u == units[q]
             v == units[q + 1]
  <2>1. Follows(u, v) /\ u.pos \in Nat /\ u.pos >= 1 /\ q \in Nat
    BY <1>1
  <2>2. CASE u.last
    <3>1. v.pos = 1 /\ q + 1 - v.pos = q
      BY <2>1, <2>2 DEF Follows
    <3>2. \A i \in 1..1 : i = 1 /\ q + i = q + 1
      OBVIOUS
    <3> QED
      BY <2>1, <2>2, <3>1, <3>2 DEF PlacedAt
  <2>3. CASE ~u.last
    <3>1. v.msg = u.msg /\ v.pos = u.pos + 1
      BY <2>1, <2>3 DEF Follows
    <3>2. PICK a \in Nat : a = u.pos
      BY <2>1
    <3>3. /\ a =< q /\ v.pos = a + 1
          /\ \A i \in 1..a : units[q - a + i].msg = u.msg /\ units[q - a + i].pos = i
          /\ q = a \/ units[q - a].last
      BY <1>3, <3>1, <3>2 DEF PlacedAt
    <3> HIDE DEF u
    <3>4. q + 1 - (a + 1) = q - a /\ a + 1 =< q + 1 /\ (q = a => q + 1 = a + 1)
      BY <2>1, <3>3
    <3>5. ASSUME NEW i \in 1..(a + 1)
          PROVE  units[q - a + i].msg = v.msg /\ units[q - a + i].pos = i
      <4>1. CASE i \in 1..a
        BY <3>1, <3>3, <4>1
      <4>2. CASE i = a + 1
        <5>1. q - a + i = q + 1
          BY <2>1, <4>2
        <5> QED
          BY <3>3, <4>2, <5>1
      <4> QED
        BY <4>1, <4>2
    <3> QED
      BY <3>3, <3>4, <3>5 DEF PlacedAt
  <2> QED
    BY <2>2, <2>3
<1>4. T = {}
  <2> SUFFICES ASSUME T # {}
               PROVE  FALSE
    OBVIOUS
  <2>1. PICK q \in T : \A y \in T : q =< y
    BY LeastNat
  <2>2. q \in 1..Len(units) /\ q # 1 /\ ~PlacedAt(units, q)
    BY <1>2
  <2>3. q - 1 \in 1..(Len(units) - 1) /\ (q - 1) + 1 = q /\ q - 1 \notin T
    BY <1>1, <2>1, <2>2
  <2>4. PlacedAt(units, q - 1)
    BY <1>1, <2>3
  <2> QED
    BY <1>3, <2>2, <2>3, <2>4
<1> QED
  BY <1>1, <1>4

(* The ends before a unit are those of the messages before its own. *)
EndsBefore(units, p) == {j \in MessageEnds(units) : j < p}

LEMMA EndsCounted ==
  ASSUME NEW units, NEW sizes, NEW m, NEW n, BeginsMessage(units, sizes, m, n),
         NEW p \in 1..Len(units)
  PROVE  /\ IsFiniteSet(EndsBefore(units, p))
         /\ units[p].msg = n + 1 + Cardinality(EndsBefore(units, p))
<1> DEFINE Good(q) == /\ IsFiniteSet(EndsBefore(units, q))
                      /\ units[q].msg = n + 1 + Cardinality(EndsBefore(units, q))
           T == {q \in Nat : q \in 1..Len(units) /\ ~Good(q)}
<1>1. /\ Len(units) \in Nat /\ Len(units) >= 1 /\ n \in Nat
      /\ \A q \in 1..(Len(units) - 1) : Follows(units[q], units[q + 1])
      /\ units[1].msg = n + 1
      /\ MessageEnds(units) \subseteq 1..Len(units)
  <2>1. IsRun(units, UnitsOf(sizes, m)) /\ units # <<>>
    BY DEF BeginsMessage
  <2> QED
    BY <2>1, RunAt DEF BeginsMessage, IsRun, MessageEnds
<1>2. Good(1)
  <2>1. EndsBefore(units, 1) = {}
    BY <1>1 DEF EndsBefore
  <2>2. IsFiniteSet(EndsBefore(units, 1)) /\ Cardinality(EndsBefore(units, 1)) = 0
    BY <2>1, FS_EmptySet
  <2> QED
    BY <1>1, <2>2
<1>3. ASSUME NEW q \in 1..(Len(units) - 1), Good(q)
      PROVE  Good(q + 1)
  <2>1. /\ Follows(units[q], units[q + 1]) /\ q \in 1..Len(units)
        /\ IsFiniteSet(EndsBefore(units, q))
        /\ Cardinality(EndsBefore(units, q)) \in Nat
    BY <1>1, <1>3, FS_CardinalityType
  <2>2. CASE units[q].last
    <3>1. EndsBefore(units, q + 1) = EndsBefore(units, q) \cup {q}
      BY <1>1, <2>1, <2>2 DEF EndsBefore, MessageEnds
    <3>2. q \notin EndsBefore(units, q)
      BY DEF EndsBefore
    <3>3. /\ IsFiniteSet(EndsBefore(units, q + 1))
          /\ Cardinality(EndsBefore(units, q + 1))
               = Cardinality(EndsBefore(units, q)) + 1
      BY <2>1, <3>1, <3>2, FS_AddElement
    <3>4. units[q + 1].msg = units[q].msg + 1
      BY <2>1, <2>2 DEF Follows
    <3> QED
      BY <1>1, <1>3, <2>1, <3>3, <3>4
  <2>3. CASE ~units[q].last
    <3>1. EndsBefore(units, q + 1) = EndsBefore(units, q)
      BY <1>1, <2>1, <2>3 DEF EndsBefore, MessageEnds
    <3>2. units[q + 1].msg = units[q].msg
      BY <2>1, <2>3 DEF Follows
    <3> QED
      BY <1>3, <3>1, <3>2
  <2> QED
    BY <2>2, <2>3
<1> HIDE DEF Good
<1>4. T = {}
  <2> SUFFICES ASSUME T # {}
               PROVE  FALSE
    OBVIOUS
  <2>1. PICK q \in T : \A y \in T : q =< y
    BY LeastNat
  <2>2. q \in 1..Len(units) /\ q # 1 /\ ~Good(q)
    BY <1>2
  <2>3. q - 1 \in 1..(Len(units) - 1) /\ (q - 1) + 1 = q /\ q - 1 \notin T
    BY <1>1, <2>1, <2>2
  <2>4. Good(q - 1)
    BY <1>1, <2>3
  <2> QED
    BY <1>3, <2>2, <2>3, <2>4
<1>5. Good(p)
  BY <1>1, <1>4
<1> QED
  BY <1>5 DEF Good

(* ... so the i-th end is that of message n + i. *)
EndsUpTo(units, k) == {j \in MessageEnds(units) : j =< k}

LEMMA EndCounted ==
  ASSUME NEW units, NEW sizes, NEW m, NEW n, BeginsMessage(units, sizes, m, n),
         NEW k \in MessageEnds(units)
  PROVE  /\ IsFiniteSet(EndsUpTo(units, k))
         /\ Cardinality(EndsUpTo(units, k)) \in Nat \ {0}
         /\ units[k].msg = n + Cardinality(EndsUpTo(units, k))
<1> DEFINE upTo == EndsUpTo(units, k)
<1>1. k \in 1..Len(units) /\ MessageEnds(units) \subseteq Int
  BY DEF MessageEnds
<1>2. upTo = EndsBefore(units, k) \cup {k} /\ k \notin EndsBefore(units, k)
  BY <1>1 DEF EndsBefore, EndsUpTo
<1>3. /\ IsFiniteSet(EndsBefore(units, k))
      /\ units[k].msg = n + 1 + Cardinality(EndsBefore(units, k))
  BY <1>1, EndsCounted
<1>4. n \in Nat /\ Cardinality(EndsBefore(units, k)) \in Nat
  BY <1>3, FS_CardinalityType DEF BeginsMessage
<1> HIDE DEF upTo
<1>5. IsFiniteSet(upTo) /\ Cardinality(upTo) = Cardinality(EndsBefore(units, k)) + 1
  BY <1>2, <1>3, FS_AddElement
<1> QED
  BY <1>3, <1>4, <1>5 DEF upTo
(* The ends are numbered 1 to as many as there are. *)
LEMMA EndsRanked ==
  ASSUME NEW units, NEW sizes, NEW m, NEW n, BeginsMessage(units, sizes, m, n)
  PROVE  /\ IsFiniteSet(MessageEnds(units)) /\ Cardinality(MessageEnds(units)) \in Nat
         /\ \A i \in 1..Cardinality(MessageEnds(units)) :
              /\ MessageEnd(units, i) \in MessageEnds(units)
              /\ Cardinality(EndsUpTo(units, MessageEnd(units, i))) = i
         /\ \A k \in MessageEnds(units) :
              MessageEnd(units, Cardinality(EndsUpTo(units, k))) = k
<1> DEFINE ends == MessageEnds(units)
           n0 == Cardinality(ends)
           rank == [k \in ends |-> Cardinality(EndsUpTo(units, k))]
<1>1. Len(units) \in Nat /\ ends \subseteq 1..Len(units)
  BY RunAt DEF BeginsMessage, MessageEnds
<1>2. IsFiniteSet(ends) /\ n0 \in Nat
  <2>1. IsFiniteSet(1..Len(units))
    BY <1>1, FS_Interval
  <2> HIDE DEF ends
  <2> QED
    BY <1>1, <2>1, FS_Subset, FS_CardinalityType
<1>3. \A k \in ends : /\ IsFiniteSet(EndsUpTo(units, k))
                      /\ EndsUpTo(units, k) \subseteq ends
                      /\ Cardinality(EndsUpTo(units, k)) \in Nat \ {0}
                      /\ Cardinality(EndsUpTo(units, k)) =< n0
  <2> SUFFICES ASSUME NEW k \in ends
               PROVE  /\ IsFiniteSet(EndsUpTo(units, k))
                      /\ EndsUpTo(units, k) \subseteq ends
                      /\ Cardinality(EndsUpTo(units, k)) \in Nat \ {0}
                      /\ Cardinality(EndsUpTo(units, k)) =< n0
    OBVIOUS
  <2>1. EndsUpTo(units, k) \in SUBSET ends
    BY DEF EndsUpTo
  <2>2. IsFiniteSet(EndsUpTo(units, k)) /\ Cardinality(EndsUpTo(units, k)) \in Nat \ {0}
    BY EndCounted
  <2> HIDE DEF ends
  <2> QED
    BY <1>2, <2>1, <2>2, FS_Subset
<1>4. ASSUME NEW j \in ends, NEW k \in ends, j < k
      PROVE  rank[j] # rank[k]
  <2>1. EndsUpTo(units, j) \in SUBSET EndsUpTo(units, k)
    BY <1>1, <1>4 DEF EndsUpTo
  <2>2. EndsUpTo(units, j) # EndsUpTo(units, k)
    BY <1>1, <1>4 DEF EndsUpTo
  <2>3. Cardinality(EndsUpTo(units, j)) # Cardinality(EndsUpTo(units, k))
    BY <2>1, <2>2, <1>3, FS_Subset
  <2> QED
    BY <2>3
<1> HIDE DEF ends, n0
<1>5. \A j, k \in ends : rank[j] = rank[k] => j = k
  <2>1. \A j \in ends : j \in Nat
    BY <1>1
  <2> HIDE DEF rank
  <2> QED
    BY <1>4, <2>1
<1>6. rank \in Injection(ends, 1..n0)
  <2>1. rank \in [ends -> 1..n0]
    BY <1>2, <1>3
  <2> HIDE DEF rank
  <2> QED
    BY <2>1, <1>5 DEF Injection, IsInjective
<1>7. IsFiniteSet(1..n0) /\ Cardinality(1..n0) = n0
  <2>1. /\ IsFiniteSet(1..n0)
        /\ Cardinality(1..n0) = IF 1 > n0 THEN 0 ELSE n0 - 1 + 1
    BY <1>2, FS_Interval
  <2> QED
    BY <1>2, <2>1
<1>8. rank \in Surjection(ends, 1..n0)
  BY <1>2, <1>6, <1>7, FS_Injection DEF n0
<1>9. ASSUME NEW i \in 1..n0
      PROVE  MessageEnd(units, i) \in ends /\ rank[MessageEnd(units, i)] = i
  <2>1. \E k \in ends : rank[k] = i
    BY <1>8 DEF Surjection
  <2> DEFINE P(k) == Cardinality(EndsUpTo(units, k)) = i
  <2>2. \E k \in ends : P(k)
    BY <2>1
  <2>3. i # 0
    BY <1>2
  <2>4. MessageEnd(units, i) = CHOOSE k \in ends : P(k)
    BY <2>3 DEF MessageEnd, EndsUpTo, ends
  <2>5. MessageEnd(units, i) \in ends /\ P(MessageEnd(units, i))
    <3> HIDE DEF P
    <3> QED
      BY <2>2, <2>4
  <2> QED
    BY <2>5
<1>10. ASSUME NEW k \in ends
       PROVE  MessageEnd(units, rank[k]) = k
  <2>1. rank[k] \in 1..n0
    BY <1>2, <1>3
  <2>2. /\ MessageEnd(units, rank[k]) \in ends
        /\ rank[MessageEnd(units, rank[k])] = rank[k]
    BY <1>9, <2>1
  <2> HIDE DEF rank
  <2> QED
    BY <1>5, <2>2
<1> QED
  BY <1>2, <1>9, <1>10 DEF ends, n0

(* What Complete takes from a run are the messages as they were sent. *)
LEMMA CompleteIs ==
  ASSUME NEW units, NEW sizes, NEW m, NEW n, BeginsMessage(units, sizes, m, n)
  PROVE  /\ Cardinality(MessageEnds(units)) \in Nat
         /\ DOMAIN Complete(units) = 1..Cardinality(MessageEnds(units))
         /\ \A i \in 1..Cardinality(MessageEnds(units)) :
              Complete(units)[i] = MessageUnits(n + i, sizes[n + i])
<1> DEFINE n0 == Cardinality(MessageEnds(units))
<1>1. n0 \in Nat
  BY EndsRanked
<1>2. ASSUME NEW i \in 1..n0
      PROVE  SubSeq(units, MessageEnd(units, i - 1) + 1, MessageEnd(units, i))
               = MessageUnits(n + i, sizes[n + i])
  <2> HIDE DEF n0
  <2>1. PICK k \in MessageEnds(units) : k = MessageEnd(units, i)
    BY EndsRanked DEF n0
  <2>2. k \in 1..Len(units) /\ units[k].last /\ Len(units) \in Nat
    BY RunAt DEF MessageEnds, BeginsMessage
  <2>3. Cardinality(EndsUpTo(units, k)) = i
    BY <2>1, EndsRanked DEF n0
  <2>4. units[k].msg = n + i /\ n \in Nat
    BY <2>3, EndCounted DEF BeginsMessage
  <2>5. \A j \in 1..Len(units) :
          /\ units[j] \in UnitsOf(sizes, m)
          /\ units[j] = [msg |-> units[j].msg, pos |-> units[j].pos,
                         last |-> units[j].last]
          /\ units[j].pos \in Nat /\ units[j].pos >= 1
          /\ units[j].msg \in Nat /\ units[j].last \in BOOLEAN
          /\ units[j].last <=> units[j].pos = sizes[units[j].msg]
    <3>1. /\ IsRun(units, UnitsOf(sizes, m))
          /\ sizes \in Seq(Nat \ {0}) /\ m \in Nat /\ m =< Len(sizes)
      BY DEF BeginsMessage
    <3> SUFFICES ASSUME NEW j \in 1..Len(units)
                 PROVE  /\ units[j] \in UnitsOf(sizes, m)
                        /\ units[j] = [msg |-> units[j].msg, pos |-> units[j].pos,
                                       last |-> units[j].last]
                        /\ units[j].pos \in Nat /\ units[j].pos >= 1
                        /\ units[j].msg \in Nat /\ units[j].last \in BOOLEAN
                        /\ units[j].last <=> units[j].pos = sizes[units[j].msg]
      OBVIOUS
    <3>2. units[j] \in UnitsOf(sizes, m)
      BY <3>1, RunAt
    <3> QED
      BY <3>1, <3>2, UnitsOfFacts
  <2>6. PICK a \in Nat : a = units[k].pos
    BY <2>2, <2>5
  <2>7. a = sizes[n + i] /\ a >= 1
    BY <2>2, <2>4, <2>5, <2>6
  <2>8. /\ a =< k
        /\ \A j \in 1..a : units[k - a + j].msg = n + i /\ units[k - a + j].pos = j
        /\ k = a \/ units[k - a].last
    <3>1. PlacedAt(units, k)
      BY <2>2, RunPlaced
    <3> QED
      BY <3>1, <2>4, <2>6 DEF PlacedAt
  <2>9. PICK b \in Nat : b = k - a
    BY <2>2, <2>8
  <2>10. /\ \A j \in 1..a : units[b + j].msg = n + i /\ units[b + j].pos = j
         /\ b = 0 \/ units[b].last
         /\ b < k /\ b + a = k
         /\ units[b + 1].msg = n + i
    <3>1. 1 \in 1..a /\ b < k /\ b + a = k /\ (k = a => b = 0)
      BY <2>2, <2>7, <2>8, <2>9
    <3>2. \A j \in 1..a : units[b + j].msg = n + i /\ units[b + j].pos = j
      BY <2>8, <2>9
    <3>3. b = 0 \/ units[b].last
      BY <2>8, <2>9, <3>1
    <3> QED
      BY <3>1, <3>2, <3>3
  <2>11. b = MessageEnd(units, i - 1)
    <3>1. CASE b = 0
      <4>1. units[1].msg = n + 1
        BY DEF BeginsMessage
      <4>2. i = 1
        BY <2>4, <2>10, <3>1, <4>1
      <4> QED
        BY <3>1, <4>2 DEF MessageEnd
    <3>2. CASE b # 0
      <4>1. b \in 1..(Len(units) - 1) /\ b \in 1..Len(units) /\ units[b].last
        BY <2>2, <2>10, <3>2
      <4>2. b \in MessageEnds(units)
        BY <4>1 DEF MessageEnds
      <4>3. Follows(units[b], units[b + 1])
        BY <4>1 DEF BeginsMessage, IsRun
      <4>4. units[b].msg + 1 = n + i
        BY <4>1, <4>3, <2>10 DEF Follows
      <4>5. /\ Cardinality(EndsUpTo(units, b)) \in Nat
            /\ units[b].msg = n + Cardinality(EndsUpTo(units, b))
        BY <4>2, EndCounted
      <4>6. Cardinality(EndsUpTo(units, b)) = i - 1
        BY <2>4, <4>4, <4>5
      <4> QED
        BY <4>2, <4>6, EndsRanked
    <3> QED
      BY <3>1, <3>2
  <2> DEFINE part == SubSeq(units, b + 1, k)
  <2>12. /\ part \in Seq(UnitsOf(sizes, m)) /\ Len(part) = a
         /\ \A j \in 1..a : part[j] = units[b + j]
    <3>1. IsRun(units, UnitsOf(sizes, m))
      BY DEF BeginsMessage
    <3>2. b =< k /\ k =< Len(units) /\ k \in Nat /\ k - b = a
      BY <2>2, <2>10
    <3> QED
      BY <3>1, <3>2, PieceOfRun DEF IsRun
  <2> HIDE DEF part
  <2>13. ASSUME NEW j \in 1..a
         PROVE  part[j] = [msg |-> n + i, pos |-> j, last |-> j = a]
    <3>1. b + j \in 1..Len(units)
      BY <2>2, <2>10
    <3>2. /\ units[b + j] = [msg |-> units[b + j].msg, pos |-> units[b + j].pos,
                             last |-> units[b + j].last]
          /\ units[b + j].last \in BOOLEAN
          /\ units[b + j].last <=> units[b + j].pos = sizes[units[b + j].msg]
      BY <3>1, <2>5
    <3>3. units[b + j].msg = n + i /\ units[b + j].pos = j
      BY <2>10
    <3>4. units[b + j].last = (j = a)
      BY <3>2, <3>3, <2>7
    <3> QED
      BY <3>2, <3>3, <3>4, <2>12
  <2>14. part = [j \in 1..a |-> part[j]]
    BY <2>12
  <2>15. part = MessageUnits(n + i, a)
    BY <2>13, <2>14 DEF MessageUnits
  <2> QED
    BY <2>1, <2>7, <2>11, <2>15 DEF part
<1>3. Complete(units) = [i \in 1..n0 |->
         SubSeq(units, MessageEnd(units, i - 1) + 1, MessageEnd(units, i))]
  BY DEF Complete
<1> HIDE DEF n0
<1>4. /\ DOMAIN Complete(units) = 1..n0
      /\ \A i \in 1..n0 : Complete(units)[i] = MessageUnits(n + i, sizes[n + i])
  BY <1>2, <1>3
<1> QED
  BY <1>1, <1>4 DEF n0

(* A greatest element is the one Max chooses. *)
LEMMA MaxIs ==
  ASSUME NEW T, T \subseteq Int, NEW x \in T, \A y \in T : x >= y
  PROVE  Max(T) = x
<1>1. \A z \in T : (\A y \in T : z >= y) => z = x
  OBVIOUS
<1> QED
  BY <1>1 DEF Max

(* What Partial leaves of a run is the beginning of the next message. *)
LEMMA PartialIs ==
  ASSUME NEW units, NEW sizes, NEW m, NEW n, BeginsMessage(units, sizes, m, n)
  PROVE  LET u  == units[Len(units)]
             n0 == Cardinality(MessageEnds(units))
         IN  /\ u.last => u.msg = n + n0 /\ Partial(units) = <<>>
             /\ ~u.last =>
                  /\ u.msg = n + n0 + 1
                  /\ Partial(units) \in Seq(UnitsOf(sizes, m))
                  /\ Len(Partial(units)) = u.pos
                  /\ \A j \in 1..u.pos :
                       Partial(units)[j] = [msg |-> n + n0 + 1, pos |-> j, last |-> FALSE]
<1> DEFINE z == Len(units)
           u == units[z]
           n0 == Cardinality(MessageEnds(units))
           ends == MessageEnds(units)
<1>1. /\ z \in Nat /\ z >= 1 /\ ends \subseteq 1..z /\ n \in Nat /\ n0 \in Nat
      /\ IsRun(units, UnitsOf(sizes, m))
      /\ sizes \in Seq(Nat \ {0}) /\ m \in Nat /\ m =< Len(sizes)
  BY RunAt, EndsRanked DEF BeginsMessage, MessageEnds
<1>2. z \in 1..z
  BY <1>1
<1>3. CASE u.last
  <2>1. z \in ends /\ EndsUpTo(units, z) = ends
    <3>1. z \in ends
      BY <1>2, <1>3 DEF MessageEnds
    <3>2. \A y \in ends : y =< z
      BY <1>1
    <3> QED
      BY <3>1, <3>2 DEF EndsUpTo
  <2>2. u.msg = n + n0
    BY <2>1, EndCounted
  <2>3. {0} \cup ends \subseteq Int /\ z \in {0} \cup ends
        /\ \A y \in {0} \cup ends : z >= y
    BY <1>1, <2>1
  <2>4. Max({0} \cup ends) = z
    <3> HIDE DEF ends, z
    <3> QED
      BY <2>3, MaxIs
  <2>5. SubSeq(units, z + 1, z) = <<>>
    BY <1>1, SubSeqEmpty
  <2>6. Partial(units) = <<>>
    BY <2>4, <2>5 DEF Partial
  <2> QED
    BY <1>3, <2>2, <2>6
<1>4. CASE ~u.last
  <2>1. EndsBefore(units, z) = ends
    BY <1>1, <1>4 DEF MessageEnds, EndsBefore
  <2>2. u.msg = n + 1 + n0
    BY <1>2, <2>1, EndsCounted
  <2>3. \A j \in 1..z :
          /\ units[j] = [msg |-> units[j].msg, pos |-> units[j].pos,
                         last |-> units[j].last]
          /\ units[j].pos \in Nat /\ units[j].pos >= 1
          /\ units[j].pos =< sizes[units[j].msg] /\ sizes[units[j].msg] \in Nat
          /\ units[j].last \in BOOLEAN
          /\ units[j].last <=> units[j].pos = sizes[units[j].msg]
    <3> SUFFICES ASSUME NEW j \in 1..z
                 PROVE  /\ units[j] = [msg |-> units[j].msg, pos |-> units[j].pos,
                                       last |-> units[j].last]
                        /\ units[j].pos \in Nat /\ units[j].pos >= 1
                        /\ units[j].pos =< sizes[units[j].msg] /\ sizes[units[j].msg] \in Nat
                        /\ units[j].last \in BOOLEAN
                        /\ units[j].last <=> units[j].pos = sizes[units[j].msg]
      OBVIOUS
    <3>1. units[j] \in UnitsOf(sizes, m)
      BY <1>1, RunAt
    <3> QED
      BY <3>1, <1>1, UnitsOfFacts
  <2>4. PICK a \in Nat : a = u.pos
    BY <1>2, <2>3
  <2>5. a >= 1 /\ a < sizes[u.msg] /\ sizes[u.msg] \in Nat
    <3>1. /\ u.pos \in Nat /\ u.pos >= 1
          /\ u.pos =< sizes[u.msg] /\ sizes[u.msg] \in Nat
          /\ u.last <=> u.pos = sizes[u.msg]
      BY <1>2, <2>3
    <3> QED
      BY <1>4, <2>4, <3>1
  <2>6. PlacedAt(units, z)
    BY <1>2, RunPlaced
  <2>7. /\ a =< z
        /\ \A j \in 1..a : units[z - a + j].msg = u.msg /\ units[z - a + j].pos = j
        /\ z = a \/ units[z - a].last
    BY <2>4, <2>6 DEF PlacedAt
  <2>8. PICK b \in Nat : b = z - a
    <3>1. z \in Nat /\ a \in Nat /\ a =< z
      BY <1>1, <2>7
    <3>2. z - a \in Nat
      <4> HIDE DEF z
      <4> QED
        BY <3>1
    <3> QED
      BY <3>2
  <2>9. /\ \A j \in 1..a : units[b + j].msg = u.msg /\ units[b + j].pos = j
        /\ b = 0 \/ units[b].last
        /\ b < z /\ b + a = z
    BY <1>1, <2>5, <2>7, <2>8
  <2> DEFINE part == SubSeq(units, b + 1, z)
  <2>10. ASSUME NEW j \in 1..a
         PROVE  /\ b + j \in 1..z /\ ~units[b + j].last
                /\ units[b + j] = [msg |-> n + n0 + 1, pos |-> j, last |-> FALSE]
    <3>1. b + j \in 1..z
      BY <1>1, <2>9
    <3>2. units[b + j].msg = u.msg /\ units[b + j].pos = j
      BY <2>9
    <3>3. j # sizes[u.msg]
      BY <2>5
    <3>4. units[b + j].last = FALSE
      BY <2>3, <3>1, <3>2, <3>3
    <3>5. u.msg = n + n0 + 1
      BY <1>1, <2>2
    <3> HIDE DEF u, n0, z
    <3> QED
      BY <2>3, <3>1, <3>2, <3>4, <3>5
  <2>11. \A y \in ends : y =< b
    <3> SUFFICES ASSUME NEW y \in ends, y > b
                 PROVE  FALSE
      BY <1>1
    <3>1. y \in 1..z /\ units[y].last
      BY DEF MessageEnds
    <3>2. y - b \in 1..a /\ b + (y - b) = y
      BY <1>1, <2>9, <3>1
    <3> QED
      BY <2>10, <3>1, <3>2
  <2>12. b \in {0} \cup ends
    BY <1>1, <2>9 DEF MessageEnds
  <2>13. {0} \cup ends \subseteq Int /\ \A y \in {0} \cup ends : b >= y
    BY <1>1, <2>11
  <2>14. Max({0} \cup ends) = b
    <3> HIDE DEF ends
    <3> QED
      BY <2>12, <2>13, MaxIs
  <2>15. Partial(units) = part
    BY <2>14 DEF Partial
  <2>16. /\ part \in Seq(UnitsOf(sizes, m)) /\ Len(part) = a
         /\ \A j \in 1..a : part[j] = units[b + j]
    <3>1. b =< z /\ z =< z /\ z - b = a
      BY <1>1, <2>9
    <3> QED
      BY <1>1, <3>1, PieceOfRun DEF IsRun
  <2> HIDE DEF part
  <2>17. u.msg = n + n0 + 1
    BY <1>1, <2>2
  <2> QED
    BY <1>4, <2>4, <2>10, <2>15, <2>16, <2>17
<1> QED
  BY <1>3, <1>4
--------------------------------------------------------------------------------
(* The invariant. *)

(* The types ChunkTypes leaves out. *)
StreamTypes ==
  /\ TurnTypes
  /\ muted \in [Ends -> BOOLEAN] /\ closed \in [Ends -> BOOLEAN]
  /\ fragmentBuffer \in [Ends -> Seq(Units)]
  /\ msgQueue \in [Ends -> Seq(Seq(Units))]
  /\ taken \in [Ends -> Seq(Seq(Units))]

(* The data of the chunks and what is not yet in chunks are the first m    *)
(* messages, one after the other.                                          *)
IsStream(sizes, m, chunks, rest) ==
  LET S   == UnitsOf(sizes, m)
      end == EndAt(Origin, chunks, Len(chunks))
      u   == IF rest = <<>> THEN end ELSE rest[Len(rest)]
  IN  /\ m =< Len(sizes)
      /\ AreJoined(Origin, chunks, S) /\ IsRun(rest, S)
      /\ rest # <<>> => Follows(end, rest[1])
      /\ u.last /\ u.msg = m

(* The beginning of message n + 1 up to its unit u, or nothing when u is   *)
(* the last of message n.                                                  *)
IsFragment(units, n, u) ==
  /\ u.last => u.msg = n /\ units = <<>>
  /\ ~u.last =>
       /\ u.msg = n + 1 /\ Len(units) = u.pos
       /\ \A j \in 1..u.pos : units[j] = [msg |-> n + 1, pos |-> j, last |-> FALSE]

(* What was taken, what can be taken and the fragment are what the chunks  *)
(* processed so far hold.                                                  *)
IsReceived(sizes, old, queue, fragment, chunks) ==
  /\ \A i \in 1..Len(old) : old[i] = MessageUnits(i, sizes[i])
  /\ \A i \in 1..Len(queue) :
       queue[i] = MessageUnits(Len(old) + i, sizes[Len(old) + i])
  /\ IsFragment(fragment, Len(old) + Len(queue), EndAt(Origin, chunks, Len(chunks)))

SentInOrder ==
  \A e \in Ends : IsStream(Messages[e], numSent[e], created[e], outgoingData[e])

ReceivedInOrder ==
  \A e \in Ends :
    IsReceived(Messages[Peer(e)], taken[e], msgQueue[e], fragmentBuffer[e], processed[e])

StreamInductive ==
  /\ Inductive /\ StreamTypes /\ SentInOrder /\ ReceivedInOrder
--------------------------------------------------------------------------------
(* The stream of a sender. *)

(* The last unit of a piece is in the stream. *)
LEMMA EndAtType ==
  ASSUME NEW S, NEW start, NEW chunks, Len(chunks) \in Nat,
         AreJoined(start, chunks, S), NEW i \in 1..Len(chunks)
  PROVE  EndAt(start, chunks, i) \in S
<1>1. IsRun(chunks[i], S) /\ chunks[i] # <<>>
  BY DEF AreJoined
<1>2. Len(chunks[i]) \in Nat /\ Len(chunks[i]) >= 1
  BY <1>1, RunAt
<1>3. chunks[i][Len(chunks[i])] \in S
  BY <1>1, <1>2, RunAt
<1> QED
  BY <1>3 DEF EndAt

(* Joined pieces followed by joined pieces are joined. *)
LEMMA JoinedConcat ==
  ASSUME NEW S, NEW start, NEW T, NEW c \in Seq(T), NEW d \in Seq(T),
         AreJoined(start, c, S), AreJoined(EndAt(start, c, Len(c)), d, S)
  PROVE  /\ AreJoined(start, c \o d, S)
         /\ EndAt(start, c \o d, Len(c \o d))
              = EndAt(EndAt(start, c, Len(c)), d, Len(d))
<1> DEFINE both == c \o d
           mid == EndAt(start, c, Len(c))
<1>1. /\ both \in Seq(T) /\ Len(c) \in Nat /\ Len(d) \in Nat
      /\ Len(both) = Len(c) + Len(d)
      /\ \A i \in 1..Len(c) : both[i] = c[i]
      /\ \A i \in 1..Len(d) : both[Len(c) + i] = d[i]
  BY ConcatAt
<1> HIDE DEF both
<1>2. ASSUME NEW i \in 0..Len(c)
      PROVE  EndAt(start, both, i) = EndAt(start, c, i)
  <2>1. i # 0 => i \in 1..Len(c)
    BY <1>1
  <2> QED
    BY <2>1, <1>1 DEF EndAt
<1>3. ASSUME NEW i \in 0..Len(d)
      PROVE  EndAt(start, both, Len(c) + i) = EndAt(mid, d, i)
  <2>1. CASE i = 0
    <3>1. Len(c) + i = Len(c) /\ Len(c) \in 0..Len(c)
      BY <2>1, <1>1
    <3>2. EndAt(start, both, Len(c)) = mid
      BY <3>1, <1>2
    <3>3. EndAt(mid, d, i) = mid
      BY <2>1 DEF EndAt
    <3> HIDE DEF mid
    <3> QED
      BY <3>1, <3>2, <3>3
  <2>2. CASE i # 0
    <3>1. i \in 1..Len(d) /\ Len(c) + i # 0
      BY <2>2, <1>1
    <3> QED
      BY <2>2, <3>1, <1>1 DEF EndAt
  <2> QED
    BY <2>1, <2>2
<1> HIDE DEF mid
<1>4. ASSUME NEW i \in 1..Len(both)
      PROVE  /\ IsRun(both[i], S) /\ both[i] # <<>>
             /\ Follows(EndAt(start, both, i - 1), both[i][1])
  <2>1. CASE i =< Len(c)
    <3>1. i \in 1..Len(c) /\ i - 1 \in 0..Len(c)
      BY <2>1, <1>1
    <3>2. both[i] = c[i] /\ EndAt(start, both, i - 1) = EndAt(start, c, i - 1)
      BY <3>1, <1>1, <1>2
    <3> QED
      BY <3>1, <3>2 DEF AreJoined
  <2>2. CASE i > Len(c)
    <3> DEFINE j == i - Len(c)
    <3>1. /\ j \in 1..Len(d) /\ j - 1 \in 0..Len(d)
          /\ i = Len(c) + j /\ i - 1 = Len(c) + (j - 1)
      BY <2>2, <1>1
    <3> HIDE DEF j
    <3>2. both[i] = d[j] /\ EndAt(start, both, i - 1) = EndAt(mid, d, j - 1)
      BY <3>1, <1>1, <1>3
    <3> QED
      BY <3>1, <3>2 DEF AreJoined, mid
  <2> QED
    BY <2>1, <2>2, <1>1
<1>5. EndAt(start, both, Len(both)) = EndAt(mid, d, Len(d))
  <2>1. Len(d) \in 0..Len(d)
    BY <1>1
  <2> QED
    BY <2>1, <1>1, <1>3
<1> QED
  BY <1>4, <1>5 DEF AreJoined, both, mid

(* The pieces of a chunk size that n units make cover them. *)
LEMMA PiecesCover ==
  ASSUME NEW n \in Nat, NEW size \in Nat \ {0}
  PROVE  LET q == (n + size - 1) \div size
         IN  /\ q \in Nat /\ (n = 0 => q = 0) /\ (n # 0 => q >= 1)
             /\ q * size >= n
             /\ \A i \in 1..q : /\ (i - 1) * size \in Nat /\ (i - 1) * size < n
                                /\ i * size = (i - 1) * size + size
             /\ \A i \in 1..(q - 1) : i * size < n
<1> DEFINE q == (n + size - 1) \div size
<1>1. q \in Nat
  <2>1. n + size - 1 \in Nat
    OBVIOUS
  <2> QED
    BY <2>1, QuotientType
<1>2. q * size =< n + size - 1 /\ n + size - 1 < q * size + size
  BY SMT
<1>3. n = 0 => q = 0
  BY QuotientOfLess
<1> HIDE DEF q
<1>4. q * size \in Nat
  BY <1>1, ProductType
<1>5. q * size >= n
  BY <1>2, <1>4
<1>6. ASSUME NEW i \in 1..q
      PROVE  /\ (i - 1) * size \in Nat /\ (i - 1) * size < n
             /\ i * size = (i - 1) * size + size
             /\ i < q => i * size < n
  <2>1. i - 1 \in Nat /\ i \in Nat /\ q - i \in Nat
    BY <1>1
  <2>2. (i - 1) * size \in Nat /\ i * size \in Nat /\ (q - i) * size \in Nat
    BY <2>1, ProductType
  <2>3. i * size = (i - 1) * size + size
    BY <2>1, SMT
  <2>4. q * size = i * size + (q - i) * size
    BY <1>1, <2>1, SMT
  <2>5. (i - 1) * size < n
    BY <1>2, <1>4, <2>2, <2>3, <2>4
  <2>6. i < q => (q - i) * size >= size
    <3> SUFFICES ASSUME i < q
                 PROVE  (q - i) * size >= size
      OBVIOUS
    <3>1. PICK r \in Nat : r = q - i - 1
      BY <1>1
    <3>2. r * size \in Nat /\ (r + 1) * size = r * size + size
      BY <3>1, ProductType, SMT
    <3>3. q - i = r + 1
      BY <1>1, <3>1
    <3> QED
      BY <3>2, <3>3
  <2> QED
    BY <1>2, <1>4, <2>2, <2>3, <2>4, <2>5, <2>6
<1>7. n # 0 => q >= 1
  <2>1. q = 0 => q * size = 0
    BY SMT
  <2> QED
    BY <1>1, <1>5, <2>1
<1> QED
  BY <1>1, <1>3, <1>5, <1>6, <1>7 DEF q

(* Cut makes consecutive pieces. *)
LEMMA CutJoined ==
  ASSUME NEW S, NEW s, IsRun(s, S), NEW size \in Nat \ {0}, NEW start,
         s # <<>> => Follows(start, s[1])
  PROVE  /\ Cut(s, size) \in Seq(Seq(S)) /\ AreJoined(start, Cut(s, size), S)
         /\ EndAt(start, Cut(s, size), Len(Cut(s, size)))
              = IF s = <<>> THEN start ELSE s[Len(s)]
<1> DEFINE n == Len(s)
           q == (n + size - 1) \div size
           pieces == Cut(s, size)
           from(i) == (i - 1) * size
           to(i) == LesserOf(i * size, n)
<1>1. n \in Nat /\ s \in Seq(S) /\ (s # <<>> <=> n >= 1)
  BY RunAt
<1>2. /\ q \in Nat /\ (n = 0 => q = 0) /\ (n # 0 => q >= 1)
      /\ q * size >= n
      /\ \A i \in 1..q : /\ (i - 1) * size \in Nat /\ (i - 1) * size < n
                         /\ i * size = (i - 1) * size + size
      /\ \A i \in 1..(q - 1) : i * size < n
  BY <1>1, PiecesCover
<1>3. pieces = [i \in 1..q |-> SubSeq(s, (i - 1) * size + 1, LesserOf(i * size, n))]
  BY DEF Cut
<1>4. pieces \in Seq(Seq(S))
  BY <1>1, CutType
<1> HIDE DEF pieces, q
<1>5. Len(pieces) = q
  <2>1. Len(pieces) \in Nat /\ DOMAIN pieces = 1..Len(pieces)
    BY <1>4, LenProperties
  <2>2. 1..Len(pieces) = 1..q
    BY <1>3, <2>1
  <2>3. \A i \in Nat : i \in 1..Len(pieces) <=> i \in 1..q
    BY <2>2, Zenon
  <2>4. PICK l \in Nat : l = Len(pieces)
    BY <2>1
  <2>5. q \in Nat
    BY <1>2
  <2>6. (q \in 1..l <=> q \in 1..q) /\ (l \in 1..l <=> l \in 1..q)
    BY <2>3, <2>4, <2>5
  <2>7. l = q
    BY <2>5, <2>6
  <2> QED
    BY <2>4, <2>7
<1>6. ASSUME NEW i \in 1..q
      PROVE  /\ from(i) \in Nat /\ to(i) \in Nat /\ from(i) < to(i) /\ to(i) =< n
             /\ i < q => to(i) = i * size
             /\ i = q => to(i) = n
  <2>1. /\ from(i) \in Nat /\ from(i) < n /\ i * size = from(i) + size
        /\ i < q => i * size < n
        /\ i = q => i * size >= n
    BY <1>2
  <2> HIDE DEF from, n
  <2> QED
    BY <1>1, <2>1 DEF LesserOf
<1> HIDE DEF n
<1>7. ASSUME NEW i \in 1..q
      PROVE  /\ IsRun(pieces[i], S) /\ pieces[i] # <<>>
             /\ pieces[i][1] = s[from(i) + 1]
             /\ pieces[i][Len(pieces[i])] = s[to(i)]
  <2> DEFINE a == from(i)
             b == to(i)
             piece == SubSeq(s, a + 1, b)
  <2>1. pieces[i] = piece
    BY <1>3 DEF n
  <2>2. a \in Nat /\ b \in Nat /\ a < b /\ b =< n
    BY <1>6
  <2> HIDE DEF a, b, pieces
  <2>3. IsRun(piece, S) /\ Len(piece) = b - a /\ \A j \in 1..(b - a) : piece[j] = s[a + j]
    BY <2>2, PieceOfRun DEF n
  <2> HIDE DEF piece
  <2>4. 1 \in 1..(b - a) /\ b - a \in 1..(b - a) /\ a + (b - a) = b
    BY <2>2
  <2>5. piece # <<>>
    BY <2>3, <2>4, RunAt
  <2>6. piece[1] = s[a + 1] /\ piece[Len(piece)] = s[b]
    BY <2>3, <2>4
  <2> QED
    BY <2>1, <2>3, <2>5, <2>6 DEF a, b
<1> HIDE DEF pieces
<1>8. ASSUME NEW i \in 1..q
      PROVE  EndAt(start, pieces, i) = s[to(i)]
  <2>1. EndAt(start, pieces, i) = pieces[i][Len(pieces[i])]
    BY <1>2 DEF EndAt
  <2> QED
    BY <2>1, <1>7
<1>9. ASSUME NEW i \in 1..q
      PROVE  Follows(EndAt(start, pieces, i - 1), pieces[i][1])
  <2>1. CASE i = 1
    <3>1. EndAt(start, pieces, i - 1) = start
      BY <2>1 DEF EndAt
    <3>2. from(i) = 0
      BY <2>1
    <3>3. pieces[i][1] = s[1]
      BY <1>7, <3>2
    <3>4. s # <<>>
      BY <1>1, <1>6
    <3> QED
      BY <3>1, <3>3, <3>4
  <2>2. CASE i # 1
    <3> DEFINE j == i - 1
    <3>1. j \in 1..q /\ j < q
      BY <2>2, <1>2
    <3>2. EndAt(start, pieces, j) = s[to(j)]
      BY <3>1, <1>8
    <3>3. to(j) = from(i)
      BY <3>1, <1>6
    <3>4. from(i) \in Nat /\ from(i) < n /\ from(i) # 0
      <4>1. from(i) < to(i) /\ to(i) =< n /\ from(i) \in Nat /\ to(i) \in Nat
        BY <1>6
      <4>2. from(j) < to(j) /\ from(j) \in Nat /\ to(j) \in Nat
        BY <3>1, <1>6
      <4> HIDE DEF from, to, j
      <4> QED
        BY <4>1, <4>2, <3>3, <1>1
    <3>5. Follows(s[from(i)], s[from(i) + 1])
      <4>1. from(i) \in 1..(n - 1)
        <5> HIDE DEF from
        <5> QED
          BY <3>4, <1>1
      <4> QED
        BY <4>1 DEF IsRun, n
    <3>6. pieces[i][1] = s[from(i) + 1]
      BY <1>7
    <3> HIDE DEF from, to
    <3> QED
      BY <3>2, <3>3, <3>5, <3>6
  <2> QED
    BY <2>1, <2>2
<1>10. EndAt(start, pieces, q) = IF s = <<>> THEN start ELSE s[Len(s)]
  <2>1. CASE s = <<>>
    <3>1. q = 0
      BY <2>1, <1>1, <1>2
    <3> QED
      BY <2>1, <3>1 DEF EndAt
  <2>2. CASE s # <<>>
    <3>1. q \in 1..q
      BY <2>2, <1>1, <1>2
    <3>2. EndAt(start, pieces, q) = s[to(q)] /\ to(q) = n
      BY <3>1, <1>6, <1>8
    <3> QED
      BY <2>2, <3>2 DEF n
  <2> QED
    BY <2>1, <2>2
<1> QED
  BY <1>4, <1>5, <1>7, <1>9, <1>10 DEF AreJoined, pieces

(* More messages, more units. *)
LEMMA RunIn ==
  ASSUME NEW S, NEW T, S \subseteq T, NEW s, IsRun(s, S)
  PROVE  IsRun(s, T)
<1>1. s \in Seq(S) /\ Len(s) \in Nat /\ \A i \in 1..Len(s) : s[i] \in S
  BY RunAt
<1>2. s \in Seq(T)
  BY <1>1
<1> QED
  BY <1>2 DEF IsRun

LEMMA StreamGrows ==
  ASSUME NEW sizes, NEW m \in Nat
  PROVE  /\ UnitsOf(sizes, m) \subseteq UnitsOf(sizes, m + 1)
         /\ \A s : IsRun(s, UnitsOf(sizes, m)) => IsRun(s, UnitsOf(sizes, m + 1))
         /\ \A start, chunks :
              AreJoined(start, chunks, UnitsOf(sizes, m)) =>
                AreJoined(start, chunks, UnitsOf(sizes, m + 1))
<1>1. UnitsOf(sizes, m) \subseteq UnitsOf(sizes, m + 1)
  BY DEF UnitsOf
<1>2. \A s : IsRun(s, UnitsOf(sizes, m)) => IsRun(s, UnitsOf(sizes, m + 1))
  BY <1>1, RunIn
<1> QED
  BY <1>1, <1>2 DEF AreJoined

(* The units of a message are a piece of the stream. *)
LEMMA MessageRun ==
  ASSUME NEW sizes \in Seq(Nat \ {0}), NEW m \in Nat, m =< Len(sizes), NEW n \in 1..m
  PROVE  LET units == MessageUnits(n, sizes[n])
         IN  /\ IsRun(units, UnitsOf(sizes, m)) /\ units # <<>>
             /\ units[1].msg = n /\ units[1].pos = 1
             /\ units[Len(units)].last /\ units[Len(units)].msg = n
<1> DEFINE units == MessageUnits(n, sizes[n])
           z == sizes[n]
<1>1. z \in Nat \ {0}
  <2>1. n \in 1..Len(sizes)
    BY LenProperties
  <2> QED
    BY <2>1, ElementOfSeq
<1>2. units = [k \in 1..z |-> [msg |-> n, pos |-> k, last |-> k = z]]
  BY DEF MessageUnits
<1> HIDE DEF units
<1>3. \A k \in 1..z : [msg |-> n, pos |-> k, last |-> k = z] \in UnitsOf(sizes, m)
  <2> SUFFICES ASSUME NEW k \in 1..z
               PROVE  [msg |-> n, pos |-> k, last |-> k = z] \in UnitsOf(sizes, m)
    OBVIOUS
  <2> DEFINE u == [msg |-> n, pos |-> k, last |-> k = z]
  <2>1. u.msg = n /\ u.pos = k /\ (u.last <=> k = z)
    OBVIOUS
  <2>2. n \in Nat /\ k \in Nat
    BY <1>1
  <2>3. u \in Units
    BY <2>2 DEF Units
  <2> HIDE DEF u
  <2>4. u \in UnitsOf(sizes, m)
    BY <2>1, <2>3 DEF UnitsOf
  <2> QED
    BY <2>4 DEF u
<1> HIDE DEF z
<1>4. units \in [1..z -> UnitsOf(sizes, m)]
  BY <1>2, <1>3
<1>5. units \in Seq(UnitsOf(sizes, m)) /\ Len(units) = z
  BY <1>1, <1>4, FunctionIsSeq
<1>6. \A i \in 1..z : /\ units[i].msg = n /\ units[i].pos = i
                      /\ units[i].last <=> i = z
  BY <1>2
<1>7. \A i \in 1..(z - 1) : Follows(units[i], units[i + 1])
  <2> SUFFICES ASSUME NEW i \in 1..(z - 1)
               PROVE  Follows(units[i], units[i + 1])
    OBVIOUS
  <2>1. i \in 1..z /\ i + 1 \in 1..z /\ i # z
    BY <1>1
  <2>2. /\ units[i].msg = n /\ units[i].pos = i /\ ~units[i].last
        /\ units[i + 1].msg = n /\ units[i + 1].pos = i + 1
    BY <2>1, <1>6
  <2> QED
    BY <2>1, <2>2 DEF Follows
<1>8. IsRun(units, UnitsOf(sizes, m)) /\ units # <<>>
  <2>1. IsRun(units, UnitsOf(sizes, m))
    BY <1>5, <1>7 DEF IsRun
  <2> QED
    BY <2>1, <1>1, <1>5, RunAt
<1>9. 1 \in 1..z /\ z \in 1..z
  BY <1>1
<1> QED
  BY <1>5, <1>6, <1>8, <1>9 DEF units

(* SendData: another message follows the last one. *)
LEMMA StreamSent ==
  ASSUME NEW sizes \in Seq(Nat \ {0}), NEW m \in Nat, m < Len(sizes),
         NEW chunks, NEW rest, IsStream(sizes, m, chunks, rest)
  PROVE  IsStream(sizes, m + 1, chunks, rest \o MessageUnits(m + 1, sizes[m + 1]))
<1> DEFINE S == UnitsOf(sizes, m + 1)
           new == MessageUnits(m + 1, sizes[m + 1])
           end == EndAt(Origin, chunks, Len(chunks))
           u == IF rest = <<>> THEN end ELSE rest[Len(rest)]
           both == rest \o new
<1>1. Len(sizes) \in Nat /\ m + 1 =< Len(sizes) /\ m + 1 \in Nat /\ m + 1 \in 1..(m + 1)
  BY LenProperties
<1>2. /\ IsRun(new, S) /\ new # <<>> /\ new[1].msg = m + 1 /\ new[1].pos = 1
      /\ new[Len(new)].last /\ new[Len(new)].msg = m + 1
  <2> HIDE DEF new, S
  <2> QED
    BY <1>1, MessageRun DEF new, S
<1>3. /\ AreJoined(Origin, chunks, S) /\ IsRun(rest, S)
      /\ rest # <<>> => Follows(end, rest[1])
      /\ u.last /\ u.msg = m
  BY StreamGrows DEF IsStream
<1>4. Follows(u, new[1])
  BY <1>2, <1>3 DEF Follows
<1>5. rest \in Seq(S) /\ new \in Seq(S)
  BY <1>2, <1>3, RunAt
<1> HIDE DEF S, new, end
<1>6. /\ IsRun(both, S) /\ both # <<>> /\ both[Len(both)] = new[Len(new)]
      /\ Follows(end, both[1])
  <2>1. CASE rest = <<>>
    <3>1. both = new
      BY <2>1, <1>5
    <3> QED
      BY <2>1, <3>1, <1>2, <1>4
  <2>2. CASE rest # <<>>
    <3>1. Follows(rest[Len(rest)], new[1])
      BY <2>2, <1>4
    <3>2. /\ IsRun(both, S) /\ both # <<>>
          /\ both[1] = rest[1] /\ both[Len(both)] = new[Len(new)]
      BY <2>2, <3>1, <1>2, <1>3, ConcatRun
    <3> QED
      BY <2>2, <3>2, <1>3
  <2> QED
    BY <2>1, <2>2
<1> HIDE DEF both, u
<1> QED
  BY <1>1, <1>2, <1>3, <1>6 DEF IsStream, S, new, end, both

(* Flush: the first units become chunks. *)
LEMMA StreamCut ==
  ASSUME NEW sizes, NEW m, NEW chunks \in Seq(Seq(Units)), NEW rest,
         IsStream(sizes, m, chunks, rest),
         NEW k \in 0..Len(rest), NEW size \in Nat \ {0}
  PROVE  IsStream(sizes, m, chunks \o Cut(SubSeq(rest, 1, k), size),
                  SubSeq(rest, k + 1, Len(rest)))
<1> DEFINE S == UnitsOf(sizes, m)
           z == Len(rest)
           end == EndAt(Origin, chunks, Len(chunks))
           u == IF rest = <<>> THEN end ELSE rest[z]
           first == SubSeq(rest, 1, k)
           later == SubSeq(rest, k + 1, z)
           pieces == Cut(first, size)
           all == chunks \o pieces
           newEnd == EndAt(Origin, all, Len(all))
<1>1. /\ m =< Len(sizes) /\ AreJoined(Origin, chunks, S) /\ IsRun(rest, S)
      /\ rest # <<>> => Follows(end, rest[1])
      /\ u.last /\ u.msg = m
  BY DEF IsStream
<1>2. z \in Nat /\ k \in Nat /\ k =< z /\ (rest # <<>> <=> z >= 1)
  BY <1>1, RunAt
<1>3. /\ IsRun(first, S) /\ Len(first) = k
      /\ \A j \in 1..k : first[j] = rest[j]
  <2>1. /\ IsRun(SubSeq(rest, 0 + 1, k), S) /\ Len(SubSeq(rest, 0 + 1, k)) = k - 0
        /\ \A j \in 1..(k - 0) : SubSeq(rest, 0 + 1, k)[j] = rest[0 + j]
    <3>1. PICK b \in Nat : b = 0
      OBVIOUS
    <3>2. b =< k /\ k =< Len(rest) /\ k \in Nat /\ IsRun(rest, S)
      BY <3>1, <1>1, <1>2
    <3> HIDE DEF S, z, end, u, first, later
    <3>3. /\ IsRun(SubSeq(rest, b + 1, k), S)
          /\ Len(SubSeq(rest, b + 1, k)) = k - b
          /\ \A j \in 1..(k - b) : SubSeq(rest, b + 1, k)[j] = rest[b + j]
      BY <3>2, PieceOfRun
    <3> QED
      BY <3>1, <3>3, Zenon
  <2>2. 0 + 1 = 1 /\ k - 0 = k
    BY <1>2
  <2> QED
    BY <2>1, <2>2
<1>4. /\ IsRun(later, S) /\ Len(later) = z - k
      /\ \A j \in 1..(z - k) : later[j] = rest[k + j]
  <2> HIDE DEF S
  <2> QED
    BY <1>1, <1>2, PieceOfRun
<1> HIDE DEF first, later
<1>5. first # <<>> <=> k >= 1
  BY <1>3, RunAt
<1>6. later # <<>> <=> k < z
  <2>1. later # <<>> <=> z - k >= 1
    BY <1>4, RunAt
  <2> QED
    BY <2>1, <1>2
<1>7. first # <<>> => Follows(end, first[1])
  <2> SUFFICES ASSUME first # <<>>
               PROVE  Follows(end, first[1])
    OBVIOUS
  <2>1. 1 \in 1..k /\ rest # <<>>
    BY <1>2, <1>5
  <2> QED
    BY <2>1, <1>1, <1>3
<1> HIDE DEF end
<1>8. /\ pieces \in Seq(Seq(S)) /\ AreJoined(end, pieces, S)
      /\ EndAt(end, pieces, Len(pieces)) = IF first = <<>> THEN end ELSE first[Len(first)]
  <2> HIDE DEF S
  <2> QED
    BY <1>3, <1>7, CutJoined
<1>9. pieces \in Seq(Seq(Units))
  <2>1. S \subseteq Units
    BY DEF UnitsOf
  <2>2. first \in Seq(Units)
    BY <2>1, <1>3, RunIn DEF IsRun
  <2> QED
    BY <2>2, CutType
<1> HIDE DEF pieces
<1>10. AreJoined(Origin, all, S) /\ newEnd = EndAt(end, pieces, Len(pieces))
  <2> HIDE DEF S
  <2> QED
    BY <1>1, <1>8, <1>9, JoinedConcat DEF end
<1> HIDE DEF newEnd
<1>11. newEnd = IF k = 0 THEN end ELSE rest[k]
  <2>1. k # 0 => k \in 1..k
    BY <1>2
  <2> QED
    BY <2>1, <1>2, <1>3, <1>5, <1>8, <1>10
<1>12. later # <<>> => Follows(newEnd, later[1])
  <2> SUFFICES ASSUME later # <<>>
               PROVE  Follows(newEnd, later[1])
    OBVIOUS
  <2>1. 1 \in 1..(z - k) /\ k + 1 =< z /\ rest # <<>>
    BY <1>2, <1>6
  <2>2. later[1] = rest[k + 1]
    BY <2>1, <1>4
  <2>3. CASE k = 0
    BY <2>1, <2>2, <2>3, <1>1, <1>11
  <2>4. CASE k # 0
    <3>1. k \in 1..(z - 1)
      BY <2>1, <2>4, <1>2
    <3>2. Follows(rest[k], rest[k + 1])
      BY <3>1, <1>1 DEF IsRun
    <3> QED
      BY <2>2, <2>4, <3>2, <1>11
  <2> QED
    BY <2>3, <2>4
<1>13. u = IF later = <<>> THEN newEnd ELSE later[Len(later)]
  <2>1. CASE later = <<>>
    <3>1. k = z
      BY <2>1, <1>2, <1>6
    <3> QED
      BY <2>1, <3>1, <1>2, <1>11
  <2>2. CASE later # <<>>
    <3>1. z - k \in 1..(z - k) /\ k + (z - k) = z /\ rest # <<>>
      BY <2>2, <1>2, <1>6
    <3>2. later[Len(later)] = rest[z]
      BY <3>1, <1>4
    <3> QED
      BY <2>2, <3>1, <3>2
  <2> QED
    BY <2>1, <2>2
<1> HIDE DEF u
<1> QED
  BY <1>1, <1>4, <1>10, <1>12, <1>13 DEF IsStream, S, newEnd, all, pieces, first, later, z
--------------------------------------------------------------------------------
(* The stream at its receiver. *)

(* The first of joined pieces are joined, *)
LEMMA JoinedPrefix ==
  ASSUME NEW S, NEW start, NEW c, NEW p, Len(c) \in Nat, Len(p) \in Nat,
         Len(p) =< Len(c), \A i \in 1..Len(p) : p[i] = c[i],
         AreJoined(start, c, S)
  PROVE  AreJoined(start, p, S)
<1> SUFFICES ASSUME NEW i \in 1..Len(p)
             PROVE  /\ IsRun(p[i], S) /\ p[i] # <<>>
                    /\ Follows(EndAt(start, p, i - 1), p[i][1])
  BY DEF AreJoined
<1>1. i \in 1..Len(c) /\ (i # 1 => i - 1 \in 1..Len(p)) /\ (i = 1 <=> i - 1 = 0)
  OBVIOUS
<1>2. EndAt(start, p, i - 1) = EndAt(start, c, i - 1)
  BY <1>1 DEF EndAt
<1>3. p[i] = c[i]
  OBVIOUS
<1> QED
  BY <1>1, <1>2, <1>3 DEF AreJoined

(* ... and those after them too, *)
LEMMA JoinedSplit ==
  ASSUME NEW S, NEW start, NEW T, NEW c \in Seq(T), NEW d \in Seq(T),
         AreJoined(start, c \o d, S)
  PROVE  /\ AreJoined(start, c, S) /\ AreJoined(EndAt(start, c, Len(c)), d, S)
         /\ EndAt(start, c \o d, Len(c \o d))
              = EndAt(EndAt(start, c, Len(c)), d, Len(d))
<1> DEFINE both == c \o d
           mid == EndAt(start, c, Len(c))
<1>1. /\ Len(c) \in Nat /\ Len(d) \in Nat
      /\ Len(both) = Len(c) + Len(d)
      /\ \A i \in 1..Len(c) : both[i] = c[i]
      /\ \A i \in 1..Len(d) : both[Len(c) + i] = d[i]
  BY ConcatAt
<1>2. AreJoined(start, both, S)
  OBVIOUS
<1> HIDE DEF both
<1>3. AreJoined(start, c, S)
  BY <1>1, <1>2, JoinedPrefix
<1> HIDE DEF mid
<1>4. ASSUME NEW i \in 1..Len(d)
      PROVE  /\ IsRun(d[i], S) /\ d[i] # <<>>
             /\ Follows(EndAt(mid, d, i - 1), d[i][1])
  <2>1. /\ Len(c) + i \in 1..Len(both) /\ both[Len(c) + i] = d[i]
        /\ Len(c) + i - 1 = Len(c) + (i - 1)
    BY <1>1
  <2>2. /\ IsRun(d[i], S) /\ d[i] # <<>>
        /\ Follows(EndAt(start, both, Len(c) + (i - 1)), d[i][1])
    BY <2>1, <1>2 DEF AreJoined
  <2>3. EndAt(start, both, Len(c) + (i - 1)) = EndAt(mid, d, i - 1)
    <3>1. CASE i = 1
      <4>1. Len(c) + (i - 1) = Len(c) /\ i - 1 = 0
        BY <3>1, <1>1
      <4>2. EndAt(start, both, Len(c)) = EndAt(start, c, Len(c))
        <5>1. Len(c) # 0 => Len(c) \in 1..Len(c)
          BY <1>1
        <5> QED
          BY <5>1, <1>1 DEF EndAt
      <4>3. EndAt(mid, d, i - 1) = mid
        BY <4>1 DEF EndAt
      <4> QED
        BY <4>1, <4>2, <4>3 DEF mid
    <3>2. CASE i # 1
      <4>1. i - 1 \in 1..Len(d) /\ i - 1 # 0 /\ Len(c) + (i - 1) # 0
        BY <3>2, <1>1
      <4>2. both[Len(c) + (i - 1)] = d[i - 1]
        BY <4>1, <1>1
      <4> QED
        BY <4>1, <4>2 DEF EndAt
    <3> QED
      BY <3>1, <3>2
  <2> QED
    BY <2>2, <2>3
<1>5. AreJoined(mid, d, S)
  BY <1>4 DEF AreJoined
<1>6. EndAt(start, both, Len(both)) = EndAt(mid, d, Len(d))
  <2>1. CASE Len(d) = 0
    <3>1. Len(both) = Len(c)
      BY <2>1, <1>1
    <3>2. EndAt(start, both, Len(c)) = EndAt(start, c, Len(c))
      <4>1. Len(c) # 0 => Len(c) \in 1..Len(c)
        BY <1>1
      <4> QED
        BY <4>1, <1>1 DEF EndAt
    <3>3. EndAt(mid, d, Len(d)) = mid
      BY <2>1 DEF EndAt
    <3> QED
      BY <3>1, <3>2, <3>3 DEF mid
  <2>2. CASE Len(d) # 0
    <3>1. Len(d) \in 1..Len(d) /\ Len(both) # 0 /\ Len(both) = Len(c) + Len(d)
      BY <2>2, <1>1
    <3>2. both[Len(both)] = d[Len(d)]
      BY <3>1, <1>1
    <3> QED
      BY <2>2, <3>1, <3>2 DEF EndAt
  <2> QED
    BY <2>1, <2>2
<1> QED
  BY <1>3, <1>5, <1>6 DEF both, mid

(* A fragment with nothing added to it stays one. *)
LEMMA FragmentAlone ==
  ASSUME NEW units \in Seq(Units), \A j \in 1..Len(units) : ~units[j].last
  PROVE  Complete(units) = <<>> /\ Partial(units) = units
<1>1. MessageEnds(units) = {}
  BY DEF MessageEnds
<1>2. Cardinality(MessageEnds(units)) = 0
  BY <1>1, FS_EmptySet
<1>3. Complete(units) = <<>>
  BY <1>2 DEF Complete
<1>4. Max({0} \cup MessageEnds(units)) + 1 = 1
  <2>1. {0} \cup MessageEnds(units) = {0}
    BY <1>1
  <2>2. Max({0} \cup MessageEnds(units)) = 0
    BY <2>1 DEF Max
  <2> QED
    BY <2>2
<1>5. SubSeq(units, 1, Len(units)) = units
  BY SubSeqFull
<1> QED
  BY <1>3, <1>4, <1>5 DEF Partial

(* The messages Complete takes are sequences of units. *)
LEMMA CompleteType ==
  ASSUME NEW units, NEW sizes, NEW m, NEW n, BeginsMessage(units, sizes, m, n)
  PROVE  /\ Complete(units) \in Seq(Seq(Units))
         /\ Len(Complete(units)) = Cardinality(MessageEnds(units))
<1> DEFINE c == Cardinality(MessageEnds(units))
<1>1. /\ sizes \in Seq(Nat \ {0}) /\ m \in Nat /\ m =< Len(sizes) /\ n \in Nat
      /\ IsRun(units, UnitsOf(sizes, m))
  BY DEF BeginsMessage
<1>2. /\ c \in Nat /\ DOMAIN Complete(units) = 1..c
      /\ \A i \in 1..c : Complete(units)[i] = MessageUnits(n + i, sizes[n + i])
  BY CompleteIs
<1>3. ASSUME NEW i \in 1..c
      PROVE  MessageUnits(n + i, sizes[n + i]) \in Seq(Units)
  <2>1. PICK k \in MessageEnds(units) : k = MessageEnd(units, i)
    BY EndsRanked
  <2>2. Cardinality(EndsUpTo(units, k)) = i
    BY <2>1, EndsRanked
  <2>3. units[k].msg = n + i
    BY <2>2, EndCounted
  <2>4. units[k] \in UnitsOf(sizes, m)
    BY <1>1, RunAt DEF MessageEnds
  <2>5. n + i \in Nat /\ sizes[n + i] \in Nat
    <3>1. units[k].msg \in Nat /\ sizes[units[k].msg] \in Nat \ {0}
      BY <1>1, <2>4, UnitsOfFacts
    <3> QED
      BY <2>3, <3>1
  <2> HIDE DEF c
  <2> QED
    BY <2>5, MessageUnitsType
<1> HIDE DEF c
<1>4. \A i \in 1..c : Complete(units)[i] \in Seq(Units)
  BY <1>2, <1>3
<1>5. Complete(units) = [i \in 1..c |-> Complete(units)[i]]
  <2>1. Complete(units) = [i \in DOMAIN Complete(units) |-> Complete(units)[i]]
    BY DEF Complete
  <2> QED
    BY <2>1, <1>2
<1>6. Complete(units) \in [1..c -> Seq(Units)]
  BY <1>4, <1>5
<1> QED
  BY <1>2, <1>6, FunctionIsSeq DEF c

(* A fragment and the stream after it begin a message. *)
LEMMA FragmentBegins ==
  ASSUME NEW sizes \in Seq(Nat \ {0}), NEW m \in Nat, m =< Len(sizes), NEW n \in Nat,
         NEW fragment \in Seq(Units), NEW start,
         start = Origin \/ start \in UnitsOf(sizes, m),
         IsFragment(fragment, n, start),
         NEW flat, IsRun(flat, UnitsOf(sizes, m)), flat # <<>>, Follows(start, flat[1])
  PROVE  /\ BeginsMessage(fragment \o flat, sizes, m, n)
         /\ (fragment \o flat)[Len(fragment \o flat)] = flat[Len(flat)]
<1> DEFINE S == UnitsOf(sizes, m)
           units == fragment \o flat
<1>1. flat \in Seq(S)
  BY RunAt
<1>2. CASE start.last
  <2>1. start.msg = n /\ fragment = <<>>
    BY <1>2 DEF IsFragment
  <2>2. units = flat
    BY <2>1, <1>1
  <2>3. flat[1].msg = n + 1 /\ flat[1].pos = 1
    BY <1>2, <2>1 DEF Follows
  <2> QED
    BY <2>2, <2>3 DEF BeginsMessage
<1>3. CASE ~start.last
  <2>1. start \in S
    BY <1>3 DEF Origin
  <2>2. /\ start = [msg |-> start.msg, pos |-> start.pos, last |-> start.last]
        /\ start.msg \in 1..m /\ start.pos \in Nat /\ start.pos >= 1
        /\ start.pos =< sizes[start.msg] /\ sizes[start.msg] \in Nat
        /\ start.last \in BOOLEAN /\ (start.last <=> start.pos = sizes[start.msg])
    BY <2>1, UnitsOfFacts
  <2>3. PICK a \in Nat : a = start.pos
    BY <2>2
  <2>4. /\ start.msg = n + 1 /\ Len(fragment) = a
        /\ \A j \in 1..a : fragment[j] = [msg |-> n + 1, pos |-> j, last |-> FALSE]
    BY <1>3, <2>3 DEF IsFragment
  <2>5. a >= 1 /\ a < sizes[n + 1] /\ n + 1 \in 1..m /\ sizes[n + 1] \in Nat
    <3>1. a # sizes[n + 1]
      BY <1>3, <2>2, <2>3, <2>4
    <3> QED
      BY <3>1, <2>2, <2>3, <2>4
  <2>6. ASSUME NEW j \in 1..a
        PROVE  /\ fragment[j] \in S /\ fragment[j].msg = n + 1 /\ fragment[j].pos = j
               /\ ~fragment[j].last
    <3>1. fragment[j] = [msg |-> n + 1, pos |-> j, last |-> FALSE]
      BY <2>4
    <3>2. fragment[j] \in Units
      BY <3>1 DEF Units
    <3>3. fragment[j].msg = n + 1 /\ fragment[j].pos = j /\ fragment[j].last = FALSE
      BY <3>1
    <3>4. j \in 1..sizes[n + 1] /\ j # sizes[n + 1]
      BY <2>5
    <3> QED
      BY <3>2, <3>3, <3>4, <2>5 DEF UnitsOf
  <2>7. fragment \in Seq(S)
    BY <2>4, <2>6
  <2>8. \A j \in 1..(a - 1) : Follows(fragment[j], fragment[j + 1])
    <3> SUFFICES ASSUME NEW j \in 1..(a - 1)
                 PROVE  Follows(fragment[j], fragment[j + 1])
      OBVIOUS
    <3>1. j \in 1..a /\ j + 1 \in 1..a
      OBVIOUS
    <3> QED
      BY <3>1, <2>6 DEF Follows
  <2> HIDE DEF S
  <2>9. IsRun(fragment, S) /\ fragment # <<>>
    <3>1. IsRun(fragment, S)
      BY <2>4, <2>7, <2>8 DEF IsRun
    <3> QED
      BY <3>1, <2>4, <2>5, RunAt
  <2>10. 1 \in 1..a /\ a \in 1..a
    BY <2>5
  <2>11. Follows(fragment[Len(fragment)], flat[1])
    <3>1. /\ fragment[a].msg = start.msg /\ fragment[a].pos = start.pos
          /\ ~fragment[a].last
      BY <2>3, <2>4, <2>6, <2>10
    <3> QED
      BY <3>1, <1>3, <2>4 DEF Follows
  <2>12. /\ IsRun(units, S) /\ units # <<>> /\ units[1] = fragment[1]
         /\ units[Len(units)] = flat[Len(flat)]
    <3>1. IsRun(flat, S)
      BY DEF S
    <3> QED
      BY <3>1, <2>9, <2>11, ConcatRun
  <2>13. units[1].msg = n + 1 /\ units[1].pos = 1
    BY <2>6, <2>10, <2>12
  <2> QED
    BY <2>12, <2>13 DEF BeginsMessage, S
<1> QED
  BY <1>2, <1>3

(* A sequence is one of whatever its elements are in. *)
LEMMA SeqIn ==
  ASSUME NEW S, NEW T, NEW s \in Seq(T), \A i \in 1..Len(s) : s[i] \in S
  PROVE  s \in Seq(S)
  OBVIOUS

(* A fragment holds no end of a message. *)
LEMMA FragmentOpen ==
  ASSUME NEW fragment, NEW n, NEW u, IsFragment(fragment, n, u)
  PROVE  \A j \in 1..Len(fragment) : ~fragment[j].last
<1>1. CASE u.last
  <2>1. fragment = <<>>
    BY <1>1 DEF IsFragment
  <2> QED
    BY <2>1
<1>2. CASE ~u.last
  <2>1. \A j \in 1..Len(fragment) :
          fragment[j] = [msg |-> n + 1, pos |-> j, last |-> FALSE]
    BY <1>2 DEF IsFragment
  <2>2. \A j : [msg |-> n + 1, pos |-> j, last |-> FALSE].last = FALSE
    OBVIOUS
  <2> QED
    BY <2>1, <2>2
<1> QED
  BY <1>1, <1>2

(* Two facts above, for sequences of pieces. *)
LEMMA UnitsSplit ==
  \A S, all : \A c, d \in Seq(Seq(Units)) :
    all = c \o d /\ AreJoined(Origin, all, S) =>
      AreJoined(Origin, c, S) /\ AreJoined(EndAt(Origin, c, Len(c)), d, S)
  BY JoinedSplit

LEMMA UnitsEnd ==
  \A all : \A c, d \in Seq(Seq(Units)) :
    all = c \o d =>
      EndAt(Origin, all, Len(all)) =
        IF d = <<>> THEN EndAt(Origin, c, Len(c))
                    ELSE d[Len(d)][Len(d[Len(d)])]
<1> SUFFICES ASSUME NEW c \in Seq(Seq(Units)), NEW d \in Seq(Seq(Units)),
                    NEW all, all = c \o d
             PROVE  EndAt(Origin, all, Len(all)) =
                      IF d = <<>> THEN EndAt(Origin, c, Len(c))
                    ELSE d[Len(d)][Len(d[Len(d)])]
  OBVIOUS
<1>1. /\ Len(c) \in Nat /\ Len(d) \in Nat
      /\ Len(all) = Len(c) + Len(d)
      /\ \A i \in 1..Len(d) : all[Len(c) + i] = d[i]
  BY ConcatAt
<1>2. CASE d = <<>>
  <2>1. all = c
    BY <1>2
  <2> QED
    BY <1>2, <2>1
<1>3. CASE d # <<>>
  <2>1. Len(d) \in 1..Len(d) /\ Len(all) # 0
    BY <1>1, <1>3, EmptySeq
  <2>2. all[Len(all)] = d[Len(d)]
    BY <2>1, <1>1
  <2> QED
    BY <2>1, <2>2, <1>3 DEF EndAt
<1> QED
  BY <1>2, <1>3

LEMMA UnitsConcat ==
  \A s, t \in Seq(Seq(Units)) :
    /\ Len(s \o t) = Len(s) + Len(t)
    /\ \A i \in 1..Len(s) : (s \o t)[i] = s[i]
    /\ \A i \in 1..Len(t) : (s \o t)[Len(s) + i] = t[i]
  BY ConcatAt

(* ProcessRawPacket: what was received stays the messages that were sent. *)
LEMMA StreamReceived ==
  ASSUME NEW sizes \in Seq(Nat \ {0}), NEW m \in Nat, m =< Len(sizes),
         NEW done \in Seq(Seq(Units)), NEW data \in Seq(Seq(Units)),
         AreJoined(Origin, done \o data, UnitsOf(sizes, m)),
         NEW old, Len(old) \in Nat, NEW queue \in Seq(Seq(Units)),
         NEW fragment \in Seq(Units), IsReceived(sizes, old, queue, fragment, done)
  PROVE  LET units == fragment \o FlattenSeq(data)
         IN  /\ Complete(units) \in Seq(Seq(Units)) /\ Partial(units) \in Seq(Units)
             /\ IsReceived(sizes, old, queue \o Complete(units), Partial(units),
                           done \o data)
<1> DEFINE S == UnitsOf(sizes, m)
           flat == FlattenSeq(data)
           units == fragment \o flat
           n == Len(old) + Len(queue)
           all == done \o data
           start == EndAt(Origin, done, Len(done))
           end == EndAt(Origin, all, Len(all))
           more == queue \o Complete(units)
<1>1. /\ AreJoined(Origin, done, S) /\ AreJoined(start, data, S)
      /\ end = EndAt(start, data, Len(data))
  <2>1. AreJoined(Origin, all, S) /\ all = done \o data
    OBVIOUS
  <2> HIDE DEF S, flat, units, n, all, more
  <2>2. AreJoined(Origin, done, S) /\ AreJoined(start, data, S)
    BY <2>1, UnitsSplit DEF start
  <2>3. end = IF data = <<>> THEN start
             ELSE data[Len(data)][Len(data[Len(data)])]
    BY <2>1, UnitsEnd DEF end, start
  <2>4. data = <<>> <=> Len(data) = 0
    OBVIOUS
  <2> HIDE DEF start, end
  <2>5. end = EndAt(start, data, Len(data))
    BY <2>3, <2>4 DEF EndAt
  <2> QED
    BY <2>2, <2>5
<1>2. /\ Len(queue) \in Nat /\ n \in Nat /\ Len(done) \in Nat
      /\ IsFragment(fragment, n, start)
      /\ \A i \in 1..Len(old) : old[i] = MessageUnits(i, sizes[i])
      /\ \A i \in 1..Len(queue) :
           queue[i] = MessageUnits(Len(old) + i, sizes[Len(old) + i])
  BY LenProperties DEF IsReceived
<1> HIDE DEF start, end, all
<1>3. CASE data = <<>>
  <2>1. flat = <<>>
    BY <1>3, FlattenNothing
  <2>2. units = fragment
    BY <2>1
  <2>3. \A j \in 1..Len(fragment) : ~fragment[j].last
    BY <1>2, FragmentOpen
  <2>4. Complete(units) = <<>> /\ Partial(units) = fragment
    BY <2>2, <2>3, FragmentAlone
  <2>5. more = queue
    BY <2>4
  <2>6. all = done
    BY <1>3 DEF all
  <2>7. IsReceived(sizes, old, more, Partial(units), all)
    BY <2>4, <2>5, <2>6
  <2>8. <<>> \in Seq(Seq(Units))
    OBVIOUS
  <2> HIDE DEF units
  <2> QED
    BY <2>4, <2>7, <2>8 DEF units, all
<1>4. CASE data # <<>>
  <2>1. data \in Seq(Seq(S))
    <3>1. \A i \in 1..Len(data) : data[i] \in Seq(S)
      BY <1>1 DEF AreJoined, IsRun
    <3> DEFINE T == Seq(S)
    <3>2. \A i \in 1..Len(data) : data[i] \in T
      BY <3>1
    <3> HIDE DEF T
    <3>3. data \in Seq(T)
      BY <3>2, SeqIn
    <3> QED
      BY <3>3 DEF T
  <2>2. /\ IsRun(flat, S) /\ flat # <<>> /\ Follows(start, flat[1])
        /\ flat[Len(flat)] = end
    <3> HIDE DEF S
    <3> QED
      BY <1>1, <1>4, <2>1, FlattenRun
  <2>3. start = Origin \/ start \in S
    <3>1. CASE Len(done) = 0
      BY <3>1 DEF start, EndAt
    <3>2. CASE Len(done) # 0
      <4>1. Len(done) \in 1..Len(done)
        BY <3>2, <1>2
      <4> HIDE DEF S
      <4> QED
        BY <4>1, <1>1, <1>2, EndAtType DEF start
    <3> QED
      BY <3>1, <3>2
  <2> HIDE DEF flat
  <2>4. BeginsMessage(units, sizes, m, n) /\ units[Len(units)] = end
    <3> HIDE DEF n
    <3> QED
      BY <1>2, <2>2, <2>3, FragmentBegins
  <2> HIDE DEF units
  <2> DEFINE c == Cardinality(MessageEnds(units))
  <2>5. /\ c \in Nat /\ Complete(units) \in Seq(Seq(Units)) /\ Len(Complete(units)) = c
        /\ \A i \in 1..c : Complete(units)[i] = MessageUnits(n + i, sizes[n + i])
    <3> HIDE DEF n
    <3> QED
      BY <2>4, CompleteIs, CompleteType
  <2>6. /\ end.last => end.msg = n + c /\ Partial(units) = <<>>
        /\ ~end.last => /\ end.msg = n + c + 1
                        /\ Partial(units) \in Seq(S)
                        /\ Len(Partial(units)) = end.pos
                        /\ \A j \in 1..end.pos : Partial(units)[j] =
                             [msg |-> n + c + 1, pos |-> j, last |-> FALSE]
    <3> HIDE DEF n
    <3> QED
      BY <2>4, PartialIs
  <2> HIDE DEF c
  <2>7. Partial(units) \in Seq(Units)
    <3>1. S \subseteq Units
      BY DEF UnitsOf
    <3> HIDE DEF S
    <3>2. <<>> \in Seq(Units) /\ \A s : s \in Seq(S) => s \in Seq(Units)
      BY <3>1
    <3> QED
      BY <2>6, <3>2
  <2>8. /\ Len(more) = Len(queue) + c
        /\ \A i \in 1..Len(queue) : more[i] = queue[i]
        /\ \A i \in 1..c : more[Len(queue) + i] = Complete(units)[i]
    <3> DEFINE comp == Complete(units)
    <3>1. comp \in Seq(Seq(Units)) /\ Len(comp) = c
      BY <2>5
    <3> HIDE DEF comp
    <3>2. /\ Len(queue \o comp) = Len(queue) + Len(comp)
          /\ \A i \in 1..Len(queue) : (queue \o comp)[i] = queue[i]
          /\ \A i \in 1..Len(comp) : (queue \o comp)[Len(queue) + i] = comp[i]
      BY <3>1, UnitsConcat, Zenon
    <3> QED
      BY <3>1, <3>2 DEF comp
  <2> HIDE DEF more
  <2>9. ASSUME NEW i \in 1..Len(more)
        PROVE  more[i] = MessageUnits(Len(old) + i, sizes[Len(old) + i])
    <3>1. CASE i =< Len(queue)
      BY <3>1, <1>2, <2>8
    <3>2. CASE i > Len(queue)
      <4> DEFINE j == i - Len(queue)
      <4>1. j \in 1..c /\ i = Len(queue) + j /\ n + j = Len(old) + i
        BY <3>2, <1>2, <2>5, <2>8
      <4> HIDE DEF j, n
      <4>2. more[i] = Complete(units)[j]
        BY <4>1, <2>8
      <4>3. Complete(units)[j] = MessageUnits(n + j, sizes[n + j])
        BY <4>1, <2>5
      <4> QED
        BY <4>1, <4>2, <4>3
    <3> QED
      BY <3>1, <3>2, <1>2, <2>5, <2>8
  <2>10. Len(old) + Len(more) = n + c
    BY <1>2, <2>5, <2>8
  <2>11. IsFragment(Partial(units), Len(old) + Len(more), end)
    <3>1. IsFragment(Partial(units), n + c, end)
      <4> HIDE DEF n
      <4> QED
        BY <2>6 DEF IsFragment
    <3> QED
      BY <2>10, <3>1
  <2>12. IsReceived(sizes, old, more, Partial(units), all)
    BY <1>2, <2>9, <2>11 DEF IsReceived, end
  <2> QED
    BY <2>5, <2>7, <2>12 DEF units, all, flat, more
<1> QED
  BY <1>3, <1>4

(* GetData: the next message is taken from the queue. *)
LEMMA StreamTaken ==
  ASSUME NEW sizes, NEW T, NEW old \in Seq(T), NEW queue \in Seq(T), queue # <<>>,
         NEW fragment, NEW done, IsReceived(sizes, old, queue, fragment, done)
  PROVE  /\ Head(queue) = MessageUnits(Len(old) + 1, sizes[Len(old) + 1])
         /\ IsReceived(sizes, Append(old, Head(queue)), Tail(queue), fragment, done)
<1> DEFINE more == Append(old, Head(queue))
           rest == Tail(queue)
           l == Len(old)
           q == Len(queue)
<1>1. /\ \A i \in 1..l : old[i] = MessageUnits(i, sizes[i])
      /\ \A i \in 1..q : queue[i] = MessageUnits(l + i, sizes[l + i])
      /\ IsFragment(fragment, l + q, EndAt(Origin, done, Len(done)))
  BY DEF IsReceived
<1>2. l \in Nat /\ q \in Nat /\ q >= 1
  BY LenProperties, EmptySeq
<1>3. 1 \in 1..q /\ Head(queue) = queue[1] /\ Head(queue) \in T
  BY <1>2, HeadTailProperties, ElementOfSeq
<1>4. /\ Len(more) = l + 1 /\ more[l + 1] = Head(queue)
      /\ \A i \in 1..l : more[i] = old[i]
  BY <1>2, <1>3, AppendProperties
<1>5. Len(rest) = q - 1 /\ \A i \in 1..(q - 1) : rest[i] = queue[i + 1]
  BY <1>2, HeadTailProperties
<1>6. Head(queue) = MessageUnits(l + 1, sizes[l + 1])
  BY <1>1, <1>3
<1> HIDE DEF l, q, more, rest
<1>7. \A i \in 1..Len(more) : more[i] = MessageUnits(i, sizes[i])
  <2> SUFFICES ASSUME NEW i \in 1..Len(more)
               PROVE  more[i] = MessageUnits(i, sizes[i])
    OBVIOUS
  <2>1. CASE i \in 1..l
    BY <2>1, <1>1, <1>4
  <2>2. CASE i = l + 1
    BY <2>2, <1>4, <1>6
  <2> QED
    BY <2>1, <2>2, <1>2, <1>4
<1>8. \A i \in 1..Len(rest) :
        rest[i] = MessageUnits(Len(more) + i, sizes[Len(more) + i])
  <2> SUFFICES ASSUME NEW i \in 1..Len(rest)
               PROVE  rest[i] = MessageUnits(Len(more) + i, sizes[Len(more) + i])
    OBVIOUS
  <2>1. i \in 1..(q - 1) /\ i + 1 \in 1..q /\ Len(more) + i = l + (i + 1)
    BY <1>2, <1>4, <1>5
  <2> QED
    BY <2>1, <1>1, <1>5
<1>9. Len(more) + Len(rest) = l + q
  BY <1>2, <1>4, <1>5
<1> QED
  BY <1>1, <1>6, <1>7, <1>8, <1>9 DEF IsReceived, more, rest, l
--------------------------------------------------------------------------------
(* The steps. *)

(* Nothing was sent and nothing received. *)
LEMMA InitStream == Init => StreamInductive
<1> SUFFICES ASSUME Init
             PROVE  StreamInductive
  OBVIOUS
<1>1. Inductive
  BY InitInductive
<1>2. StreamTypes
  BY DEF Init, StreamTypes, TurnTypes
<1>3. Origin.last /\ Origin.msg = 0 /\ EndAt(Origin, <<>>, Len(<<>>)) = Origin
  BY DEF Origin, EndAt
<1>4. SentInOrder
  <2> SUFFICES ASSUME NEW e \in Ends
               PROVE  IsStream(Messages[e], 0, <<>>, <<>>)
    BY DEF Init, SentInOrder
  <2>1. Len(Messages[e]) \in Nat
    BY UdpAssumption, LenProperties
  <2>2. AreJoined(Origin, <<>>, UnitsOf(Messages[e], 0))
    BY DEF AreJoined
  <2>3. IsRun(<<>>, UnitsOf(Messages[e], 0))
    BY DEF IsRun
  <2> QED
    BY <1>3, <2>1, <2>2, <2>3 DEF IsStream
<1>5. ReceivedInOrder
  <2> SUFFICES ASSUME NEW e \in Ends
               PROVE  IsReceived(Messages[Peer(e)], <<>>, <<>>, <<>>, <<>>)
    BY DEF Init, ReceivedInOrder
  <2>1. IsFragment(<<>>, 0, Origin)
    BY <1>3 DEF IsFragment
  <2>2. IsFragment(<<>>, Len(<<>>) + Len(<<>>), Origin)
    BY <2>1
  <2> QED
    BY <1>3, <2>2 DEF IsReceived
<1> QED
  BY <1>1, <1>2, <1>4, <1>5 DEF StreamInductive

(* What no step touches stays as it is. *)
LEMMA SentUntouched ==
  ASSUME SentInOrder, UNCHANGED <<outgoingData, created, numSent>>
  PROVE  SentInOrder'
  BY DEF SentInOrder

LEMMA ReceivedUntouched ==
  ASSUME ReceivedInOrder, UNCHANGED <<fragmentBuffer, msgQueue, processed, taken>>
  PROVE  ReceivedInOrder'
  BY DEF ReceivedInOrder

(* SendData *)
LEMMA SendDataStream ==
  ASSUME StreamInductive, NEW e \in Ends, SendData(e)
  PROVE  StreamTypes' /\ SentInOrder' /\ ReceivedInOrder'
<1> DEFINE m == numSent[e]
<1>1. /\ m < Len(Messages[e]) /\ numSent' = [numSent EXCEPT ![e] = m + 1]
      /\ outgoingData' = [outgoingData EXCEPT ![e] =
           @ \o MessageUnits(numSent'[e], Messages[e][numSent'[e]])]
      /\ UNCHANGED <<resend, lastMidChunk, created, fragmentBuffer, msgQueue,
                     processed, muted, closed, taken>>
  BY DEF SendData, receiver
<1>2. StreamTypes'
  BY <1>1 DEF StreamInductive, StreamTypes, TurnTypes
<1>3. m \in Nat /\ numSent'[e] = m + 1 /\ Messages[e] \in Seq(Nat \ {0})
  BY <1>1, UdpAssumption DEF StreamInductive, Inductive, ChunkTypes
<1>4. outgoingData'[e] = outgoingData[e] \o MessageUnits(m + 1, Messages[e][m + 1])
  BY <1>1, <1>3 DEF StreamInductive, Inductive, ChunkTypes
<1>5. IsStream(Messages[e], m, created[e], outgoingData[e])
  BY DEF StreamInductive, SentInOrder
<1> HIDE DEF m
<1>6. IsStream(Messages[e], m + 1, created[e], outgoingData'[e])
  BY <1>1, <1>3, <1>4, <1>5, StreamSent
<1>7. SentInOrder'
  <2> SUFFICES ASSUME NEW x \in Ends
               PROVE  IsStream(Messages[x], numSent'[x], created[x], outgoingData'[x])
    BY <1>1 DEF SentInOrder
  <2>1. CASE x = e
    BY <1>3, <1>6, <2>1
  <2>2. CASE x # e
    <3>1. numSent'[x] = numSent[x] /\ outgoingData'[x] = outgoingData[x]
      BY <1>1, <2>2 DEF StreamInductive, Inductive, ChunkTypes
    <3> QED
      BY <3>1 DEF StreamInductive, SentInOrder
  <2> QED
    BY <2>1, <2>2
<1> QED
  BY <1>1, <1>2, <1>7, ReceivedUntouched DEF StreamInductive

(* GetData *)
LEMMA GetDataStream ==
  ASSUME StreamInductive, NEW e \in Ends, GetData(e)
  PROVE  /\ StreamTypes' /\ SentInOrder' /\ ReceivedInOrder'
         /\ Head(msgQueue[e]) =
              MessageUnits(Len(taken[e]) + 1, Messages[Peer(e)][Len(taken[e]) + 1])
<1> DEFINE old == taken[e]
           queue == msgQueue[e]
           sizes == Messages[Peer(e)]
<1>1. /\ queue # <<>>
      /\ taken' = [taken EXCEPT ![e] = Append(old, Head(queue))]
      /\ msgQueue' = [msgQueue EXCEPT ![e] = Tail(queue)]
      /\ UNCHANGED <<outgoingData, resend, lastMidChunk, created, fragmentBuffer,
                     processed, muted, closed, numSent>>
  BY DEF GetData, sender
<1>2. /\ taken \in [Ends -> Seq(Seq(Units))] /\ old \in Seq(Seq(Units))
      /\ msgQueue \in [Ends -> Seq(Seq(Units))] /\ queue \in Seq(Seq(Units))
  BY DEF StreamInductive, StreamTypes
<1>3. IsReceived(sizes, old, queue, fragmentBuffer[e], processed[e])
  BY DEF StreamInductive, ReceivedInOrder
<1> HIDE DEF old, queue, sizes
<1>4. /\ Head(queue) = MessageUnits(Len(old) + 1, sizes[Len(old) + 1])
      /\ IsReceived(sizes, Append(old, Head(queue)), Tail(queue), fragmentBuffer[e],
                    processed[e])
  BY <1>1, <1>2, <1>3, StreamTaken
<1>5. Append(old, Head(queue)) \in Seq(Seq(Units)) /\ Tail(queue) \in Seq(Seq(Units))
  <2> DEFINE T == Seq(Units)
  <2> HIDE DEF T
  <2>1. queue \in Seq(T) /\ old \in Seq(T)
    BY <1>2 DEF T
  <2>2. Head(queue) \in T /\ Tail(queue) \in Seq(T)
    BY <2>1, <1>1, HeadTailProperties
  <2>3. Append(old, Head(queue)) \in Seq(T)
    BY <2>1, <2>2, AppendProperties
  <2> QED
    BY <2>2, <2>3 DEF T
<1>6. /\ taken' \in [Ends -> Seq(Seq(Units))]
      /\ msgQueue' \in [Ends -> Seq(Seq(Units))]
      /\ taken'[e] = Append(old, Head(queue)) /\ msgQueue'[e] = Tail(queue)
      /\ \A x \in Ends : x # e => taken'[x] = taken[x] /\ msgQueue'[x] = msgQueue[x]
  BY <1>1, <1>2, <1>5
<1>7. StreamTypes'
  BY <1>1, <1>6 DEF StreamInductive, StreamTypes, TurnTypes
<1>8. ReceivedInOrder'
  <2> SUFFICES ASSUME NEW x \in Ends
               PROVE  IsReceived(Messages[Peer(x)], taken'[x], msgQueue'[x],
                                 fragmentBuffer[x], processed[x])
    BY <1>1 DEF ReceivedInOrder
  <2>1. CASE x = e
    BY <1>4, <1>6, <2>1 DEF sizes
  <2>2. CASE x # e
    BY <1>6, <2>2 DEF StreamInductive, ReceivedInOrder
  <2> QED
    BY <2>1, <2>2
<1>9. SentInOrder'
  BY <1>1, SentUntouched DEF StreamInductive
<1> QED
  BY <1>4, <1>7, <1>8, <1>9 DEF old, queue, sizes

(* Flush, Update and Close *)
LEMMA FlushStream ==
  ASSUME StreamInductive, NEW e \in Ends, NEW forced \in BOOLEAN, DoFlush(e, forced),
         UNCHANGED <<receiver, numSent, taken>>
  PROVE  SentInOrder' /\ ReceivedInOrder' /\ TurnTypes'
<1>1. PICK data \in Seq(Seq(Units)), fresh \in Seq(Chunk) : Flushed(e, data, fresh)
  BY DoFlushEffect DEF StreamInductive
<1>2. PICK k \in 0..Len(outgoingData[e]) :
        /\ data = Cut(SubSeq(outgoingData[e], 1, k), MaxChunkSize)
        /\ outgoingData' = [outgoingData EXCEPT ![e] = SubSeq(@, k + 1, Len(@))]
  BY <1>1 DEF Flushed
<1>3. created' = [created EXCEPT ![e] = @ \o data] /\ (TurnTypes => TurnTypes')
  BY <1>1 DEF Flushed
<1>4. /\ created[e] \in Seq(Seq(Units))
      /\ created'[e] = created[e] \o data
      /\ outgoingData'[e] = SubSeq(outgoingData[e], k + 1, Len(outgoingData[e]))
      /\ \A x \in Ends : x # e => /\ created'[x] = created[x]
                                  /\ outgoingData'[x] = outgoingData[x]
  BY <1>2, <1>3 DEF StreamInductive, Inductive, ChunkTypes
<1>5. IsStream(Messages[e], numSent[e], created[e], outgoingData[e])
  BY DEF StreamInductive, SentInOrder
<1>6. IsStream(Messages[e], numSent[e], created'[e], outgoingData'[e])
  <2> DEFINE sizes == Messages[e]
             m     == numSent[e]
             before == created[e]
             rest  == outgoingData[e]
             size  == MaxChunkSize
  <2>1. size \in Nat \ {0} /\ before \in Seq(Seq(Units)) /\ k \in 0..Len(rest)
    BY <1>2, <1>4, UdpAssumption
  <2>2. IsStream(sizes, m, before, rest)
    BY <1>5
  <2>3. data = Cut(SubSeq(rest, 1, k), size)
    BY <1>2
  <2>4. IsStream(sizes, m, before \o Cut(SubSeq(rest, 1, k), size),
                 SubSeq(rest, k + 1, Len(rest)))
    <3> HIDE DEF sizes, m, before, rest, size
    <3> QED
      BY <2>1, <2>2, StreamCut
  <2>5. created'[e] = before \o data /\ outgoingData'[e] = SubSeq(rest, k + 1, Len(rest))
    BY <1>4
  <2> HIDE DEF before, rest, size
  <2> QED
    BY <2>3, <2>4, <2>5
<1>7. SentInOrder'
  <2> SUFFICES ASSUME NEW x \in Ends
               PROVE  IsStream(Messages[x], numSent[x], created'[x], outgoingData'[x])
    BY DEF SentInOrder
  <2>1. CASE x = e
    BY <1>6, <2>1
  <2>2. CASE x # e
    BY <1>4, <2>2 DEF StreamInductive, SentInOrder
  <2> QED
    BY <2>1, <2>2
<1>8. ReceivedInOrder'
  BY ReceivedUntouched DEF StreamInductive, receiver
<1> QED
  BY <1>3, <1>7, <1>8 DEF StreamInductive, StreamTypes

(* ProcessRawPacket *)
LEMMA ReceiveStream ==
  ASSUME StreamInductive, NEW e \in Ends, NEW pkt \in net[e], Receive(e, pkt), Inductive'
  PROVE  StreamTypes' /\ SentInOrder' /\ ReceivedInOrder'
<1> DEFINE f == Peer(e)
           arrived == waitingPackets[e] \cup Accepted(e, pkt)
           data == InOrder(e, arrived)
           units == fragmentBuffer[e] \o FlattenSeq(data)
           sizes == Messages[f]
           m == numSent[f]
<1>1. ProcessRawPacket(e, pkt) /\ UNCHANGED <<muted, closed, numSent, taken>>
  BY DEF Receive
<1>2. CASE Superfluous(e, pkt)
  <2>1. UNCHANGED <<sender, receiver, muted, closed, numSent, taken>>
    BY <1>1, <1>2 DEF ProcessRawPacket
  <2>2. StreamTypes'
    BY <2>1 DEF StreamInductive, StreamTypes, TurnTypes, sender, receiver
  <2> QED
    BY <2>1, <2>2, SentUntouched, ReceivedUntouched DEF StreamInductive, sender, receiver
<1>3. CASE ~Superfluous(e, pkt)
  <2>1. /\ Process(e, arrived)
        /\ UNCHANGED <<outgoingData, created, resend, lastMidChunk, numSent, taken,
                       muted, closed>>
    BY <1>1, <1>3 DEF ProcessRawPacket
  <2>2. /\ fragmentBuffer' = [fragmentBuffer EXCEPT ![e] = Partial(units)]
        /\ msgQueue' = [msgQueue EXCEPT ![e] = @ \o Complete(units)]
        /\ processed' = [processed EXCEPT ![e] = @ \o data]
    BY <2>1 DEF Process
  <2>3. data \in Seq(Seq(Units))
    <3>1. Inductive
      BY DEF StreamInductive
    <3> QED
      BY <2>1, <3>1, ProcessStep
  <2>4. /\ f \in Ends /\ sizes \in Seq(Nat \ {0}) /\ m \in Nat
        /\ fragmentBuffer[e] \in Seq(Units) /\ msgQueue[e] \in Seq(Seq(Units))
        /\ taken[e] \in Seq(Seq(Units)) /\ Len(taken[e]) \in Nat
        /\ processed[e] \in Seq(Seq(Units))
    BY EndsFacts, UdpAssumption, LenProperties
    DEF StreamInductive, Inductive, ChunkTypes, StreamTypes
  <2>5. IsStream(sizes, m, created[f], outgoingData[f])
    BY <2>4 DEF StreamInductive, SentInOrder
  <2>6. m =< Len(sizes) /\ AreJoined(Origin, created[f], UnitsOf(sizes, m))
    BY <2>5 DEF IsStream
  <2>7. processed'[e] = processed[e] \o data
    BY <2>2 DEF StreamInductive, Inductive, ChunkTypes
  <2> HIDE DEF f, data, units, sizes, m, arrived
  <2>8. AreJoined(Origin, processed[e] \o data, UnitsOf(sizes, m))
    <3> DEFINE p == processed'[e]
               c == created[f]
    <3>1. /\ Len(p) \in Nat /\ Len(c) \in Nat /\ Len(p) =< Len(c)
          /\ \A i \in 1..Len(p) : p[i] = c[i]
      BY <2>1, <2>4, LenProperties DEF Inductive, ChunkTypes, ProcessedInOrder, f
    <3> HIDE DEF p, c
    <3>2. AreJoined(Origin, c, UnitsOf(sizes, m))
      BY <2>6 DEF c
    <3>3. AreJoined(Origin, p, UnitsOf(sizes, m))
      BY <3>1, <3>2, JoinedPrefix
    <3> QED
      BY <2>7, <3>3 DEF p
  <2>9. IsReceived(sizes, taken[e], msgQueue[e], fragmentBuffer[e], processed[e])
    BY DEF StreamInductive, ReceivedInOrder, sizes, f
  <2>10. /\ Complete(units) \in Seq(Seq(Units)) /\ Partial(units) \in Seq(Units)
         /\ IsReceived(sizes, taken[e], msgQueue[e] \o Complete(units), Partial(units),
                       processed[e] \o data)
    BY <2>3, <2>4, <2>6, <2>8, <2>9, StreamReceived DEF units
  <2>11. msgQueue[e] \o Complete(units) \in Seq(Seq(Units))
    BY <2>4, <2>10, ConcatProperties
  <2>12. /\ fragmentBuffer' \in [Ends -> Seq(Units)]
         /\ msgQueue' \in [Ends -> Seq(Seq(Units))]
         /\ fragmentBuffer'[e] = Partial(units)
         /\ msgQueue'[e] = msgQueue[e] \o Complete(units)
         /\ \A x \in Ends : x # e => /\ fragmentBuffer'[x] = fragmentBuffer[x]
                                     /\ msgQueue'[x] = msgQueue[x]
                                     /\ processed'[x] = processed[x]
    BY <2>2, <2>10, <2>11 DEF StreamInductive, StreamTypes, Inductive, ChunkTypes
  <2>13. StreamTypes'
    BY <2>1, <2>12 DEF StreamInductive, StreamTypes, TurnTypes
  <2>14. ReceivedInOrder'
    <3> SUFFICES ASSUME NEW x \in Ends
                 PROVE  IsReceived(Messages[Peer(x)], taken[x], msgQueue'[x],
                                   fragmentBuffer'[x], processed'[x])
      BY <2>1 DEF ReceivedInOrder
    <3>1. CASE x = e
      BY <2>7, <2>10, <2>12, <3>1 DEF sizes, f
    <3>2. CASE x # e
      BY <2>12, <3>2 DEF StreamInductive, ReceivedInOrder
    <3> QED
      BY <3>1, <3>2
  <2>15. SentInOrder'
    BY <2>1, SentUntouched DEF StreamInductive
  <2> QED
    BY <2>13, <2>14, <2>15
<1> QED
  BY <1>2, <1>3

(* Nothing but the network and the two flags is touched. *)
LEMMA NoStreamStep ==
  ASSUME StreamInductive, UNCHANGED <<sender, receiver, numSent, taken>>,
         muted' \in [Ends -> BOOLEAN], closed' \in [Ends -> BOOLEAN]
  PROVE  StreamTypes' /\ SentInOrder' /\ ReceivedInOrder'
<1>1. StreamTypes'
  BY DEF StreamInductive, StreamTypes, TurnTypes, sender, receiver
<1>2. SentInOrder'
  BY SentUntouched DEF StreamInductive, sender
<1>3. ReceivedInOrder'
  BY ReceivedUntouched DEF StreamInductive, receiver
<1> QED
  BY <1>1, <1>2, <1>3

LEMMA NextStream ==
  ASSUME StreamInductive, [Next]_vars
  PROVE  StreamInductive'
<1> DEFINE Kept == StreamTypes' /\ SentInOrder' /\ ReceivedInOrder'
<1>1. Inductive'
  BY NextInductive DEF StreamInductive
<1>2. /\ muted \in [Ends -> BOOLEAN] /\ closed \in [Ends -> BOOLEAN]
      /\ fragmentBuffer \in [Ends -> Seq(Units)]
      /\ msgQueue \in [Ends -> Seq(Seq(Units))] /\ taken \in [Ends -> Seq(Seq(Units))]
  BY DEF StreamInductive, StreamTypes
<1>3. ASSUME NEW e \in Ends, Unmute(e)
      PROVE  Kept
  BY <1>2, <1>3, NoStreamStep DEF Unmute
<1>4. ASSUME NEW e \in Ends, SendData(e)
      PROVE  Kept
  BY <1>4, SendDataStream
<1>5. ASSUME NEW e \in Ends, GetData(e)
      PROVE  Kept
  BY <1>5, GetDataStream
<1>6. ASSUME NEW e \in Ends, NEW forced \in BOOLEAN, DoFlush(e, forced),
             UNCHANGED <<receiver, numSent, taken>>,
             muted' \in [Ends -> BOOLEAN], closed' \in [Ends -> BOOLEAN]
      PROVE  Kept
  <2>1. SentInOrder' /\ ReceivedInOrder' /\ TurnTypes'
    BY <1>6, FlushStream
  <2>2. StreamTypes'
    BY <1>2, <1>6, <2>1 DEF StreamTypes, receiver
  <2> QED
    BY <2>1, <2>2
<1>7. ASSUME NEW e \in Ends, NEW forced \in BOOLEAN, Flush(e, forced)
      PROVE  Kept
  <2>1. /\ DoFlush(e, forced) /\ UNCHANGED <<receiver, numSent, taken>>
        /\ UNCHANGED <<muted, closed>>
    BY <1>7 DEF Flush
  <2>2. muted' \in [Ends -> BOOLEAN] /\ closed' \in [Ends -> BOOLEAN]
    BY <1>2, <2>1
  <2> QED
    BY <1>6, <2>1, <2>2
<1>8. ASSUME NEW e \in Ends, NEW flush \in BOOLEAN, Close(e, flush)
      PROVE  Kept
  <2>1. /\ IF muted[e] THEN UNCHANGED <<sender, net>> ELSE DoFlush(e, flush)
        /\ muted' = [muted EXCEPT ![e] = TRUE] /\ closed' = [closed EXCEPT ![e] = TRUE]
        /\ UNCHANGED <<receiver, numSent, taken>>
    BY <1>8 DEF Close
  <2>2. muted' \in [Ends -> BOOLEAN] /\ closed' \in [Ends -> BOOLEAN]
    BY <1>2, <2>1
  <2>3. CASE muted[e]
    BY <2>1, <2>2, <2>3, NoStreamStep
  <2>4. CASE ~muted[e]
    <3>1. DoFlush(e, flush)
      BY <2>1, <2>4
    <3> QED
      BY <1>6, <2>1, <2>2, <3>1
  <2> QED
    BY <2>3, <2>4
<1>9. ASSUME NEW e \in Ends, NEW pkt \in net[e], Receive(e, pkt)
      PROVE  Kept
  BY <1>1, <1>9, ReceiveStream
<1>10. ASSUME NEW e \in Ends, NEW pkt \in net[e], Lose(e, pkt)
       PROVE  Kept
  <2>1. /\ UNCHANGED <<sender, receiver, numSent, taken>>
        /\ muted' = muted /\ closed' = closed
    BY <1>10 DEF Lose
  <2> QED
    BY <1>2, <2>1, NoStreamStep
<1>11. ASSUME AttemptReconnect PROVE Kept
  <2>1. /\ UNCHANGED <<sender, receiver, numSent, taken>>
        /\ muted' = muted /\ closed' = closed
    BY <1>11 DEF AttemptReconnect
  <2> QED
    BY <1>2, <2>1, NoStreamStep
<1>12. ASSUME UNCHANGED vars PROVE Kept
  <2>1. /\ UNCHANGED <<sender, receiver, numSent, taken>>
        /\ muted' = muted /\ closed' = closed
    BY <1>12 DEF vars
  <2> QED
    BY <1>2, <2>1, NoStreamStep
<1>13. Kept
  <2> HIDE DEF Kept
  <2>1. ASSUME NEW e \in Ends, Update(e)
        PROVE  Kept
    <3>1. Flush(e, FALSE)
      BY <2>1 DEF Update
    <3> QED
      BY <1>7, <3>1
  <2>2. ASSUME NEW e \in Ends, Flush(e, TRUE)
        PROVE  Kept
    BY <1>7, <2>2
  <2> QED
    BY <1>3, <1>4, <1>5, <1>8, <1>9, <1>10, <1>11, <1>12, <2>1, <2>2 DEF Next
<1> QED
  BY <1>1, <1>13 DEF StreamInductive

(* The stream invariant holds. *)
THEOREM StreamInductiveHolds == Spec => []StreamInductive
  BY InitStream, NextStream, PTL DEF Spec

THEOREM UdpTypes == Spec => []TypeOK
<1>1. StreamInductive => TypeOK
  BY DEF StreamInductive, Inductive, StreamTypes, ChunkTypes, TurnTypes, TypeOK
<1> QED
  BY <1>1, StreamInductiveHolds, PTL
--------------------------------------------------------------------------------
(* The channel. *)

(* The messages end e has given to SendData. *)
Given(e) == [i \in 1..numSent[e] |-> MessageUnits(i, Messages[e][i])]
GivenByAll == [e \in Ends |-> Given(e)]

LEMMA ChannelInit == Init => Channel!Init
<1> SUFFICES ASSUME Init
             PROVE  Channel!Init
  OBVIOUS
<1>1. \A e \in Ends : numSent[e] = 0 /\ taken = [x \in Ends |-> <<>>]
  BY DEF Init
<1>2. \A e \in Ends : Given(e) = <<>>
  <2> SUFFICES ASSUME NEW e \in Ends
               PROVE  Given(e) = <<>>
    OBVIOUS
  <2>1. Given(e) = [i \in 1..0 |-> MessageUnits(i, Messages[e][i])]
    BY <1>1 DEF Given
  <2> QED
    BY <2>1
<1>3. GivenByAll = [e \in Ends |-> <<>>]
  BY <1>2 DEF GivenByAll
<1>4. taken = [e \in Ends |-> <<>>]
  BY DEF Init
<1> QED
  BY <1>3, <1>4 DEF Channel!Init, GivenByAll, Given

(* A message is given to SendData. *)
LEMMA SendIsSend ==
  ASSUME StreamInductive, NEW e \in Ends, SendData(e)
  PROVE  \E m \in AllMessages : Channel!Send(e, m)
<1> DEFINE n == numSent[e] + 1
           m == MessageUnits(n, Messages[e][n])
<1>1. /\ numSent[e] < Len(Messages[e]) /\ numSent' = [numSent EXCEPT ![e] = n]
      /\ taken' = taken
  BY DEF SendData
<1>2. numSent \in [Ends -> Nat] /\ Len(Messages[e]) \in Nat
  BY UdpAssumption, LenProperties DEF StreamInductive, Inductive, ChunkTypes
<1>3. /\ n \in 1..Len(Messages[e]) /\ numSent[e] \in Nat
      /\ numSent'[e] = n /\ \A x \in Ends : x # e => numSent'[x] = numSent[x]
  BY <1>1, <1>2
<1>4. m \in AllMessages
  BY <1>3 DEF AllMessages
<1>5. Given(e)' = Append(Given(e), m)
  <2> DEFINE k == numSent[e]
             sizes == Messages[e]
  <2>1. /\ Given(e)' = [i \in 1..(k + 1) |-> MessageUnits(i, sizes[i])]
        /\ Given(e) = [i \in 1..k |-> MessageUnits(i, sizes[i])]
        /\ m = MessageUnits(k + 1, sizes[k + 1]) /\ k \in Nat
    BY <1>3 DEF Given
  <2> HIDE DEF k, sizes, m
  <2>2. Append([i \in 1..k |-> MessageUnits(i, sizes[i])], m)
          = [i \in 1..(k + 1) |-> MessageUnits(i, sizes[i])]
    BY <2>1
  <2> QED
    BY <2>1, <2>2
<1>6. \A x \in Ends : x # e => Given(x)' = Given(x)
  BY <1>3 DEF Given
<1> HIDE DEF m, n
<1>7. GivenByAll' = [GivenByAll EXCEPT ![e] = Append(@, m)]
  BY <1>5, <1>6 DEF GivenByAll
<1>8. PICK x \in AllMessages : x = m
  BY <1>4
<1>9. GivenByAll' = [GivenByAll EXCEPT ![e] = Append(@, x)] /\ taken' = taken
  BY <1>1, <1>7, <1>8
<1>10. Channel!Send(e, x)
  BY <1>9 DEF Channel!Send, GivenByAll, Given
<1> QED
  BY <1>10

(* GetData returns the first message its peer gave and it has not returned. *)
LEMMA GetIsTake ==
  ASSUME StreamInductive, NEW e \in Ends, GetData(e)
  PROVE  Channel!Take(e)
<1> DEFINE f == Peer(e)
           n == Len(taken[e])
           sizes == Messages[f]
           p == processed[e]
           c == created[f]
           u == EndAt(Origin, p, Len(p))
<1>1. f \in Ends
  BY EndsFacts
<1>2. /\ msgQueue[e] # <<>>
      /\ taken' = [taken EXCEPT ![e] = Append(@, Head(msgQueue[e]))]
      /\ numSent' = numSent
  BY DEF GetData
<1>3. Head(msgQueue[e]) = MessageUnits(n + 1, sizes[n + 1])
  BY GetDataStream
<1>4. /\ n \in Nat /\ Len(msgQueue[e]) \in Nat /\ Len(msgQueue[e]) >= 1
      /\ taken \in [Ends -> Seq(Seq(Units))] /\ numSent[f] \in Nat
  <2>1. taken[e] \in Seq(Seq(Units)) /\ msgQueue[e] \in Seq(Seq(Units))
    BY DEF StreamInductive, StreamTypes
  <2>2. n \in Nat /\ Len(msgQueue[e]) \in Nat
    BY <2>1, LenProperties
  <2>3. Len(msgQueue[e]) # 0
    BY <1>2, <2>1, EmptySeq
  <2>4. taken \in [Ends -> Seq(Seq(Units))] /\ numSent[f] \in Nat
    BY <1>1 DEF StreamInductive, StreamTypes, Inductive, ChunkTypes
  <2>5. Len(msgQueue[e]) >= 1
    BY <2>2, <2>3
  <2> QED
    BY <2>2, <2>4, <2>5
<1>5. u \in UnitsOf(sizes, numSent[f]) \cup {Origin}
  <2> DEFINE S == UnitsOf(sizes, numSent[f])
  <2>1. /\ p \in Seq(Seq(Units)) /\ c \in Seq(Seq(Units))
        /\ Len(p) \in Nat /\ Len(c) \in Nat /\ Len(p) =< Len(c)
        /\ \A i \in 1..Len(p) : p[i] = c[i]
    BY <1>1, LenProperties DEF StreamInductive, Inductive, ChunkTypes, ProcessedInOrder
  <2>2. AreJoined(Origin, c, S)
    BY <1>1 DEF StreamInductive, SentInOrder, IsStream
  <2> HIDE DEF S, p, c
  <2>3. AreJoined(Origin, p, S)
    BY <2>1, <2>2, JoinedPrefix
  <2>4. CASE Len(p) = 0
    BY <2>4 DEF EndAt
  <2>5. CASE Len(p) # 0
    <3>1. Len(p) \in 1..Len(p)
      BY <2>1, <2>5
    <3>2. EndAt(Origin, p, Len(p)) \in S
      BY <2>1, <2>3, <3>1, EndAtType
    <3> QED
      BY <3>2 DEF S
  <2> QED
    BY <2>4, <2>5
<1>6. IsFragment(fragmentBuffer[e], n + Len(msgQueue[e]), u)
  BY DEF StreamInductive, ReceivedInOrder, IsReceived
<1> HIDE DEF u
<1>7. u.msg \in Nat /\ u.msg =< numSent[f]
  <2>1. CASE u \in UnitsOf(sizes, numSent[f])
    BY <2>1, <1>4 DEF UnitsOf, Units
  <2>2. CASE u = Origin
    BY <2>2, <1>4 DEF Origin
  <2> QED
    BY <1>5, <2>1, <2>2
<1>8. u.msg >= n + 1
  <2>1. CASE u.last
    BY <1>4, <1>6, <2>1 DEF IsFragment
  <2>2. CASE ~u.last
    BY <1>4, <1>6, <2>2 DEF IsFragment
  <2> QED
    BY <2>1, <2>2
<1>9. n + 1 \in 1..numSent[f]
  BY <1>4, <1>7, <1>8
<1>10. /\ GivenByAll[f] = Given(f) /\ Len(Given(f)) = numSent[f]
       /\ Given(f)[n + 1] = MessageUnits(n + 1, sizes[n + 1])
  <2>1. GivenByAll[f] = Given(f)
    BY <1>1 DEF GivenByAll
  <2>2. Len(Given(f)) = numSent[f]
    BY <1>4 DEF Given
  <2>3. Given(f)[n + 1] = MessageUnits(n + 1, sizes[n + 1])
    BY <1>9 DEF Given
  <2> QED
    BY <2>1, <2>2, <2>3
<1>11. n < Len(GivenByAll[f])
  BY <1>4, <1>9, <1>10
<1>12. taken' = [taken EXCEPT ![e] = Append(@, GivenByAll[f][Len(@) + 1])]
  BY <1>2, <1>3, <1>4, <1>10
<1>13. GivenByAll' = GivenByAll
  BY <1>2 DEF GivenByAll, Given
<1> QED
  BY <1>11, <1>12, <1>13 DEF Channel!Take, GivenByAll, Given

(* Nothing is given to SendData and nothing taken. *)
LEMMA ChannelRests ==
  ASSUME UNCHANGED <<numSent, taken>>
  PROVE  UNCHANGED <<GivenByAll, taken>>
  BY DEF GivenByAll, Given

LEMMA ChannelNext ==
  ASSUME StreamInductive, [Next]_vars
  PROVE  [Channel!Next]_<<GivenByAll, taken>>
<1> DEFINE Maps == Channel!Next \/ UNCHANGED <<numSent, taken>>
<1>1. ASSUME NEW e \in Ends, SendData(e)
      PROVE  Maps
  BY <1>1, SendIsSend DEF Channel!Next
<1>2. ASSUME NEW e \in Ends, GetData(e)
      PROVE  Maps
  BY <1>2, GetIsTake DEF Channel!Next
<1>3. ASSUME NEW e \in Ends,
             \/ Unmute(e) \/ Update(e) \/ Flush(e, TRUE)
             \/ \E flush \in BOOLEAN : Close(e, flush)
             \/ \E pkt \in net[e] : Receive(e, pkt) \/ Lose(e, pkt)
      PROVE  UNCHANGED <<numSent, taken>>
  BY <1>3 DEF Unmute, Update, Flush, Close, Receive, Lose
<1>4. ASSUME AttemptReconnect
      PROVE  UNCHANGED <<numSent, taken>>
  BY <1>4 DEF AttemptReconnect
<1>5. ASSUME UNCHANGED vars
      PROVE  UNCHANGED <<numSent, taken>>
  BY <1>5 DEF vars
<1>6. Maps
  <2> HIDE DEF Maps
  <2>1. (UNCHANGED <<numSent, taken>>) => Maps
    BY DEF Maps
  <2> QED
    BY <1>1, <1>2, <1>3, <1>4, <1>5, <2>1 DEF Next
<1> QED
  BY <1>6, ChannelRests

THEOREM ChannelImplemented == Spec => IsReliable
<1>1. Channel!Spec <=> Channel!Init /\ [][Channel!Next]_<<GivenByAll, taken>>
  BY DEF Channel!Spec, GivenByAll, Given
<1> QED
  BY <1>1, StreamInductiveHolds, ChannelInit, ChannelNext, PTL DEF Spec, IsReliable
================================================================================
