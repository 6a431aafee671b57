------------------------------ MODULE ChunkStream ------------------------------
(***************************************************************************)
(* How a UDPConnection turns messages into chunks and chunks back into     *)
(* messages.  A message is the sequence of its units (the bytes of the     *)
(* code, several of them to a unit); the code learns where a message ends  *)
(* from the length its header announces, which is abstracted to a mark on  *)
(* its last unit.                                                          *)
(***************************************************************************)
EXTENDS Integers, Sequences, SequencesExt

LesserOf(a, b) == IF a =< b THEN a ELSE b

SumSeq(s) == FoldLeft(+, 0, s)

(* The i-th message of an application, size units long. *)
MessageUnits(i, size) ==
  [k \in 1..size |-> [msg |-> i, pos |-> k, last |-> k = size]]

(* A sequence cut into pieces of n elements, the last one of what is left. *)
Cut(units, n) ==
  [i \in 1..((Len(units) + n - 1) \div n) |->
     SubSeq(units, (i - 1) * n + 1, LesserOf(i * n, Len(units)))]

(* The positions of units at which a message is complete. *)
MessageEnds(units) == {k \in 1..Len(units) : units[k].last}

(* ... the i-th of them, and the beginning for the zeroth. *)
MessageEnd(units, i) ==
  IF i = 0 THEN 0
  ELSE CHOOSE k \in MessageEnds(units) :
         Cardinality({j \in MessageEnds(units) : j =< k}) = i

(* The complete messages of units, in order. *)
Complete(units) ==
  [i \in 1..Cardinality(MessageEnds(units)) |->
     SubSeq(units, MessageEnd(units, i - 1) + 1, MessageEnd(units, i))]

(* What is left of units after the last complete message. *)
PartialForgotten(units) == <<>>

Partial(units) == SubSeq(units, Max({0} \cup MessageEnds(units)) + 1, Len(units))
================================================================================
