--------------------------------- MODULE Sight ---------------------------------
(***************************************************************************)
(* What the line-of-sight handler promises, for one kind of sight: the map *)
(* shows what can be seen from where the units stood when they were last   *)
(* looked at, and from where a unit died until Linger frames have gone by. *)
(* Nothing is said of instances, reference counts, caches or queues.       *)
(***************************************************************************)
EXTENDS Integers

CONSTANTS
  Units,
  Keys,      \* what sight is computed from: square, height, radius, ally team
  NoKey,
  Linger     \* frames for which the sight of a dead unit is kept

VARIABLES
  stands,    \* stands[u]: the key from which u looks, NoKey if it does not
  afterglow, \* afterglow[u]: the key from which u looked when it died
  left,      \* left[u]: frames for which that is still shown
  seen       \* the keys whose sight the map shows

Init ==
  /\ stands = [u \in Units |-> NoKey] /\ afterglow = [u \in Units |-> NoKey]
  /\ left = [u \in Units |-> 0] /\ seen = {}

(* A unit is looked at: it has moved, been switched off, captured or none. *)
Look(u) ==
  /\ \E k \in Keys \cup {NoKey} : stands' = [stands EXCEPT ![u] = k]
  /\ UNCHANGED <<afterglow, left, seen>>

Die(u) ==
  /\ stands[u] # NoKey
  /\ stands' = [stands EXCEPT ![u] = NoKey]
  /\ afterglow' = [afterglow EXCEPT ![u] = stands[u]]
  /\ left' = [left EXCEPT ![u] = Linger]
  /\ UNCHANGED seen

NewFrame ==
  /\ left' = [u \in Units |-> IF afterglow[u] = NoKey THEN left[u] ELSE left[u] - 1]
  /\ UNCHANGED <<stands, afterglow, seen>>

Faded == {u \in Units : afterglow[u] # NoKey /\ left[u] < 0}

Refresh ==
  /\ afterglow' = [u \in Units |-> IF u \in Faded THEN NoKey ELSE afterglow[u]]
  /\ left' = [u \in Units |-> IF u \in Faded THEN 0 ELSE left[u]]
  /\ seen' = {k \in Keys : \E u \in Units : k \in {stands[u], afterglow'[u]}}
  /\ UNCHANGED stands

Next == (\E u \in Units : Look(u) \/ Die(u)) \/ NewFrame \/ Refresh

vars == <<stands, afterglow, left, seen>>
Spec == Init /\ [][Next]_vars
================================================================================
