-------------------------------- MODULE LosType --------------------------------
(***************************************************************************)
(* One kind of sight (ILosType): units that look from the same square with *)
(* the same radius and height share an SLosInstance, whose squares are     *)
(* cast once and added to the map of their ally team.  Instances nobody    *)
(* uses any more are kept in a cache, those of dead units in use for some  *)
(* time, and those whose ground has changed are cast anew after a delay.   *)
(*                                                                         *)
(* The order within a queue is left open: losUpdate is the set of the      *)
(* instances queued for update, the cache evicts any of its instances.     *)
(* What an instance adds to the map is its view: the key it was made for   *)
(* and how often the ground within its reach had changed when it was cast. *)
(***************************************************************************)
EXTENDS Integers, FiniteSets

CONSTANTS
  Units,
  Keys,        \* [x, z, radius] and what else CanRefInstance compares
  Instances,   \* the elements of instances
  NoKey, NoInstance,
  Raycast,     \* LOS_ALGO_RAYCAST (sight and radar), otherwise LOS_ALGO_CIRCLE
  SightOnly,   \* LOS_TYPE_LOS or LOS_TYPE_AIRLOS
  CacheSize,   \* CACHE_SIZE
  Linger,      \* GAME_SPEED * 3/2 frames
  RelosDelay,  \* 2 * GAME_SPEED frames
  Rects,       \* parts of the map whose ground may change
  MaxChanges   \* bound: how often the ground within the reach of a key changes

ASSUME LosAssumption ==
  /\ IsFiniteSet(Units) /\ IsFiniteSet(Instances)
  /\ NoKey \notin Keys /\ NoInstance \notin Instances
  /\ Raycast \in BOOLEAN /\ SightOnly \in BOOLEAN
  /\ CacheSize \in Nat /\ Linger \in Nat /\ RelosDelay \in Nat /\ MaxChanges \in Nat

VARIABLES
  unit,           \* unit[u]: "building", "alive" or "dead"
  los,            \* unit->los[type]
  delayedDelete,  \* delayedDeleteQue: the instance of a dead unit
  left,           \* its timeoutTime - gs->frameNum
  inst,           \* instances, instanceHashes, freeIDs, losCache and the queues
  losMap,         \* losMap[v]: how many instances have added view v
  ground,         \* ground[k]: changes of the ground within the reach of k
  phase,          \* "idle" between frames, "frame" in one, "update" in Update
  todo            \* the units UpdateUnit has still to be called for

vars == <<unit, los, delayedDelete, left, inst, losMap, ground, phase, todo>>

Bits == {"NEW", "REACTIVATE", "RECALC", "REMOVE"}
Instance ==
  [key : Keys \cup {NoKey}, refCount : Nat, status : SUBSET Bits, isCached : BOOLEAN,
   isQueuedForUpdate : BOOLEAN, isQueuedForTerraform : BOOLEAN,
   relosIn : -1..RelosDelay,  \* timeoutTime - gs->frameNum in delayedTerraQue
   squares : Nat]   \* ground[key] when the squares were cast

FreeSlot ==
  [key |-> NoKey, refCount |-> 0, status |-> {}, isCached |-> FALSE,
   isQueuedForUpdate |-> FALSE, isQueuedForTerraform |-> FALSE, relosIn |-> 0,
   squares |-> 0]

Views == Keys \X Nat
View(li) == <<li.key, li.squares>>

Init ==
  /\ unit = [u \in Units |-> "building"] /\ los = [u \in Units |-> NoInstance]
  /\ delayedDelete = [u \in Units |-> NoInstance] /\ left = [u \in Units |-> 0]
  /\ inst = [i \in Instances |-> FreeSlot]
  /\ losMap = [v \in Keys \X (0..MaxChanges) |-> 0] /\ ground = [k \in Keys |-> 0]
  /\ phase = "idle" /\ todo = {}

--------------------------------------------------------------------------------
(* Changes of one instance.                                                  *)

QueueFor(bit, li) == [li EXCEPT !.status = @ \cup {bit}, !.isQueuedForUpdate = TRUE]

(* UpdateInstanceStatus(RECALC): cast anew later, if no update comes first. *)
MarkRecalc(li) ==
  LET marked == [li EXCEPT !.status = @ \cup {"RECALC"}]
  IN  IF li.isQueuedForTerraform \/ li.isQueuedForUpdate
      THEN marked
      ELSE [marked EXCEPT !.isQueuedForTerraform = TRUE, !.relosIn = RelosDelay]

(* n of its users let go of it: UnrefInstance called n times *)
Unref(n, li) ==
  IF li.refCount > n
  THEN [li EXCEPT !.refCount = @ - n]
  ELSE QueueFor("REMOVE", [li EXCEPT !.refCount = 0])

RefStillCached(li) ==
  IF li.refCount > 0
  THEN [li EXCEPT !.refCount = @ + 1]
  ELSE QueueFor("REACTIVATE", [li EXCEPT !.refCount = 1])
Ref(li) ==
  IF li.refCount > 0
  THEN [li EXCEPT !.refCount = @ + 1]
  ELSE QueueFor("REACTIVATE", [li EXCEPT !.refCount = 1, !.isCached = FALSE])

NewInstance(k) == QueueFor("NEW", [FreeSlot EXCEPT !.key = k, !.refCount = 1])

TaskNotCancelled(li) ==
  CASE "NEW" \in li.status -> "NEW"
    [] "NEW" \notin li.status /\ "REMOVE" \in li.status -> "REMOVE"
    [] li.status \cap {"NEW", "REMOVE"} = {} /\ "REACTIVATE" \in li.status -> "REACTIVATE"
    [] li.status = {"RECALC"} -> "RECALC"
    [] li.status = {} -> "NONE"
(* What Update has to do for an instance: OptimizeInstanceUpdate. *)
Task(li) ==
  LET both == {"REACTIVATE", "REMOVE"}
      status == IF both \subseteq li.status THEN li.status \ both ELSE li.status
  IN  CASE "NEW" \in status -> "NEW"
        [] "NEW" \notin status /\ "REMOVE" \in status -> "REMOVE"
        [] status \cap {"NEW", "REMOVE"} = {} /\ "REACTIVATE" \in status -> "REACTIVATE"
        [] status = {"RECALC"} -> "RECALC"
        [] status = {} -> "NONE"

--------------------------------------------------------------------------------
(* Events, between two updates.                                              *)

RemoveUnit(u) ==
  /\ los' = [los EXCEPT ![u] = NoInstance]
  /\ inst' = IF los[u] = NoInstance THEN inst ELSE [inst EXCEPT ![los[u]] = Unref(1, @)]

UnitFinished(u) ==
  /\ phase # "update" /\ unit[u] = "building"
  /\ unit' = [unit EXCEPT ![u] = "alive"]
  /\ UNCHANGED <<los, delayedDelete, left, inst, losMap, ground, phase, todo>>

UnitReverseBuilt(u) ==
  /\ phase # "update" /\ unit[u] = "alive"
  /\ unit' = [unit EXCEPT ![u] = "building"] /\ RemoveUnit(u)
  /\ UNCHANGED <<delayedDelete, left, losMap, ground, phase, todo>>

(* UnitTaken, and UnitLoaded of a unit that is stunned by its transport. *)
UnitTaken(u) ==
  /\ phase # "update" /\ unit[u] = "alive"
  /\ RemoveUnit(u)
  /\ UNCHANGED <<unit, delayedDelete, left, losMap, ground, phase, todo>>

UnitDestroyed(u) ==
  /\ phase # "update" /\ unit[u] # "dead"
  /\ unit' = [unit EXCEPT ![u] = "dead"]
  /\ los' = [los EXCEPT ![u] = NoInstance]
  /\ IF los[u] = NoInstance
     THEN UNCHANGED <<delayedDelete, left>>
     ELSE /\ delayedDelete' = [delayedDelete EXCEPT ![u] = los[u]]
          /\ left' = [left EXCEPT ![u] = Linger]
  /\ UNCHANGED <<inst, losMap, ground, phase, todo>>

(* Twice the distance from (x1, z1) to the instance, less the size of the    *)
(* rectangle, in squares: pos is taken for the distance to its corner.       *)
Square(n) == n * n
Abs(n) == IF n < 0 THEN -n ELSE n
CheckOverlap(k, r) ==
  LET dx == 2 * Abs(k.x - r.x1) - (r.x2 - r.x1)
      dz == 2 * Abs(k.z - r.z1) - (r.z2 - r.z1)
  IN  /\ dx <= 2 * k.radius /\ dz <= 2 * k.radius
      /\ \/ dx <= 0 \/ dz <= 0
         \/ Square(dx) + Square(dz) <= Square(2 * k.radius)

(* a square of the rectangle is within the radius *)
Reaches(k, r) ==
  \E x \in r.x1..(r.x2 - 1), z \in r.z1..(r.z2 - 1) :
    Square(x - k.x) + Square(z - k.z) <= Square(k.radius)

UpdateHeightMapSynced(r) ==
  /\ phase # "update" /\ Raycast
  /\ \A k \in Keys : Reaches(k, r) => ground[k] < MaxChanges
  /\ ground' = [k \in Keys |-> IF Reaches(k, r) THEN ground[k] + 1 ELSE ground[k]]
  /\ inst' = [i \in Instances |->
       IF inst[i].key = NoKey \/ ~CheckOverlap(inst[i].key, r) THEN inst[i]
       ELSE IF inst[i].isCached /\ inst[i].refCount = 0 THEN FreeSlot
       ELSE IF "RECALC" \in inst[i].status THEN inst[i]
       ELSE MarkRecalc(inst[i])]
  /\ UNCHANGED <<unit, los, delayedDelete, left, losMap, phase, todo>>

--------------------------------------------------------------------------------
(* A frame, and the update at its end.                                       *)

NewFrame ==
  /\ phase = "idle" /\ phase' = "frame"
  /\ left' = [u \in Units |-> IF delayedDelete[u] = NoInstance THEN left[u] ELSE left[u] - 1]
  /\ inst' = [i \in Instances |->
       IF inst[i].isQueuedForTerraform THEN [inst[i] EXCEPT !.relosIn = @ - 1] ELSE inst[i]]
  /\ UNCHANGED <<unit, los, delayedDelete, losMap, ground, todo>>

BeginUpdate ==
  /\ phase = "frame" /\ phase' = "update" /\ todo' = Units
  /\ UNCHANGED <<unit, los, delayedDelete, left, inst, losMap, ground>>

(* The unit looks from k: keep, share or make an instance. *)
LookFrom(u, k) ==
  LET old == los[u]
      freed == IF old = NoInstance THEN inst ELSE [inst EXCEPT ![old] = Unref(1, @)]
  IN  IF old # NoInstance /\ inst[old].key = k
      THEN UNCHANGED <<los, inst>>
      ELSE \E i \in Instances :
             /\ los' = [los EXCEPT ![u] = i]
             /\ \/ /\ freed[i].key = k
                   /\ inst' = [freed EXCEPT ![i] = Ref(@)]
                \/ /\ \A j \in Instances : freed[j].key # k
                   /\ freed[i].key = NoKey
                   /\ inst' = [freed EXCEPT ![i] = NewInstance(k)]

UpdateUnit(u) ==
  /\ phase = "update" /\ u \in todo /\ todo' = todo \ {u}
  /\ \/ unit[u] # "alive" /\ UNCHANGED <<los, inst>>
     \/ unit[u] = "alive" /\ SightOnly /\ UNCHANGED <<los, inst>>  \* global LOS
     \/ unit[u] = "alive" /\ RemoveUnit(u)                  \* switched off, no radius
     \/ unit[u] = "alive" /\ \E k \in Keys : LookFrom(u, k)
  /\ UNCHANGED <<unit, delayedDelete, left, losMap, ground, phase>>

(* Units whose instance has been kept for long enough. *)
ExpiredLate == {u \in Units : delayedDelete[u] # NoInstance /\ left[u] < -1}
Expired == {u \in Units : delayedDelete[u] # NoInstance /\ left[u] < 0}
Dropped(i) == {u \in Expired : delayedDelete[u] = i}
ReleasedOnce(i) == IF Dropped(i) = {} THEN inst[i] ELSE Unref(1, inst[i])
Released(i) == IF Dropped(i) = {} THEN inst[i] ELSE Unref(Cardinality(Dropped(i)), inst[i])

Relos == {i \in Instances : inst[i].isQueuedForTerraform /\ inst[i].relosIn < 0}
LosUpdate == Relos \cup {i \in Instances : Released(i).isQueuedForUpdate}
Tasked(tasks) == {i \in LosUpdate : Task(Released(i)) \in tasks}

LosRemoveGone == Tasked({"REMOVE"})
LosRemove == Tasked({"RECALC", "REMOVE"})
LosAdd == Tasked({"NEW", "REACTIVATE", "RECALC"})
LosRecalc == IF Raycast THEN Tasked({"NEW", "RECALC"}) ELSE {}
LosDeleted == Tasked({"REMOVE"})

(* PrepareRaycast *)
Recast(i) ==
  IF i \in LosRecalc THEN [Released(i) EXCEPT !.squares = ground[Released(i).key]]
  ELSE Released(i)

LosCache == {i \in Instances : Released(i).isCached}
KeptAll == {i \in LosDeleted : Raycast}
(* AddInstanceToCache: an instance whose ground has changed is not kept *)
Kept == {i \in LosDeleted : Raycast /\ "RECALC" \notin Released(i).status}

(* the cache makes room for what is deleted now, as far as it can *)
Evictions ==
  LET over == Cardinality(LosCache) + Cardinality(LosDeleted) - CacheSize
  IN  IF ~Raycast \/ LosUpdate = {} \/ over <= 0 THEN {{}}
      ELSE {E \in SUBSET LosCache :
              Cardinality(E) = IF over < Cardinality(LosCache) THEN over
                               ELSE Cardinality(LosCache)}

(* How an instance leaves Update. *)
Settled(i) ==
  [Recast(i) EXCEPT
     !.status = IF i \in LosUpdate THEN {} ELSE @,
     !.isQueuedForUpdate = FALSE,
     !.isQueuedForTerraform = @ /\ i \notin Relos,
     !.relosIn = IF i \in Relos THEN 0 ELSE @,
     !.isCached = @ \/ i \in Kept]

Update ==
  /\ phase = "update" /\ todo = {} /\ phase' = "idle"
  /\ \E evicted \in Evictions :
       inst' = [i \in Instances |->
                  IF i \in evicted \cup (LosDeleted \ Kept) THEN FreeSlot ELSE Settled(i)]
  /\ losMap' = [v \in DOMAIN losMap |->
                  losMap[v] - Cardinality({i \in LosRemove : View(Released(i)) = v})
                            + Cardinality({i \in LosAdd : View(Recast(i)) = v})]
  /\ delayedDelete' = [u \in Units |-> IF u \in Expired THEN NoInstance ELSE delayedDelete[u]]
  /\ left' = [u \in Units |-> IF u \in Expired THEN 0 ELSE left[u]]
  /\ UNCHANGED <<unit, los, ground, todo>>

Next ==
  \/ \E u \in Units :
       \/ UnitFinished(u) \/ UnitReverseBuilt(u) \/ UnitTaken(u) \/ UnitDestroyed(u)
       \/ UpdateUnit(u)
  \/ \E r \in Rects : UpdateHeightMapSynced(r)
  \/ NewFrame \/ BeginUpdate \/ Update

Spec == Init /\ [][Next]_vars

--------------------------------------------------------------------------------
(* Properties.                                                               *)

TypeOK ==
  /\ unit \in [Units -> {"building", "alive", "dead"}]
  /\ los \in [Units -> Instances \cup {NoInstance}]
  /\ delayedDelete \in [Units -> Instances \cup {NoInstance}]
  /\ left \in [Units -> -1..Linger]
  /\ inst \in [Instances -> Instance]
  /\ losMap \in [Keys \X (0..MaxChanges) -> Nat]
  /\ ground \in [Keys -> 0..MaxChanges]
  /\ phase \in {"idle", "frame", "update"} /\ todo \in SUBSET Units

(* An instance is used by the units that look through it and by those that   *)
(* died looking through it not long ago; refCount is their number, so none   *)
(* is deleted or reused while one of them still holds it.                    *)
Users(i) == {u \in Units : los[u] = i \/ delayedDelete[u] = i}
RefsAreHeld ==
  \A i \in Instances :
    /\ inst[i].refCount = Cardinality(Users(i))
    /\ Users(i) # {} => inst[i].key # NoKey

(* The map counts an instance unless it lies in the cache or is still to be  *)
(* added: every square it has added is taken back exactly once, with the     *)
(* squares that were added and not with those the ground would give today.   *)
Added(li) ==
  /\ li.key # NoKey /\ ~li.isCached /\ "NEW" \notin li.status
  /\ "REACTIVATE" \in li.status => "REMOVE" \in li.status
MapIsSum ==
  \A v \in DOMAIN losMap :
    losMap[v] = Cardinality({i \in Instances : Added(inst[i]) /\ View(inst[i]) = v})

(* An instance whose ground has changed since its squares were cast is       *)
(* marked, and a mark is never forgotten: it is queued to be cast anew, or   *)
(* will be deleted.  In particular none waits in the cache to be reused.     *)
RaysAreRenewed ==
  Raycast => \A i \in Instances : LET li == inst[i] IN
    /\ li.key # NoKey /\ "NEW" \notin li.status /\ li.squares # ground[li.key]
         => "RECALC" \in li.status
    /\ "RECALC" \in li.status => li.isQueuedForUpdate \/ li.isQueuedForTerraform

(* The assertions of UpdateInstanceStatus, OptimizeInstanceUpdate and Update *)
(* on what an instance has to be updated for, in release builds unchecked.   *)
StatusAsserts ==
  \A i \in Instances : LET li == inst[i] IN
    /\ {"REACTIVATE", "RECALC"} \subseteq li.status => "REMOVE" \in li.status
    /\ "NEW" \in li.status => li.status = {"NEW"} /\ li.refCount > 0
    /\ {"REACTIVATE", "REMOVE"} \subseteq li.status => li.refCount > 0
    /\ li.refCount = 0 /\ li.key # NoKey => li.isCached # ("REMOVE" \in li.status)
    /\ li.refCount > 0 => ~li.isCached /\ ("REMOVE" \in li.status => "REACTIVATE" \in li.status)

(* LosType implements Sight: what the map shows after an update is what the  *)
(* units see from where they stand, and dead ones see for Linger frames.     *)
KeyOf(i) == IF i = NoInstance THEN NoKey ELSE inst[i].key
Promise ==
  INSTANCE Sight WITH
    stands <- [u \in Units |-> KeyOf(los[u])],
    afterglow <- [u \in Units |-> KeyOf(delayedDelete[u])],
    left <- left,
    seen <- {k \in Keys : \E n \in 0..MaxChanges : losMap[<<k, n>>] > 0}
IsSight == Promise!Spec
================================================================================
