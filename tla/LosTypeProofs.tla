----------------------------- MODULE LosTypeProofs -----------------------------
(***************************************************************************)
(* Theorems about LosType, for any number of units, keys and instances:    *)
(* its type, the reference counts, the assertions on what an instance has  *)
(* to be updated for, the sum that is the map, the renewal of squares cast *)
(* over ground that has changed, and that it implements Sight.             *)
(***************************************************************************)
EXTENDS LosType, FiniteSetTheorems, TLAPS

--------------------------------------------------------------------------------
(* One instance.                                                             *)

(* StatusAsserts of one instance, and what they rest on: a free slot holds   *)
(* nothing, a cached instance has nothing left to be done, and what has to   *)
(* be done is queued.                                                        *)
Asserted(li) ==
  /\ {"REACTIVATE", "RECALC"} \subseteq li.status => "REMOVE" \in li.status
  /\ "NEW" \in li.status => li.status = {"NEW"} /\ li.refCount > 0
  /\ {"REACTIVATE", "REMOVE"} \subseteq li.status => li.refCount > 0
  /\ li.refCount = 0 /\ li.key # NoKey => li.isCached # ("REMOVE" \in li.status)
  /\ li.refCount > 0 => ~li.isCached /\ ("REMOVE" \in li.status => "REACTIVATE" \in li.status)

Shape(li) ==
  /\ Asserted(li)
  /\ li.key = NoKey => /\ li.refCount = 0 /\ li.status = {} /\ ~li.isCached
                       /\ ~li.isQueuedForUpdate /\ ~li.isQueuedForTerraform
  /\ li.isCached => li.status = {} /\ ~li.isQueuedForUpdate
  /\ li.status \cap {"NEW", "REACTIVATE", "REMOVE"} # {} => li.isQueuedForUpdate
  /\ "RECALC" \in li.status => li.isQueuedForUpdate \/ li.isQueuedForTerraform
  /\ ~li.isQueuedForTerraform => li.relosIn >= 0
  /\ li.squares <= MaxChanges

(* looked at in the update that is going on *)
Fresh(li) == "NEW" \in li.status \/ "REACTIVATE" \in li.status

(* What an instance adds to the map, and whether it is marked, are the same. *)
SameSight(li, mi) ==
  /\ mi.key = li.key /\ mi.squares = li.squares /\ (Added(mi) <=> Added(li))
  /\ "NEW" \in mi.status <=> "NEW" \in li.status
  /\ "RECALC" \in mi.status <=> "RECALC" \in li.status

LEMMA FreeShape == FreeSlot \in Instance /\ Shape(FreeSlot) /\ ~Added(FreeSlot) /\ ~Fresh(FreeSlot)
  BY LosAssumption DEF FreeSlot, Instance, Shape, Asserted, Added, Fresh, Bits

LEMMA UnrefKeeps ==
  ASSUME NEW li \in Instance, Shape(li), li.key # NoKey, NEW n \in Nat, n > 0, n <= li.refCount,
         Fresh(li) => n < li.refCount
  PROVE  LET mi == Unref(n, li) IN
         /\ mi \in Instance /\ Shape(mi) /\ mi.refCount = li.refCount - n
         /\ SameSight(li, mi) /\ (Fresh(mi) <=> Fresh(li))
         /\ mi.isCached = li.isCached /\ mi.relosIn = li.relosIn
         /\ mi.isQueuedForTerraform = li.isQueuedForTerraform
<1>1. CASE li.refCount > n
  BY <1>1 DEF Unref, Instance, Shape, Asserted, Fresh, SameSight, Added
<1>2. CASE ~(li.refCount > n)
  <2> DEFINE mi == [li EXCEPT !.refCount = 0, !.status = @ \cup {"REMOVE"},
                              !.isQueuedForUpdate = TRUE]
  <2>1. Unref(n, li) = mi
    BY <1>2 DEF Unref, QueueFor, Instance
  <2>2. mi \in Instance
    BY DEF Instance, Bits
  <2>3. /\ mi.key = li.key /\ mi.refCount = 0 /\ mi.status = li.status \cup {"REMOVE"}
        /\ mi.isCached = li.isCached /\ mi.isQueuedForUpdate = TRUE /\ mi.relosIn = li.relosIn
        /\ mi.isQueuedForTerraform = li.isQueuedForTerraform /\ mi.squares = li.squares
    BY DEF Instance
  <2>4. li.refCount = n /\ ~Fresh(li) /\ ~li.isCached
    BY <1>2 DEF Instance, Shape, Asserted
  <2> HIDE DEF mi
  <2>5. (Fresh(mi) <=> Fresh(li)) /\ SameSight(li, mi)
    BY <2>3, <2>4 DEF Fresh, SameSight, Added, Shape
  <2>6. Shape(mi)
    BY <2>2, <2>3, <2>4 DEF Shape, Asserted, Fresh, Instance
  <2> QED BY <2>1, <2>2, <2>3, <2>4, <2>5, <2>6
<1> QED BY <1>1, <1>2

LEMMA RefKeeps ==
  ASSUME NEW li \in Instance, Shape(li), li.key # NoKey
  PROVE  LET mi == Ref(li) IN
         /\ mi \in Instance /\ Shape(mi) /\ mi.refCount = li.refCount + 1
         /\ SameSight(li, mi) /\ mi.relosIn = li.relosIn
<1>1. CASE li.refCount > 0
  BY <1>1 DEF Ref, Instance, Shape, Asserted, SameSight, Added
<1>2. CASE ~(li.refCount > 0)
  <2> DEFINE mi == [li EXCEPT !.refCount = 1, !.isCached = FALSE,
                              !.status = @ \cup {"REACTIVATE"}, !.isQueuedForUpdate = TRUE]
  <2>1. Ref(li) = mi
    BY <1>2 DEF Ref, QueueFor, Instance
  <2>2. mi \in Instance
    BY DEF Instance, Bits
  <2>3. /\ mi.key = li.key /\ mi.refCount = 1 /\ mi.status = li.status \cup {"REACTIVATE"}
        /\ mi.isCached = FALSE /\ mi.isQueuedForUpdate = TRUE /\ mi.relosIn = li.relosIn
        /\ mi.isQueuedForTerraform = li.isQueuedForTerraform /\ mi.squares = li.squares
    BY DEF Instance
  <2>4. li.refCount = 0
    BY <1>2 DEF Instance
  <2> HIDE DEF mi
  <2>5. SameSight(li, mi)
    BY <2>3, <2>4 DEF SameSight, Added, Shape, Asserted, Instance
  <2>6. Shape(mi)
    BY <2>2, <2>3, <2>4 DEF Shape, Asserted, Instance
  <2> QED BY <2>1, <2>2, <2>3, <2>4, <2>5, <2>6
<1> QED BY <1>1, <1>2

LEMMA NewKeeps ==
  ASSUME NEW k \in Keys
  PROVE  LET mi == NewInstance(k) IN
         /\ mi \in Instance /\ Shape(mi) /\ mi.key = k /\ mi.refCount = 1
         /\ ~Added(mi) /\ mi.status = {"NEW"} /\ mi.relosIn = 0 /\ mi.squares = 0
<1> DEFINE mi == NewInstance(k)
<1>1. /\ mi.key = k /\ mi.refCount = 1 /\ mi.status = {"NEW"} /\ mi.isCached = FALSE
      /\ mi.isQueuedForUpdate = TRUE /\ mi.isQueuedForTerraform = FALSE
      /\ mi.relosIn = 0 /\ mi.squares = 0
  BY DEF NewInstance, QueueFor, FreeSlot
<1>2. mi \in Instance
  <2>1. FreeSlot \in Instance
    BY FreeShape
  <2> DEFINE one == [FreeSlot EXCEPT !.key = k, !.refCount = 1]
  <2>2. one \in Instance
    BY <2>1 DEF Instance
  <2>3. mi = [one EXCEPT !.status = @ \cup {"NEW"}, !.isQueuedForUpdate = TRUE]
    BY DEF NewInstance, QueueFor
  <2> HIDE DEF one, mi
  <2> QED BY <2>2, <2>3 DEF Instance, Bits
<1> HIDE DEF mi
<1>3. Shape(mi) /\ ~Added(mi)
  BY <1>1, <1>2, LosAssumption DEF Shape, Asserted, Added
<1> QED BY <1>1, <1>2, <1>3 DEF mi

LEMMA MarkKeeps ==
  ASSUME NEW li \in Instance, Shape(li), li.key # NoKey, ~li.isCached, ~Fresh(li)
  PROVE  LET mi == MarkRecalc(li) IN
         /\ mi \in Instance /\ Shape(mi) /\ mi.refCount = li.refCount /\ ~Fresh(mi)
         /\ mi.key = li.key /\ mi.squares = li.squares /\ (Added(mi) <=> Added(li))
         /\ "RECALC" \in mi.status /\ (li.relosIn >= 0 => mi.relosIn >= 0)
<1> DEFINE waits == li.isQueuedForTerraform \/ li.isQueuedForUpdate
           q == IF waits THEN li.isQueuedForTerraform ELSE TRUE
           n == IF waits THEN li.relosIn ELSE RelosDelay
           mi == [li EXCEPT !.status = @ \cup {"RECALC"}, !.isQueuedForTerraform = q, !.relosIn = n]
<1>1. MarkRecalc(li) = mi
  <2>1. CASE waits
    <3>1. mi = [li EXCEPT !.status = @ \cup {"RECALC"}]
      BY <2>1 DEF Instance
    <3> QED BY <2>1, <3>1 DEF MarkRecalc
  <2>2. CASE ~waits
    BY <2>2 DEF MarkRecalc, Instance
  <2> QED BY <2>1, <2>2
<1>2. n \in -1..RelosDelay /\ q \in BOOLEAN /\ (li.relosIn >= 0 => n >= 0)
      /\ (~q => n >= 0) /\ (q \/ li.isQueuedForUpdate)
  <2>1. li.relosIn \in -1..RelosDelay /\ RelosDelay \in -1..RelosDelay /\ RelosDelay >= 0
        /\ li.isQueuedForTerraform \in BOOLEAN /\ (~li.isQueuedForTerraform => li.relosIn >= 0)
    BY LosAssumption DEF Instance, Shape
  <2>2. CASE waits
    <3>1. n = li.relosIn /\ q = li.isQueuedForTerraform
      BY <2>2
    <3> HIDE DEF q, n
    <3> QED BY <2>1, <2>2, <3>1
  <2>3. CASE ~waits
    <3>1. n = RelosDelay /\ q = TRUE
      BY <2>3
    <3> HIDE DEF q, n
    <3> QED BY <2>1, <3>1
  <2> QED BY <2>2, <2>3
<1> HIDE DEF q, n
<1>3. mi \in Instance
  BY <1>2 DEF Instance, Bits
<1>4. /\ mi.key = li.key /\ mi.refCount = li.refCount /\ mi.status = li.status \cup {"RECALC"}
      /\ mi.isCached = li.isCached /\ mi.isQueuedForUpdate = li.isQueuedForUpdate
      /\ mi.relosIn = n /\ mi.isQueuedForTerraform = q /\ mi.squares = li.squares
  BY DEF Instance
<1> HIDE DEF mi
<1>5. (Added(mi) <=> Added(li)) /\ ~Fresh(mi)
  BY <1>4 DEF Added, Fresh
<1>6. Shape(mi)
  BY <1>2, <1>3, <1>4 DEF Shape, Asserted, Fresh, Instance
<1> QED BY <1>1, <1>2, <1>3, <1>4, <1>5, <1>6

(* What Task returns for an instance that satisfies the assertions. *)
LEMMA TaskMeans ==
  ASSUME NEW li \in Instance, Shape(li)
  PROVE  /\ Task(li) \in {"NEW", "REMOVE", "REACTIVATE", "RECALC", "NONE"}
         /\ Task(li) = "NEW" <=> "NEW" \in li.status
         /\ Task(li) = "REMOVE" <=> "REMOVE" \in li.status /\ "REACTIVATE" \notin li.status
         /\ Task(li) = "REACTIVATE" <=> "REACTIVATE" \in li.status /\ "REMOVE" \notin li.status
         /\ Task(li) = "RECALC" => "RECALC" \in li.status
         /\ Task(li) = "NONE" => "RECALC" \notin li.status
<1> DEFINE both == {"REACTIVATE", "REMOVE"}
           st == IF both \subseteq li.status THEN li.status \ both ELSE li.status
<1>1. li.status \in SUBSET Bits /\ st \in SUBSET Bits
  BY DEF Instance
<1>2. Task(li) = CASE "NEW" \in st -> "NEW"
                   [] "NEW" \notin st /\ "REMOVE" \in st -> "REMOVE"
                   [] st \cap {"NEW", "REMOVE"} = {} /\ "REACTIVATE" \in st -> "REACTIVATE"
                   [] st = {"RECALC"} -> "RECALC"
                   [] st = {} -> "NONE"
  BY DEF Task
<1>3. /\ "NEW" \in st <=> "NEW" \in li.status
      /\ "RECALC" \in st <=> "RECALC" \in li.status
      /\ "REMOVE" \in st <=> "REMOVE" \in li.status /\ "REACTIVATE" \notin li.status
      /\ "REACTIVATE" \in st <=> "REACTIVATE" \in li.status /\ "REMOVE" \notin li.status
  OBVIOUS
<1>4. /\ "NEW" \in li.status => "REMOVE" \notin li.status /\ "REACTIVATE" \notin li.status
  BY DEF Shape, Asserted
<1> HIDE DEF st
<1>5. CASE "NEW" \in st
  BY <1>1, <1>2, <1>3, <1>4, <1>5
<1>6. CASE "NEW" \notin st /\ "REMOVE" \in st
  BY <1>1, <1>2, <1>3, <1>4, <1>6
<1>7. CASE "NEW" \notin st /\ "REMOVE" \notin st /\ "REACTIVATE" \in st
  BY <1>1, <1>2, <1>3, <1>4, <1>7
<1>8. CASE "NEW" \notin st /\ "REMOVE" \notin st /\ "REACTIVATE" \notin st
  <2>1. st = {} \/ st = {"RECALC"}
    BY <1>1, <1>8 DEF Bits
  <2> QED BY <1>1, <1>2, <1>3, <1>4, <1>8, <2>1
<1> QED BY <1>5, <1>6, <1>7, <1>8

--------------------------------------------------------------------------------
(* Who looks through which instance.  The state is given as arguments, since *)
(* a unit that moves lets one instance go and takes up another in one step.  *)

Places == [Units -> Instances \cup {NoInstance}]
Holders(l, d, i) == {u \in Units : l[u] = i \/ d[u] = i}

Counted(l, d, f) ==
  \A i \in Instances : /\ f[i].refCount = Cardinality(Holders(l, d, i))
                       /\ Holders(l, d, i) # {} => f[i].key # NoKey

(* What has been looked at in this update is held by who was looking: none   *)
(* of the units t that have still to be asked.                               *)
Looked(l, f, t) == \A i \in Instances : Fresh(f[i]) => \E u \in Units \ t : l[u] = i

Core(l, d, f, t) ==
  /\ l \in Places /\ d \in Places /\ f \in [Instances -> Instance]
  /\ \A u \in Units : l[u] = NoInstance \/ d[u] = NoInstance
  /\ Counted(l, d, f) /\ Looked(l, f, t)
  /\ \A i \in Instances : Shape(f[i])

LEMMA HoldersCount ==
  ASSUME NEW l, NEW d, NEW i
  PROVE  /\ IsFiniteSet(Holders(l, d, i)) /\ Cardinality(Holders(l, d, i)) \in Nat
         /\ Cardinality(Holders(l, d, i)) = 0 <=> Holders(l, d, i) = {}
<1>1. Holders(l, d, i) \subseteq Units
  BY DEF Holders
<1>2. IsFiniteSet(Holders(l, d, i))
  BY <1>1, LosAssumption, FS_Subset
<1> QED BY <1>2, FS_CardinalityType, FS_EmptySet

LEMMA LetGo ==
  ASSUME NEW l, NEW d, NEW f, NEW t, Core(l, d, f, t),
         NEW u \in Units, u \in t, l[u] \in Instances
  PROVE  LET m == [l EXCEPT ![u] = NoInstance]
             g == [f EXCEPT ![l[u]] = Unref(1, @)]
         IN  /\ Core(m, d, g, t)
             /\ \A i \in Instances : SameSight(f[i], g[i]) /\ g[i].relosIn = f[i].relosIn
<1> DEFINE old == l[u]
           m == [l EXCEPT ![u] = NoInstance]
           g == [f EXCEPT ![old] = Unref(1, @)]
<1>1. /\ l \in Places /\ d \in Places /\ f \in [Instances -> Instance] /\ old \in Instances
      /\ \A v \in Units : l[v] = NoInstance \/ d[v] = NoInstance
      /\ Counted(l, d, f) /\ Looked(l, f, t) /\ \A i \in Instances : Shape(f[i])
  BY DEF Core
<1>2. old # NoInstance /\ d[u] = NoInstance
  BY <1>1, LosAssumption
<1>3. /\ m \in Places /\ m[u] = NoInstance /\ \A v \in Units : v # u => m[v] = l[v]
  BY <1>1 DEF Places
<1>4. Holders(m, d, old) = Holders(l, d, old) \ {u} /\ u \in Holders(l, d, old)
  BY <1>2, <1>3 DEF Holders
<1>5. \A i \in Instances \ {old} : Holders(m, d, i) = Holders(l, d, i)
  BY <1>2, <1>3, LosAssumption DEF Holders
<1>6. /\ f[old].refCount = Cardinality(Holders(l, d, old)) /\ f[old].refCount \in Nat
      /\ f[old].refCount > 0 /\ f[old].key # NoKey
      /\ Cardinality(Holders(m, d, old)) = f[old].refCount - 1
  <2>1. f[old].refCount = Cardinality(Holders(l, d, old)) /\ f[old].key # NoKey
    BY <1>1, <1>4 DEF Counted
  <2>2. Cardinality(Holders(l, d, old) \ {u}) = Cardinality(Holders(l, d, old)) - 1
    BY <1>4, HoldersCount, FS_RemoveElement
  <2>3. Cardinality(Holders(l, d, old)) \in Nat /\ Cardinality(Holders(l, d, old)) # 0
    BY <1>4, HoldersCount
  <2> HIDE DEF old, m
  <2> QED BY <2>1, <2>2, <2>3, <1>4
<1>7. Fresh(f[old]) => 1 < f[old].refCount
  <2> SUFFICES ASSUME Fresh(f[old]) PROVE 1 < f[old].refCount
    OBVIOUS
  <2>1. PICK w \in Units \ t : l[w] = old
    BY <1>1 DEF Looked
  <2>2. w \in Holders(m, d, old)
    BY <2>1, <1>3 DEF Holders
  <2> QED BY <2>2, <1>6, HoldersCount
<1> DEFINE mi == Unref(1, f[old])
<1>8. /\ mi \in Instance /\ Shape(mi) /\ mi.refCount = f[old].refCount - 1
      /\ SameSight(f[old], mi) /\ (Fresh(mi) <=> Fresh(f[old])) /\ mi.relosIn = f[old].relosIn
  BY <1>1, <1>6, <1>7, UnrefKeeps
<1>9. g \in [Instances -> Instance] /\ g[old] = mi /\ \A i \in Instances \ {old} : g[i] = f[i]
  BY <1>1, <1>8
<1>10. \A i \in Instances : SameSight(f[i], g[i]) /\ g[i].relosIn = f[i].relosIn /\ Shape(g[i])
                            /\ (Fresh(g[i]) <=> Fresh(f[i])) /\ g[i].key = f[i].key
  BY <1>1, <1>8, <1>9 DEF SameSight
<1> HIDE DEF old, m, g, mi
<1>11. Counted(m, d, g)
  <2> SUFFICES ASSUME NEW i \in Instances
               PROVE  /\ g[i].refCount = Cardinality(Holders(m, d, i))
                      /\ Holders(m, d, i) # {} => g[i].key # NoKey
    BY DEF Counted
  <2>1. CASE i = old
    BY <2>1, <1>6, <1>8, <1>9, <1>10
  <2>2. CASE i # old
    BY <2>2, <1>1, <1>5, <1>9 DEF Counted
  <2> QED BY <2>1, <2>2
<1>12. Looked(m, g, t)
  BY <1>1, <1>3, <1>10 DEF Looked
<1>13. Core(m, d, g, t)
  BY <1>1, <1>3, <1>9, <1>10, <1>11, <1>12 DEF Core
<1> QED BY <1>10, <1>13 DEF m, g, old

LEMMA TakeUp ==
  ASSUME NEW l, NEW d, NEW f, NEW t, Core(l, d, f, t), NEW u \in Units,
         l[u] = NoInstance, d[u] = NoInstance, NEW i \in Instances, NEW li \in Instance,
         Shape(li), li.key # NoKey, li.refCount = f[i].refCount + 1
  PROVE  LET m == [l EXCEPT ![u] = i] IN Core(m, d, [f EXCEPT ![i] = li], t \ {u})
<1> DEFINE m == [l EXCEPT ![u] = i]
           g == [f EXCEPT ![i] = li]
<1>1. /\ l \in Places /\ d \in Places /\ f \in [Instances -> Instance]
      /\ \A v \in Units : l[v] = NoInstance \/ d[v] = NoInstance
      /\ Counted(l, d, f) /\ Looked(l, f, t) /\ \A j \in Instances : Shape(f[j])
  BY DEF Core
<1>2. i # NoInstance
  BY LosAssumption
<1>3. m \in Places /\ m[u] = i /\ \A v \in Units : v # u => m[v] = l[v]
  BY <1>1 DEF Places
<1>4. g \in [Instances -> Instance] /\ g[i] = li /\ \A j \in Instances \ {i} : g[j] = f[j]
  BY <1>1
<1>5. Holders(m, d, i) = Holders(l, d, i) \cup {u} /\ u \notin Holders(l, d, i)
  BY <1>2, <1>3 DEF Holders
<1>6. \A j \in Instances \ {i} : Holders(m, d, j) = Holders(l, d, j)
  <2> SUFFICES ASSUME NEW j \in Instances \ {i}, NEW v \in Units
               PROVE  m[v] = j <=> l[v] = j
    BY DEF Holders
  <2> QED BY <1>3, LosAssumption
<1>7. Cardinality(Holders(m, d, i)) = Cardinality(Holders(l, d, i)) + 1
  BY <1>5, HoldersCount, FS_AddElement
<1> HIDE DEF m, g
<1>8. Counted(m, d, g)
  <2> SUFFICES ASSUME NEW j \in Instances
               PROVE  /\ g[j].refCount = Cardinality(Holders(m, d, j))
                      /\ Holders(m, d, j) # {} => g[j].key # NoKey
    BY DEF Counted
  <2>1. CASE j = i
    BY <2>1, <1>1, <1>4, <1>7 DEF Counted
  <2>2. CASE j # i
    BY <2>2, <1>1, <1>4, <1>6 DEF Counted
  <2> QED BY <2>1, <2>2
<1>9. Looked(m, g, t \ {u})
  <2> SUFFICES ASSUME NEW j \in Instances, Fresh(g[j])
               PROVE  \E v \in Units \ (t \ {u}) : m[v] = j
    BY DEF Looked
  <2>1. CASE j = i
    BY <2>1, <1>3
  <2>2. CASE j # i
    <3>1. PICK v \in Units \ t : l[v] = j
      BY <2>2, <1>1, <1>4 DEF Looked
    <3>2. v # u
      BY <3>1, LosAssumption
    <3> QED BY <3>1, <3>2, <1>3
  <2> QED BY <2>1, <2>2
<1>10. \A j \in Instances : Shape(g[j])
  BY <1>1, <1>4
<1>11. \A v \in Units : m[v] = NoInstance \/ d[v] = NoInstance
  BY <1>1, <1>3
<1>12. Core(m, d, g, t \ {u})
  BY <1>1, <1>3, <1>4, <1>8, <1>9, <1>10, <1>11 DEF Core
<1> QED BY <1>12 DEF m, g

--------------------------------------------------------------------------------
(* The inductive invariant.                                                  *)

Typed ==
  /\ unit \in [Units -> {"building", "alive", "dead"}]
  /\ left \in [Units -> -1..Linger]
  /\ losMap \in [Keys \X (0..MaxChanges) -> Int] /\ ground \in [Keys -> 0..MaxChanges]
  /\ phase \in {"idle", "frame", "update"} /\ todo \in SUBSET Units

(* Whose turn it is has run out by one frame at most, and only until the     *)
(* update of that frame.                                                     *)
Timers ==
  /\ phase = "idle" => \A i \in Instances : inst[i].relosIn >= 0
  /\ \A u \in Units : phase = "idle" \/ delayedDelete[u] = NoInstance => left[u] >= 0

Mourned ==
  \A u \in Units : /\ delayedDelete[u] # NoInstance => unit[u] = "dead"
                   /\ unit[u] = "dead" => los[u] = NoInstance

Asking == IF phase = "update" THEN todo ELSE Units

IInv == Typed /\ Timers /\ Mourned /\ MapIsSum /\ Core(los, delayedDelete, inst, Asking)

AddedBy(f, v) == {i \in Instances : Added(f[i]) /\ View(f[i]) = v}

LEMMA SameMap ==
  ASSUME NEW f, NEW g,
         \A i \in Instances : /\ Added(f[i]) <=> Added(g[i])
                              /\ Added(f[i]) => View(f[i]) = View(g[i])
  PROVE  \A v : AddedBy(f, v) = AddedBy(g, v)
  BY DEF AddedBy

LEMMA MapIsAdded ==
  MapIsSum <=> \A v \in DOMAIN losMap : losMap[v] = Cardinality(AddedBy(inst, v))
  BY DEF MapIsSum, AddedBy

LEMMA SameSights ==
  ASSUME NEW f, NEW g, \A i \in Instances : SameSight(f[i], g[i])
  PROVE  \A v : AddedBy(f, v) = AddedBy(g, v)
  BY SameMap DEF SameSight, View

LEMMA MapStays ==
  ASSUME MapIsSum, losMap' = losMap, \A v : AddedBy(inst', v) = AddedBy(inst, v)
  PROVE  MapIsSum'
<1> SUFFICES ASSUME NEW v \in DOMAIN losMap
             PROVE  losMap[v] = Cardinality(AddedBy(inst', v))
  BY DEF MapIsSum, AddedBy
<1> QED BY MapIsAdded

LEMMA InitIInv == Init => IInv
<1> SUFFICES ASSUME Init PROVE IInv
  OBVIOUS
<1>1. Typed
  BY LosAssumption DEF Init, Typed
<1>2. \A i \in Instances : inst[i] = FreeSlot
  BY DEF Init
<1>3. Timers /\ Mourned
  BY LosAssumption, <1>2 DEF Init, Timers, Mourned, FreeSlot
<1>4. MapIsSum
  <2>1. \A v : AddedBy(inst, v) = {}
    BY <1>2, FreeShape DEF AddedBy
  <2>2. \A v \in DOMAIN losMap : losMap[v] = 0
    BY DEF Init
  <2> QED BY <2>1, <2>2, MapIsAdded, FS_EmptySet
<1>5. Core(los, delayedDelete, inst, Asking)
  <2>1. \A i : Holders(los, delayedDelete, i) # {} => i = NoInstance
    BY DEF Init, Holders
  <2>2. \A i \in Instances : Cardinality(Holders(los, delayedDelete, i)) = 0
                             /\ Holders(los, delayedDelete, i) = {}
    BY <2>1, LosAssumption, HoldersCount
  <2>3. Counted(los, delayedDelete, inst)
    BY <1>2, <2>2 DEF Counted, FreeSlot
  <2>4. Looked(los, inst, Asking) /\ \A i \in Instances : Shape(inst[i])
    BY <1>2, FreeShape DEF Looked
  <2>5. los \in Places /\ delayedDelete \in Places /\ inst \in [Instances -> Instance]
        /\ \A u \in Units : los[u] = NoInstance
    BY FreeShape DEF Init, Places
  <2> QED BY <2>3, <2>4, <2>5 DEF Core
<1> QED BY <1>1, <1>3, <1>4, <1>5 DEF IInv

--------------------------------------------------------------------------------
(* Steps between the updates.                                                *)

(* RemoveUnit of a unit that may still be asked. *)
LEMMA RemoveKeeps ==
  ASSUME IInv, NEW u \in Units, u \in Asking, RemoveUnit(u)
  PROVE  /\ Core(los', delayedDelete, inst', Asking)
         /\ \A i \in Instances : SameSight(inst[i], inst'[i]) /\ inst'[i].relosIn = inst[i].relosIn
         /\ los' = [los EXCEPT ![u] = NoInstance]
<1>1. Core(los, delayedDelete, inst, Asking) /\ los' = [los EXCEPT ![u] = NoInstance]
  BY DEF IInv, RemoveUnit
<1>2. CASE los[u] = NoInstance
  <2>1. inst' = inst
    BY <1>2 DEF RemoveUnit
  <2>2. los' = los
    BY <1>1, <1>2 DEF Core, Places
  <2> QED BY <1>1, <2>1, <2>2 DEF SameSight
<1>3. CASE los[u] # NoInstance
  <2>1. inst' = [inst EXCEPT ![los[u]] = Unref(1, @)]
    BY <1>3 DEF RemoveUnit
  <2>2. los[u] \in Instances
    BY <1>1, <1>3 DEF Core, Places
  <2> QED BY <1>1, <2>1, <2>2, LetGo
<1> QED BY <1>2, <1>3

LEMMA UnitFinishedKeeps == ASSUME IInv, NEW u \in Units, UnitFinished(u) PROVE IInv'
<1>1. Typed'
  BY DEF IInv, Typed, UnitFinished
<1>2. Timers' /\ MapIsSum'
  BY DEF IInv, Timers, MapIsSum, UnitFinished
<1>3. Mourned'
  BY DEF IInv, Typed, Mourned, UnitFinished
<1>4. Core(los, delayedDelete, inst, Asking)'
  BY DEF IInv, Asking, UnitFinished
<1> QED BY <1>1, <1>2, <1>3, <1>4 DEF IInv

LEMMA RemovalKeeps ==
  ASSUME IInv, NEW u \in Units, UnitReverseBuilt(u) \/ UnitTaken(u)
  PROVE  IInv'
<1>1. /\ phase # "update" /\ RemoveUnit(u) /\ u \in Asking /\ unit[u] = "alive"
      /\ UNCHANGED <<delayedDelete, left, losMap, ground, phase, todo>>
      /\ unit' = unit \/ unit' = [unit EXCEPT ![u] = "building"]
  BY DEF UnitReverseBuilt, UnitTaken, Asking
<1>2. /\ Core(los', delayedDelete, inst', Asking)
      /\ \A i \in Instances : SameSight(inst[i], inst'[i]) /\ inst'[i].relosIn = inst[i].relosIn
      /\ los' = [los EXCEPT ![u] = NoInstance]
  BY <1>1, RemoveKeeps
<1>3. Typed'
  BY <1>1 DEF IInv, Typed
<1>4. Timers'
  BY <1>1, <1>2 DEF IInv, Timers
<1>5. Mourned'
  BY <1>1, <1>2 DEF IInv, Typed, Mourned, Core, Places
<1>6. MapIsSum'
  BY <1>1, <1>2, SameSights, MapStays DEF IInv
<1>7. Core(los, delayedDelete, inst, Asking)'
  BY <1>1, <1>2 DEF Asking
<1> QED BY <1>3, <1>4, <1>5, <1>6, <1>7 DEF IInv

LEMMA UnitDestroyedKeeps == ASSUME IInv, NEW u \in Units, UnitDestroyed(u) PROVE IInv'
<1>1. /\ phase # "update" /\ unit[u] # "dead" /\ unit' = [unit EXCEPT ![u] = "dead"]
      /\ los' = [los EXCEPT ![u] = NoInstance]
      /\ UNCHANGED <<inst, losMap, ground, phase, todo>>
  BY DEF UnitDestroyed
<1>2. los \in Places /\ delayedDelete \in Places /\ delayedDelete[u] = NoInstance
  BY <1>1 DEF IInv, Core, Mourned
<1>3. /\ delayedDelete' = [delayedDelete EXCEPT ![u] = los[u]]
      /\ \/ left' = left /\ los[u] = NoInstance
         \/ left' = [left EXCEPT ![u] = Linger] /\ los[u] # NoInstance
  <2>1. CASE los[u] = NoInstance
    BY <1>2, <2>1 DEF UnitDestroyed, Places
  <2>2. CASE los[u] # NoInstance
    BY <2>2 DEF UnitDestroyed
  <2> QED BY <2>1, <2>2
<1>4. Typed'
  BY <1>1, <1>3, LosAssumption DEF IInv, Typed
<1>5. Timers'
  BY <1>1, <1>2, <1>3, LosAssumption DEF IInv, Typed, Timers, Places
<1>6. Mourned'
  BY <1>1, <1>2, <1>3 DEF IInv, Typed, Mourned, Places
<1>7. MapIsSum'
  BY <1>1, MapStays DEF IInv
<1>8. los' \in Places /\ delayedDelete' \in Places
  BY <1>1, <1>2, <1>3 DEF Places
<1>9. \A i \in Instances : Holders(los', delayedDelete', i) = Holders(los, delayedDelete, i)
  <2> SUFFICES ASSUME NEW i \in Instances, NEW v \in Units
               PROVE  los'[v] = i \/ delayedDelete'[v] = i <=> los[v] = i \/ delayedDelete[v] = i
    BY DEF Holders
  <2>1. CASE v = u
    BY <2>1, <1>1, <1>2, <1>3, LosAssumption DEF Places
  <2>2. CASE v # u
    BY <2>2, <1>1, <1>2, <1>3 DEF Places
  <2> QED BY <2>1, <2>2
<1>10. Counted(los', delayedDelete', inst')
  BY <1>1, <1>9 DEF IInv, Core, Counted
<1>11. Looked(los', inst', Asking')
  BY <1>1 DEF IInv, Core, Looked, Asking
<1>12. \A v \in Units : los'[v] = NoInstance \/ delayedDelete'[v] = NoInstance
  BY <1>1, <1>2, <1>3 DEF IInv, Core, Places
<1>13. Core(los, delayedDelete, inst, Asking)'
  BY <1>1, <1>8, <1>10, <1>11, <1>12 DEF IInv, Core
<1> QED BY <1>4, <1>5, <1>6, <1>7, <1>13 DEF IInv

LEMMA HeightMapKeeps ==
  ASSUME IInv, NEW r \in Rects, UpdateHeightMapSynced(r)
  PROVE  /\ IInv'
         /\ \A i \in Instances : inst'[i].refCount = inst[i].refCount
                                 /\ (inst[i].refCount > 0 => inst'[i].key = inst[i].key)
<1>1. /\ phase # "update" /\ ground' \in [Keys -> 0..MaxChanges]
      /\ UNCHANGED <<unit, los, delayedDelete, left, losMap, phase, todo>>
  <2>1. /\ \A k \in Keys : Reaches(k, r) => ground[k] < MaxChanges
        /\ ground' = [k \in Keys |-> IF Reaches(k, r) THEN ground[k] + 1 ELSE ground[k]]
    BY DEF UpdateHeightMapSynced
  <2>2. \A k \in Keys : ground[k] \in 0..MaxChanges
    BY DEF IInv, Typed
  <2>3. \A k \in Keys : (IF Reaches(k, r) THEN ground[k] + 1 ELSE ground[k]) \in 0..MaxChanges
    BY <2>1, <2>2, LosAssumption
  <2> QED BY <2>1, <2>3 DEF UpdateHeightMapSynced
<1>2. ASSUME NEW i \in Instances
      PROVE  /\ inst'[i] \in Instance /\ Shape(inst'[i]) /\ ~Fresh(inst'[i])
             /\ inst'[i].refCount = inst[i].refCount
             /\ inst[i].refCount > 0 => inst'[i].key = inst[i].key
             /\ Added(inst'[i]) <=> Added(inst[i])
             /\ Added(inst[i]) => View(inst'[i]) = View(inst[i])
             /\ inst[i].relosIn >= 0 => inst'[i].relosIn >= 0
  <2>1. /\ inst[i] \in Instance /\ Shape(inst[i]) /\ ~Fresh(inst[i])
    BY <1>1 DEF IInv, Core, Looked, Asking
  <2>2. inst'[i] = IF inst[i].key = NoKey \/ ~CheckOverlap(inst[i].key, r) THEN inst[i]
                   ELSE IF inst[i].isCached /\ inst[i].refCount = 0 THEN FreeSlot
                   ELSE IF "RECALC" \in inst[i].status THEN inst[i] ELSE MarkRecalc(inst[i])
    BY DEF UpdateHeightMapSynced
  <2>3. CASE inst'[i] = inst[i]
    BY <2>1, <2>3
  <2>4. CASE inst'[i] = FreeSlot /\ inst[i].isCached /\ inst[i].refCount = 0
    <3>1. ~Added(inst[i]) /\ inst'[i].refCount = 0 /\ inst'[i].relosIn = 0
      BY <2>4 DEF Added, FreeSlot
    <3> QED BY <2>4, <3>1, FreeShape
  <2>5. CASE inst'[i] = MarkRecalc(inst[i]) /\ inst[i].key # NoKey
             /\ ~(inst[i].isCached /\ inst[i].refCount = 0)
    <3>1. ~inst[i].isCached
      BY <2>1, <2>5 DEF Shape, Asserted, Instance
    <3> QED BY <2>1, <2>5, <3>1, MarkKeeps DEF View
  <2> QED BY <2>2, <2>3, <2>4, <2>5
<1>3. Typed' /\ Mourned'
  BY <1>1 DEF IInv, Typed, Mourned
<1>4. Timers'
  BY <1>1, <1>2 DEF IInv, Timers
<1>5. MapIsSum'
  BY <1>1, <1>2, MapStays, SameMap DEF IInv
<1>6. inst' \in [Instances -> Instance]
  <2>1. DOMAIN inst' = Instances /\ inst' = [i \in Instances |-> inst'[i]]
    BY DEF UpdateHeightMapSynced
  <2> QED BY <2>1, <1>2
<1>7. Counted(los, delayedDelete, inst')
  <2> SUFFICES ASSUME NEW i \in Instances
               PROVE  /\ inst'[i].refCount = Cardinality(Holders(los, delayedDelete, i))
                      /\ Holders(los, delayedDelete, i) # {} => inst'[i].key # NoKey
    BY DEF Counted
  <2>1. /\ inst[i].refCount = Cardinality(Holders(los, delayedDelete, i))
        /\ Holders(los, delayedDelete, i) # {} => inst[i].key # NoKey
    BY DEF IInv, Core, Counted
  <2>2. Holders(los, delayedDelete, i) # {} => inst[i].refCount > 0
    BY <2>1, HoldersCount
  <2> QED BY <1>2, <2>1, <2>2
<1>8. Core(los, delayedDelete, inst, Asking)'
  BY <1>1, <1>2, <1>6, <1>7 DEF IInv, Core, Looked
<1> QED BY <1>2, <1>3, <1>4, <1>5, <1>8 DEF IInv

LEMMA FrameKeeps == ASSUME IInv, NewFrame PROVE IInv'
<1>1. /\ phase = "idle" /\ phase' = "frame"
      /\ UNCHANGED <<unit, los, delayedDelete, losMap, ground, todo>>
  BY DEF NewFrame
<1>2. ASSUME NEW i \in Instances
      PROVE  /\ inst'[i] \in Instance /\ Shape(inst'[i]) /\ SameSight(inst[i], inst'[i])
             /\ inst'[i].refCount = inst[i].refCount /\ ~Fresh(inst'[i])
  <2>1. /\ inst[i] \in Instance /\ Shape(inst[i]) /\ inst[i].relosIn \in 0..RelosDelay
        /\ ~Fresh(inst[i])
    BY <1>1, LosAssumption DEF IInv, Core, Timers, Instance, Looked, Asking
  <2>2. inst'[i] = IF inst[i].isQueuedForTerraform
                   THEN [inst[i] EXCEPT !.relosIn = inst[i].relosIn - 1] ELSE inst[i]
    BY DEF NewFrame
  <2>3. CASE ~inst[i].isQueuedForTerraform
    BY <2>1, <2>2, <2>3 DEF SameSight
  <2>4. CASE inst[i].isQueuedForTerraform
    <3> DEFINE n == inst[i].relosIn - 1
    <3>1. inst'[i] = [inst[i] EXCEPT !.relosIn = n] /\ n \in -1..RelosDelay
      BY <2>1, <2>2, <2>4, LosAssumption
    <3> HIDE DEF n
    <3>2. inst'[i] \in Instance
      BY <2>1, <3>1 DEF Instance
    <3>3. /\ inst'[i].key = inst[i].key /\ inst'[i].refCount = inst[i].refCount
          /\ inst'[i].status = inst[i].status /\ inst'[i].isCached = inst[i].isCached
          /\ inst'[i].isQueuedForUpdate = inst[i].isQueuedForUpdate
          /\ inst'[i].isQueuedForTerraform = inst[i].isQueuedForTerraform
          /\ inst'[i].squares = inst[i].squares
      BY <2>1, <3>1 DEF Instance
    <3> QED BY <2>1, <2>4, <3>2, <3>3 DEF Shape, Asserted, SameSight, Added, Fresh
  <2> QED BY <2>3, <2>4
<1>3. left' \in [Units -> -1..Linger]
      /\ \A u \in Units : delayedDelete[u] = NoInstance => left'[u] >= 0
  <2>1. \A u \in Units : left[u] \in 0..Linger
    BY <1>1 DEF IInv, Typed, Timers
  <2> QED BY <2>1, LosAssumption DEF NewFrame
<1>4. Typed' /\ Timers' /\ Mourned'
  BY <1>1, <1>3 DEF IInv, Typed, Timers, Mourned
<1>5. MapIsSum'
  BY <1>1, <1>2, SameSights, MapStays DEF IInv
<1>6. inst' \in [Instances -> Instance]
  <2>1. inst' = [i \in Instances |-> inst'[i]]
    BY DEF NewFrame
  <2> QED BY <2>1, <1>2
<1>7. Core(los, delayedDelete, inst, Asking)'
  BY <1>1, <1>2, <1>6 DEF IInv, Core, Counted, Looked, SameSight
<1> QED BY <1>4, <1>5, <1>7 DEF IInv

LEMMA BeginKeeps == ASSUME IInv, BeginUpdate PROVE IInv'
<1>1. /\ phase = "frame" /\ phase' = "update" /\ todo' = Units
      /\ UNCHANGED <<unit, los, delayedDelete, left, inst, losMap, ground>>
  BY DEF BeginUpdate
<1>2. Asking' = Asking
  BY <1>1 DEF Asking
<1> QED BY <1>1, <1>2 DEF IInv, Typed, Timers, Mourned, MapIsSum

--------------------------------------------------------------------------------
(* A unit is looked at.                                                      *)

(* What LookFrom does, as letting go of the old instance and then taking up  *)
(* the new one; nobody's key changes but that of u.                          *)
LEMMA LookKeeps ==
  ASSUME IInv, phase = "update", NEW u \in todo, unit[u] = "alive", NEW k \in Keys, LookFrom(u, k)
  PROVE  /\ Core(los', delayedDelete, inst', todo \ {u})
         /\ \A v : AddedBy(inst', v) = AddedBy(inst, v)
         /\ \E i \in Instances : los' = [los EXCEPT ![u] = i] /\ inst'[i].key = k
         /\ \A i \in Instances : inst[i].key # NoKey => inst'[i].key = inst[i].key
<1>1. /\ u \in Units /\ Asking = todo /\ Core(los, delayedDelete, inst, todo)
      /\ los \in Places /\ inst \in [Instances -> Instance] /\ delayedDelete[u] = NoInstance
  BY DEF IInv, Typed, Asking, Core, Mourned
<1>2. CASE los[u] # NoInstance /\ inst[los[u]].key = k
  <2>1. UNCHANGED <<los, inst>>
    BY <1>2 DEF LookFrom
  <2>2. Looked(los, inst, todo \ {u})
    BY <1>1 DEF Core, Looked
  <2>3. los[u] \in Instances /\ los = [los EXCEPT ![u] = los[u]]
    BY <1>1, <1>2 DEF Places
  <2> QED BY <1>1, <1>2, <2>1, <2>2, <2>3 DEF Core
<1>3. CASE ~(los[u] # NoInstance /\ inst[los[u]].key = k)
  <2> DEFINE old == los[u]
             freed == IF old = NoInstance THEN inst ELSE [inst EXCEPT ![old] = Unref(1, @)]
             m == [los EXCEPT ![u] = NoInstance]
  <2>1. PICK i \in Instances :
          /\ los' = [los EXCEPT ![u] = i]
          /\ \/ freed[i].key = k /\ inst' = [freed EXCEPT ![i] = Ref(@)]
             \/ freed[i].key = NoKey /\ inst' = [freed EXCEPT ![i] = NewInstance(k)]
    BY <1>3 DEF LookFrom
  <2>2. Core(m, delayedDelete, freed, todo) /\ \A j \in Instances : SameSight(inst[j], freed[j])
    <3>1. CASE old = NoInstance
      <4>1. m = los /\ freed = inst
        BY <1>1, <3>1 DEF Places
      <4> QED BY <1>1, <4>1 DEF SameSight
    <3>2. CASE old # NoInstance
      <4>1. old \in Instances
        BY <1>1, <3>2 DEF Places
      <4> DEFINE g == [inst EXCEPT ![old] = Unref(1, @)]
      <4>2. Core(m, delayedDelete, g, todo) /\ \A j \in Instances : SameSight(inst[j], g[j])
        BY <1>1, <4>1, LetGo
      <4>3. freed = g
        BY <3>2
      <4> HIDE DEF g, freed, m
      <4> QED BY <4>2, <4>3
    <3> QED BY <3>1, <3>2
  <2>3. m[u] = NoInstance /\ los' = [m EXCEPT ![u] = i]
    BY <1>1, <2>1 DEF Places
  <2>4. freed \in [Instances -> Instance] /\ Shape(freed[i]) /\ freed[i] \in Instance
    BY <2>2 DEF Core
  <2> DEFINE li == inst'[i]
  <2> HIDE DEF freed, m
  <2>5. /\ inst' = [freed EXCEPT ![i] = li] /\ \A j \in Instances \ {i} : inst'[j] = freed[j]
        /\ \/ freed[i].key = k /\ li = Ref(freed[i])
           \/ freed[i].key = NoKey /\ li = NewInstance(k)
    BY <2>1, <2>4
  <2> HIDE DEF li
  <2>6. /\ li \in Instance /\ Shape(li) /\ li.key = k /\ li.refCount = freed[i].refCount + 1
        /\ Added(li) <=> Added(freed[i])
        /\ Added(freed[i]) => View(li) = View(freed[i])
    <3>1. CASE freed[i].key = k /\ li = Ref(freed[i])
      <4>1. freed[i].key # NoKey
        BY <3>1, LosAssumption
      <4> QED BY <2>4, <3>1, <4>1, RefKeeps DEF SameSight, View
    <3>2. CASE freed[i].key = NoKey /\ li = NewInstance(k)
      <4>1. freed[i].refCount = 0 /\ ~Added(freed[i])
        BY <2>4, <3>2 DEF Shape, Added
      <4> QED BY <3>2, <4>1, NewKeeps
    <3> QED BY <2>5, <3>1, <3>2
  <2>7. li.key # NoKey
    BY <2>6, LosAssumption
  <2>8. Core(los', delayedDelete, inst', todo \ {u})
    BY <1>1, <2>2, <2>3, <2>5, <2>6, <2>7, TakeUp
  <2>9. \A v : AddedBy(inst', v) = AddedBy(inst, v)
    <3>1. \A v : AddedBy(freed, v) = AddedBy(inst, v)
      BY <2>2, SameSights
    <3>2. \A v : AddedBy(inst', v) = AddedBy(freed, v)
      <4>1. \A j \in Instances : /\ Added(inst'[j]) <=> Added(freed[j])
                                 /\ Added(inst'[j]) => View(inst'[j]) = View(freed[j])
        BY <2>5, <2>6 DEF li
      <4> QED BY <4>1, SameMap
    <3> QED BY <3>1, <3>2
  <2>10. \A j \in Instances : inst[j].key # NoKey => inst'[j].key = inst[j].key
    BY <2>2, <2>5, <2>6 DEF SameSight, li
  <2> QED BY <2>1, <2>6, <2>8, <2>9, <2>10 DEF li
<1> QED BY <1>2, <1>3

(* What UpdateUnit does to the unit, whichever of its returns is taken. *)
LEMMA UpdateUnitDoes ==
  ASSUME IInv, NEW u \in Units, UpdateUnit(u)
  PROVE  /\ Core(los', delayedDelete, inst', todo') /\ phase = "update"
         /\ UNCHANGED <<unit, delayedDelete, left, losMap, ground, phase>>
         /\ \A v : AddedBy(inst', v) = AddedBy(inst, v)
         /\ \/ unit[u] # "alive" /\ los' = los
            \/ unit[u] = "alive" /\ los' = los
            \/ unit[u] = "alive" /\ los' = [los EXCEPT ![u] = NoInstance]
            \/ unit[u] = "alive" /\ \E i \in Instances : los' = [los EXCEPT ![u] = i]
                                                        /\ inst'[i].key \in Keys
         /\ \A i \in Instances : inst[i].key # NoKey => inst'[i].key = inst[i].key
         /\ todo' \subseteq todo
<1>1. /\ phase = "update" /\ u \in todo /\ todo' = todo \ {u} /\ Asking = todo
      /\ UNCHANGED <<unit, delayedDelete, left, losMap, ground, phase>>
      /\ Core(los, delayedDelete, inst, todo)
  BY DEF UpdateUnit, IInv, Asking
<1>2. \A l, d, f, t : Core(l, d, f, t) => Core(l, d, f, t \ {u})
  BY DEF Core, Looked
<1>3. CASE UNCHANGED <<los, inst>>
  <2>1. Core(los', delayedDelete, inst', todo')
    BY <1>1, <1>2, <1>3
  <2> QED BY <1>1, <1>3, <2>1
<1>4. CASE unit[u] = "alive" /\ RemoveUnit(u)
  <2>1. /\ Core(los', delayedDelete, inst', todo)
        /\ \A i \in Instances : SameSight(inst[i], inst'[i])
        /\ los' = [los EXCEPT ![u] = NoInstance]
    BY <1>1, <1>4, RemoveKeeps
  <2>2. \A v : AddedBy(inst', v) = AddedBy(inst, v)
    BY <2>1, SameSights
  <2> QED BY <1>1, <1>2, <1>4, <2>1, <2>2 DEF SameSight
<1>5. CASE unit[u] = "alive" /\ \E k \in Keys : LookFrom(u, k)
  <2>1. PICK k \in Keys : LookFrom(u, k)
    BY <1>5
  <2> QED BY <1>1, <1>5, <2>1, LookKeeps
<1> QED BY <1>3, <1>4, <1>5 DEF UpdateUnit

LEMMA UpdateUnitKeeps == ASSUME IInv, NEW u \in Units, UpdateUnit(u) PROVE IInv'
<1>1. /\ Core(los', delayedDelete, inst', todo') /\ phase = "update" /\ todo' \subseteq todo
      /\ UNCHANGED <<unit, delayedDelete, left, losMap, ground, phase>>
      /\ \A v : AddedBy(inst', v) = AddedBy(inst, v)
  BY UpdateUnitDoes
<1>2. unit[u] # "dead" \/ los' = los
  BY UpdateUnitDoes
<1>3. \A v \in Units : v # u => los'[v] = los[v]
  <2>1. los \in Places
    BY DEF IInv, Core
  <2> QED BY <2>1, UpdateUnitDoes DEF Places
<1>4. Typed' /\ Timers'
  BY <1>1 DEF IInv, Typed, Timers
<1>5. Mourned'
  BY <1>1, <1>2, <1>3 DEF IInv, Mourned
<1>6. MapIsSum'
  BY <1>1, MapStays DEF IInv
<1>7. Core(los, delayedDelete, inst, Asking)'
  BY <1>1 DEF Asking
<1> QED BY <1>4, <1>5, <1>6, <1>7 DEF IInv

--------------------------------------------------------------------------------
(* The update.                                                               *)

(* The units whose time has come let their instances go: Released.           *)
Surviving == [u \in Units |-> IF u \in Expired THEN NoInstance ELSE delayedDelete[u]]

LEMMA ReleasedKeeps ==
  ASSUME IInv, NEW i \in Instances
  PROVE  /\ Released(i) \in Instance /\ Shape(Released(i))
         /\ Released(i).refCount = Cardinality(Holders(los, Surviving, i))
         /\ Released(i).key = NoKey => Holders(los, Surviving, i) = {}
         /\ SameSight(inst[i], Released(i)) /\ (Fresh(Released(i)) <=> Fresh(inst[i]))
         /\ Released(i).isCached = inst[i].isCached /\ Released(i).relosIn = inst[i].relosIn
         /\ Released(i).isQueuedForTerraform = inst[i].isQueuedForTerraform
<1>1. /\ inst[i] \in Instance /\ Shape(inst[i]) /\ los \in Places /\ delayedDelete \in Places
      /\ inst[i].refCount = Cardinality(Holders(los, delayedDelete, i))
      /\ Holders(los, delayedDelete, i) # {} => inst[i].key # NoKey
  BY DEF IInv, Core, Counted
<1>2. Holders(los, Surviving, i) = Holders(los, delayedDelete, i) \ Dropped(i)
  <2> SUFFICES ASSUME NEW u \in Units
               PROVE  los[u] = i \/ Surviving[u] = i
                        <=> (los[u] = i \/ delayedDelete[u] = i) /\ u \notin Dropped(i)
    BY DEF Holders
  <2>1. i # NoInstance
    BY LosAssumption
  <2>2. los[u] = i => delayedDelete[u] # i
    BY <2>1 DEF IInv, Core
  <2> QED BY <2>1, <2>2 DEF Surviving, Dropped, Expired
<1>3. Dropped(i) \subseteq Holders(los, delayedDelete, i)
  BY DEF Dropped, Expired, Holders
<1>4. /\ IsFiniteSet(Dropped(i)) /\ Cardinality(Dropped(i)) \in Nat
      /\ Cardinality(Dropped(i)) <= inst[i].refCount
      /\ Cardinality(Dropped(i)) = 0 <=> Dropped(i) = {}
  BY <1>1, <1>3, HoldersCount, FS_Subset, FS_CardinalityType, FS_EmptySet
<1>5. Cardinality(Holders(los, Surviving, i)) = inst[i].refCount - Cardinality(Dropped(i))
  <2>1. Holders(los, delayedDelete, i) \cap Dropped(i) = Dropped(i)
    BY <1>3
  <2> DEFINE H == Holders(los, delayedDelete, i)
  <2>2. IsFiniteSet(H)
    BY HoldersCount
  <2> HIDE DEF H
  <2>3. Cardinality(H \ Dropped(i)) = Cardinality(H) - Cardinality(H \cap Dropped(i))
    BY <2>2, FS_Difference
  <2> QED BY <1>1, <1>2, <2>1, <2>3 DEF H
<1>6. CASE Dropped(i) = {}
  <2>1. Released(i) = inst[i]
    BY <1>6 DEF Released
  <2>2. Cardinality(Holders(los, Surviving, i)) = inst[i].refCount
    BY <1>2, <1>6, <1>1
  <2> QED BY <1>1, <1>2, <1>6, <2>1, <2>2 DEF SameSight
<1>7. CASE Dropped(i) # {}
  <2> DEFINE n == Cardinality(Dropped(i))
  <2>1. Released(i) = Unref(n, inst[i])
    BY <1>7 DEF Released
  <2>2. n \in Nat /\ n > 0 /\ n <= inst[i].refCount /\ inst[i].key # NoKey
    BY <1>1, <1>3, <1>4, <1>7
  <2>3. Fresh(inst[i]) => n < inst[i].refCount
    <3> SUFFICES ASSUME Fresh(inst[i]) PROVE n < inst[i].refCount
      OBVIOUS
    <3>1. PICK u \in Units : los[u] = i
      BY DEF IInv, Core, Looked
    <3>2. Cardinality(Holders(los, Surviving, i)) \in Nat
          /\ Cardinality(Holders(los, Surviving, i)) # 0
      <4>1. u \in Holders(los, Surviving, i)
        BY <3>1 DEF Holders
      <4> QED BY <4>1, HoldersCount
    <3>3. inst[i].refCount \in Nat
      BY <1>1 DEF Instance
    <3> QED BY <2>2, <3>2, <3>3, <1>5
  <2> HIDE DEF n
  <2>4. LET mi == Unref(n, inst[i]) IN
          /\ mi \in Instance /\ Shape(mi) /\ mi.refCount = inst[i].refCount - n
          /\ SameSight(inst[i], mi) /\ (Fresh(mi) <=> Fresh(inst[i]))
          /\ mi.isCached = inst[i].isCached /\ mi.relosIn = inst[i].relosIn
          /\ mi.isQueuedForTerraform = inst[i].isQueuedForTerraform
    BY <1>1, <2>2, <2>3, UnrefKeeps
  <2>5. Released(i).key # NoKey
    BY <2>1, <2>2, <2>4 DEF SameSight
  <2> QED BY <1>5, <2>1, <2>4, <2>5 DEF n
<1> QED BY <1>6, <1>7

(* How each instance leaves the update. *)
Left(i, evicted) == IF i \in evicted \cup (LosDeleted \ Kept) THEN FreeSlot ELSE Settled(i)

LEMMA SettledFields ==
  ASSUME IInv, NEW i \in Instances
  PROVE  /\ Settled(i).key = Released(i).key /\ Settled(i).refCount = Released(i).refCount
         /\ Settled(i).status = IF i \in LosUpdate THEN {} ELSE Released(i).status
         /\ Settled(i).isCached = (Released(i).isCached \/ i \in Kept)
         /\ Settled(i).isQueuedForUpdate = FALSE
         /\ Settled(i).isQueuedForTerraform = (Released(i).isQueuedForTerraform /\ i \notin Relos)
         /\ Settled(i).relosIn = IF i \in Relos THEN 0 ELSE Released(i).relosIn
         /\ Settled(i).squares = IF i \in LosRecalc THEN ground[Released(i).key]
                                 ELSE Released(i).squares
         /\ DOMAIN Settled(i) = DOMAIN Released(i)
<1>1. Released(i) \in Instance
  BY ReleasedKeeps
<1> DEFINE r == Released(i)
           c == Recast(i)
<1>2. /\ c.key = r.key /\ c.refCount = r.refCount /\ c.status = r.status
      /\ c.isCached = r.isCached /\ c.isQueuedForTerraform = r.isQueuedForTerraform
      /\ c.relosIn = r.relosIn /\ DOMAIN c = DOMAIN r
      /\ c.squares = IF i \in LosRecalc THEN ground[r.key] ELSE r.squares
  BY <1>1 DEF Recast, Instance
<1>3. DOMAIN c = {"key", "refCount", "status", "isCached", "isQueuedForUpdate",
                  "isQueuedForTerraform", "relosIn", "squares"}
  BY <1>1, <1>2 DEF Instance
<1> HIDE DEF r, c
<1>4. Settled(i) = [c EXCEPT !.status = IF i \in LosUpdate THEN {} ELSE @,
                             !.isQueuedForUpdate = FALSE,
                             !.isQueuedForTerraform = @ /\ i \notin Relos,
                             !.relosIn = IF i \in Relos THEN 0 ELSE @,
                             !.isCached = @ \/ i \in Kept]
  BY DEF Settled, c
<1> QED BY <1>2, <1>3, <1>4 DEF r

LEMMA TaskedMeans ==
  ASSUME IInv, NEW i \in LosUpdate
  PROVE  LET st == Released(i).status
             fresh == "NEW" \in st \/ ("REACTIVATE" \in st /\ "REMOVE" \notin st)
             gone == "REMOVE" \in st /\ "REACTIVATE" \notin st
             anew == Task(Released(i)) = "RECALC"
         IN  /\ i \in Instances
             /\ i \in LosDeleted <=> gone
             /\ i \in LosRemove <=> gone \/ anew
             /\ i \in LosAdd <=> fresh \/ anew
             /\ anew => "RECALC" \in st /\ ~fresh /\ ~gone
             /\ ~anew /\ ~fresh /\ ~gone => "RECALC" \notin st
             /\ i \in LosRecalc <=> Raycast /\ ("NEW" \in st \/ anew)
<1>1. i \in Instances
  BY DEF LosUpdate, Relos
<1>2. Released(i) \in Instance /\ Shape(Released(i))
  BY <1>1, ReleasedKeeps
<1>3. \A T : i \in Tasked(T) <=> Task(Released(i)) \in T
  BY DEF Tasked
<1> QED BY <1>1, <1>2, <1>3, TaskMeans DEF LosDeleted, LosRemove, LosAdd, LosRecalc

LEMMA OnlyUpdated ==
  ASSUME IInv, NEW i \in Instances, i \notin LosUpdate
  PROVE  /\ i \notin LosDeleted /\ i \notin LosRemove /\ i \notin LosAdd /\ i \notin LosRecalc
         /\ i \notin Kept /\ i \notin Relos /\ ~Released(i).isQueuedForUpdate
         /\ Released(i).status \cap {"NEW", "REACTIVATE", "REMOVE"} = {}
<1>1. i \notin Relos /\ ~Released(i).isQueuedForUpdate
  BY DEF LosUpdate
<1>2. Released(i).status \cap {"NEW", "REACTIVATE", "REMOVE"} = {}
  BY <1>1, ReleasedKeeps DEF Shape
<1> QED BY <1>1, <1>2 DEF LosDeleted, LosRemove, LosAdd, LosRecalc, Kept, Tasked

LEMMA LeftKeeps ==
  ASSUME IInv, NEW i \in Instances, NEW evicted \in SUBSET LosCache
  PROVE  LET s == Left(i, evicted) IN
         /\ s \in Instance /\ Shape(s) /\ ~Fresh(s) /\ s.relosIn >= 0
         /\ s.refCount = Released(i).refCount
         /\ s.refCount > 0 => s.key = Released(i).key
         /\ Added(s) <=> i \in LosAdd \/ (Added(inst[i]) /\ i \notin LosRemove)
         /\ i \in LosAdd => View(s) = View(Recast(i))
         /\ Added(s) /\ i \notin LosAdd => View(s) = View(inst[i])
         /\ i \in LosRemove => Added(inst[i])
         /\ i \in LosAdd /\ i \notin LosRemove => ~Added(inst[i])
         /\ "RECALC" \in s.status <=> s.key # NoKey /\ i \notin LosUpdate
                                      /\ "RECALC" \in Released(i).status
         /\ s.key = NoKey \/ s = Settled(i)
<1> DEFINE r == Released(i)
           c == Settled(i)
           s == Left(i, evicted)
<1>1. /\ r \in Instance /\ Shape(r) /\ SameSight(inst[i], r) /\ (Fresh(r) <=> Fresh(inst[i]))
      /\ r.isCached = inst[i].isCached /\ r.relosIn = inst[i].relosIn
      /\ r.isQueuedForTerraform = inst[i].isQueuedForTerraform
  BY ReleasedKeeps
<1>2. /\ c.key = r.key /\ c.refCount = r.refCount
      /\ c.status = IF i \in LosUpdate THEN {} ELSE r.status
      /\ c.isCached = (r.isCached \/ i \in Kept) /\ c.isQueuedForUpdate = FALSE
      /\ c.isQueuedForTerraform = (r.isQueuedForTerraform /\ i \notin Relos)
      /\ c.relosIn = IF i \in Relos THEN 0 ELSE r.relosIn
      /\ c.squares = IF i \in LosRecalc THEN ground[r.key] ELSE r.squares
  BY SettledFields
<1>3. (Added(inst[i]) <=> Added(r)) /\ View(r) = View(inst[i])
  BY <1>1 DEF SameSight, View
<1>4. /\ i \in LosRecalc => i \in LosAdd /\ r.key \in Keys /\ ground[r.key] \in 0..MaxChanges
  <2> SUFFICES ASSUME i \in LosRecalc PROVE i \in LosAdd /\ r.key \in Keys
    BY DEF IInv, Typed
  <2>1. i \in LosUpdate
    BY OnlyUpdated
  <2>2. i \in LosAdd /\ r.status # {}
    BY <2>1, TaskedMeans
  <2> QED BY <1>1, <2>2 DEF Shape, Instance
<1>5. i \in LosDeleted \/ i \in evicted => r.refCount = 0 /\ i \notin LosAdd
  <2>1. CASE i \in LosDeleted
    <3>1. i \in LosUpdate
      BY <2>1, OnlyUpdated
    <3>2. "REMOVE" \in r.status /\ "REACTIVATE" \notin r.status /\ i \notin LosAdd
      BY <1>1, <2>1, <3>1, TaskedMeans DEF Shape, Asserted
    <3> QED BY <1>1, <3>2 DEF Shape, Asserted, Instance
  <2>2. CASE i \in evicted
    <3>1. r.isCached /\ r.status = {}
      BY <1>1, <2>2 DEF LosCache, Shape
    <3>2. i \notin LosAdd
      BY <3>1, TaskedMeans, OnlyUpdated
    <3> QED BY <1>1, <3>1, <3>2 DEF Shape, Asserted, Instance
  <2> QED BY <2>1, <2>2
<1>6. /\ i \in LosRemove => Added(r)
      /\ i \in LosAdd /\ i \notin LosRemove => ~Added(r)
  <2>1. CASE i \notin LosUpdate
    BY <2>1, OnlyUpdated
  <2>2. CASE i \in LosUpdate
    BY <1>1, <2>2, TaskedMeans DEF Shape, Asserted, Added, Instance
  <2> QED BY <2>1, <2>2
<1>7. CASE i \in evicted \cup (LosDeleted \ Kept)
  <2>1. s = FreeSlot /\ r.refCount = 0 /\ i \notin LosAdd
    BY <1>5, <1>7 DEF Left
  <2>2. Added(r) => i \in LosRemove
    <3>1. CASE i \in evicted
      <4>1. r.isCached
        BY <3>1 DEF LosCache
      <4> QED BY <4>1 DEF Added
    <3>2. CASE i \in LosDeleted
      BY <3>2, TaskedMeans, OnlyUpdated
    <3> QED BY <1>7, <3>1, <3>2
  <2>3. /\ FreeSlot.key = NoKey /\ FreeSlot.refCount = 0
        /\ FreeSlot.relosIn = 0 /\ FreeSlot.status = {}
    BY DEF FreeSlot
  <2> QED BY <1>3, <1>6, <2>1, <2>2, <2>3, FreeShape
<1>8. CASE i \notin evicted \cup (LosDeleted \ Kept)
  <2>1. s = c
    BY <1>8 DEF Left
  <2>2. i \in LosDeleted <=> i \in Kept
    BY <1>8 DEF Kept
  <2>3. c \in Instance
    <3>1. c.relosIn \in -1..RelosDelay /\ c.squares \in Nat /\ c.status \in SUBSET Bits
          /\ c.isCached \in BOOLEAN /\ c.isQueuedForTerraform \in BOOLEAN
          /\ c.refCount \in Nat /\ c.key \in Keys \cup {NoKey}
      BY <1>1, <1>2, <1>4, LosAssumption DEF Instance
    <3> DEFINE d == Recast(i)
    <3>2. d \in Instance
      <4>1. CASE i \in LosRecalc
        <5> DEFINE n == ground[r.key]
        <5>1. d = [r EXCEPT !.squares = n] /\ n \in Nat
          BY <1>4, <4>1, LosAssumption DEF Recast
        <5> HIDE DEF n, r
        <5> QED BY <1>1, <5>1 DEF Instance
      <4>2. CASE i \notin LosRecalc
        BY <1>1, <4>2 DEF Recast
      <4> QED BY <4>1, <4>2
    <3>3. c = [d EXCEPT !.status = c.status, !.isQueuedForUpdate = FALSE,
                        !.isQueuedForTerraform = c.isQueuedForTerraform,
                        !.relosIn = c.relosIn, !.isCached = c.isCached]
      BY <1>1, <1>2, <3>2, SettledFields DEF Settled, Instance
    <3> HIDE DEF c, d
    <3> QED BY <3>1, <3>2, <3>3 DEF Instance
  <2>4. /\ i \in LosUpdate => c.status = {}
        /\ i \notin LosUpdate => /\ c.status = r.status /\ i \notin Kept /\ i \notin Relos
                                 /\ ~r.isQueuedForUpdate
                                 /\ r.status \cap {"NEW", "REACTIVATE", "REMOVE"} = {}
    BY <1>2, OnlyUpdated
  <2>5. ~Fresh(c) /\ "REMOVE" \notin c.status
    BY <2>4 DEF Fresh
  <2>6. i \in Kept => r.refCount = 0 /\ r.key # NoKey
    <3> SUFFICES ASSUME i \in Kept PROVE r.refCount = 0 /\ r.key # NoKey
      OBVIOUS
    <3>1. i \in LosDeleted /\ i \in LosUpdate
      BY <2>2, OnlyUpdated
    <3>2. "REMOVE" \in r.status
      BY <3>1, TaskedMeans
    <3> QED BY <1>1, <1>5, <3>1, <3>2 DEF Shape
  <2>7. r.refCount = 0 /\ r.key # NoKey => c.isCached
    <3> SUFFICES ASSUME r.refCount = 0, r.key # NoKey, ~r.isCached PROVE i \in Kept
      BY <1>2
    <3>1. "REMOVE" \in r.status /\ "REACTIVATE" \notin r.status
      BY <1>1 DEF Shape, Asserted, Instance
    <3>2. i \in LosUpdate
      BY <3>1, OnlyUpdated
    <3> QED BY <2>2, <3>1, <3>2, TaskedMeans
  <2>8. c.relosIn >= 0
    <3>1. CASE i \in Relos
      BY <1>2, <3>1
    <3>2. CASE i \notin Relos /\ r.isQueuedForTerraform
      <4>1. inst[i].isQueuedForTerraform /\ ~(inst[i].relosIn < 0)
        BY <1>1, <3>2 DEF Relos
      <4>2. r.relosIn \in -1..RelosDelay /\ c.relosIn = r.relosIn
        BY <1>1, <1>2, <3>2 DEF Instance
      <4> HIDE DEF c, r
      <4> QED BY <1>1, <4>1, <4>2, LosAssumption
    <3>3. CASE i \notin Relos /\ ~r.isQueuedForTerraform
      BY <1>1, <1>2, <3>3 DEF Shape
    <3> QED BY <3>1, <3>2, <3>3
  <2>9. c.squares <= MaxChanges
    BY <1>1, <1>2, <1>4, LosAssumption DEF Shape
  <2>10. r.isCached => r.refCount = 0 /\ r.status = {} /\ r.key # NoKey
    BY <1>1 DEF Shape, Asserted, Instance
  <2>11. Asserted(c)
    BY <1>1, <1>2, <2>4, <2>5, <2>6, <2>7, <2>10 DEF Asserted, Fresh, Instance
  <2>12. c.key = NoKey => c.refCount = 0 /\ c.status = {} /\ ~c.isCached /\ ~c.isQueuedForTerraform
    BY <1>1, <1>2, <2>6 DEF Shape
  <2>13. c.isCached => c.status = {}
    BY <1>2, <2>4, <2>10
  <2>14. "RECALC" \in c.status => c.isQueuedForTerraform
    BY <1>1, <1>2, <2>4 DEF Shape
  <2>15. Shape(c)
    BY <1>2, <2>5, <2>8, <2>9, <2>11, <2>12, <2>13, <2>14 DEF Shape, Fresh
  <2>16. Added(c) <=> i \in LosAdd \/ (Added(r) /\ i \notin LosRemove)
    <3>1. Added(c) <=> r.key # NoKey /\ r.refCount > 0
      BY <1>1, <1>2, <2>5, <2>6, <2>7, <2>10 DEF Added, Fresh, Instance
    <3>2. CASE i \notin LosUpdate
      <4>1. Added(r) <=> r.key # NoKey /\ r.refCount > 0
        BY <1>1, <2>4, <2>10, <3>2 DEF Added, Shape, Asserted, Instance
      <4> QED BY <3>1, <3>2, <4>1, OnlyUpdated
    <3>3. CASE i \in LosUpdate
      <4> DEFINE st == r.status
      <4>1. i \in LosAdd \/ i \in LosRemove => st # {}
        BY <3>3, TaskedMeans
      <4>2. i \in LosAdd => r.key # NoKey /\ r.refCount > 0
        BY <1>1, <3>3, <4>1, TaskedMeans DEF Shape, Asserted, Instance
      <4>3. i \in LosRemove /\ i \notin LosAdd => r.refCount = 0
        BY <1>5, <3>3, TaskedMeans
      <4>4. i \notin LosRemove /\ i \notin LosAdd => (Added(r) <=> r.key # NoKey /\ r.refCount > 0)
        BY <1>1, <2>10, <3>3, TaskedMeans DEF Added, Shape, Asserted, Instance
      <4> QED BY <1>1, <3>1, <4>2, <4>3, <4>4 DEF Instance
    <3> QED BY <3>2, <3>3
  <2>17. i \in LosAdd => View(c) = View(Recast(i))
    <3>1. Recast(i).key = r.key
          /\ Recast(i).squares = IF i \in LosRecalc THEN ground[r.key] ELSE r.squares
      BY <1>1 DEF Recast, Instance
    <3> QED BY <1>2, <3>1 DEF View
  <2>18. i \notin LosAdd => View(c) = View(r)
    BY <1>2, <1>4 DEF View
  <2>19. "RECALC" \in c.status <=> c.key # NoKey /\ i \notin LosUpdate /\ "RECALC" \in r.status
    BY <1>1, <1>2, <2>4 DEF Shape
  <2> HIDE DEF c, r, s
  <2> QED BY <1>2, <1>3, <1>6, <2>1, <2>3, <2>5, <2>8, <2>15, <2>16, <2>17, <2>18, <2>19
          DEF c, r, s
<1> QED BY <1>7, <1>8

(* Update, with the instances it evicts from the cache named. *)
LEMMA UpdateDoes ==
  ASSUME IInv, Update
  PROVE  /\ phase = "update" /\ phase' = "idle" /\ todo = {}
         /\ delayedDelete' = Surviving
         /\ UNCHANGED <<unit, los, ground, todo>>
         /\ \E evicted \in SUBSET LosCache : inst' = [i \in Instances |-> Left(i, evicted)]
<1>1. Evictions \subseteq SUBSET LosCache
  <2> DEFINE over == Cardinality(LosCache) + Cardinality(LosDeleted) - CacheSize
             n == IF over < Cardinality(LosCache) THEN over ELSE Cardinality(LosCache)
  <2>1. Evictions = IF ~Raycast \/ LosUpdate = {} \/ over <= 0 THEN {{}}
                    ELSE {E \in SUBSET LosCache : Cardinality(E) = n}
    BY DEF Evictions
  <2> HIDE DEF over, n
  <2> QED BY <2>1
<1>2. PICK evicted \in Evictions :
        inst' = [i \in Instances |->
                   IF i \in evicted \cup (LosDeleted \ Kept) THEN FreeSlot ELSE Settled(i)]
  BY DEF Update
<1>3. inst' = [i \in Instances |-> Left(i, evicted)]
  BY <1>2 DEF Left
<1> QED BY <1>1, <1>3 DEF Update, Surviving

LEMMA UpdateKeeps == ASSUME IInv, Update PROVE IInv'
<1>1. PICK evicted \in SUBSET LosCache : inst' = [i \in Instances |-> Left(i, evicted)]
  BY UpdateDoes
<1>2. /\ phase = "update" /\ phase' = "idle" /\ delayedDelete' = Surviving
      /\ UNCHANGED <<unit, los, ground, todo>>
  BY UpdateDoes
<1>3. \A i \in Instances : inst'[i] = Left(i, evicted)
  BY <1>1
<1>4. Surviving \in Places
  BY DEF IInv, Core, Places, Surviving
<1>5. left' \in [Units -> 0..Linger]
  <2>1. \A u \in Units : left[u] \in -1..Linger /\ (u \notin Expired => left[u] >= 0)
    BY LosAssumption DEF IInv, Typed, Timers, Expired
  <2>2. left' = [u \in Units |-> IF u \in Expired THEN 0 ELSE left[u]]
    BY DEF Update
  <2>3. \A u \in Units : (IF u \in Expired THEN 0 ELSE left[u]) \in 0..Linger
    BY <2>1, LosAssumption
  <2> QED BY <2>2, <2>3
<1>6. Mourned'
  BY <1>2 DEF IInv, Mourned, Surviving
<1>7. Timers'
  BY <1>3, <1>5, LeftKeeps DEF Timers
<1>8. inst' \in [Instances -> Instance]
  <2>1. \A i \in Instances : Left(i, evicted) \in Instance
    BY LeftKeeps
  <2> QED BY <1>1, <2>1
<1>9. Counted(los', delayedDelete', inst')
  <2> SUFFICES ASSUME NEW i \in Instances
               PROVE  /\ inst'[i].refCount = Cardinality(Holders(los, Surviving, i))
                      /\ Holders(los, Surviving, i) # {} => inst'[i].key # NoKey
    BY <1>2 DEF Counted
  <2>1. inst'[i].refCount = Cardinality(Holders(los, Surviving, i))
        /\ (inst'[i].refCount > 0 => inst'[i].key = Released(i).key)
    BY <1>3, LeftKeeps, ReleasedKeeps
  <2>2. Holders(los, Surviving, i) # {} => inst'[i].refCount > 0 /\ Released(i).key # NoKey
    BY <2>1, HoldersCount, ReleasedKeeps
  <2> QED BY <2>1, <2>2
<1>10. Core(los, delayedDelete, inst, Asking)'
  <2>1. \A u \in Units : los[u] = NoInstance \/ Surviving[u] = NoInstance
    BY DEF IInv, Core, Surviving
  <2>2. Looked(los', inst', Asking')
    BY <1>3, LeftKeeps DEF Looked
  <2>3. \A i \in Instances : Shape(inst'[i])
    BY <1>3, LeftKeeps
  <2>4. los' \in Places
    BY <1>2 DEF IInv, Core
  <2> QED BY <1>2, <1>4, <1>8, <1>9, <2>1, <2>2, <2>3, <2>4 DEF Core
<1> DEFINE removed(v) == {i \in LosRemove : View(Released(i)) = v}
           added(v) == {i \in LosAdd : View(Recast(i)) = v}
<1>11. losMap' = [v \in DOMAIN losMap |->
                    losMap[v] - Cardinality(removed(v)) + Cardinality(added(v))]
  BY DEF Update
<1>12. LosRemove \subseteq Instances /\ LosAdd \subseteq Instances
  BY DEF LosRemove, LosAdd, Tasked, LosUpdate, Relos
<1>13. ASSUME NEW v
       PROVE  /\ IsFiniteSet(AddedBy(inst, v)) /\ IsFiniteSet(removed(v)) /\ IsFiniteSet(added(v))
              /\ removed(v) \subseteq AddedBy(inst, v)
              /\ added(v) \cap (AddedBy(inst, v) \ removed(v)) = {}
              /\ AddedBy(inst', v) = (AddedBy(inst, v) \ removed(v)) \cup added(v)
  <2>1. AddedBy(inst, v) \subseteq Instances /\ removed(v) \subseteq Instances
        /\ added(v) \subseteq Instances
    BY <1>12 DEF AddedBy
  <2>2. \A i \in Instances : View(Released(i)) = View(inst[i])
    BY ReleasedKeeps DEF SameSight, View
  <2>3. ASSUME NEW i \in Instances
        PROVE  /\ i \in removed(v) => i \in AddedBy(inst, v)
               /\ ~(i \in added(v) /\ i \in AddedBy(inst, v) /\ i \notin removed(v))
               /\ i \in AddedBy(inst', v)
                    <=> (i \in AddedBy(inst, v) /\ i \notin removed(v)) \/ i \in added(v)
    <3> DEFINE s == inst'[i]
    <3>1. /\ Added(s) <=> i \in LosAdd \/ (Added(inst[i]) /\ i \notin LosRemove)
          /\ i \in LosAdd => View(s) = View(Recast(i))
          /\ Added(s) /\ i \notin LosAdd => View(s) = View(inst[i])
          /\ i \in LosRemove => Added(inst[i])
          /\ i \in LosAdd /\ i \notin LosRemove => ~Added(inst[i])
      BY <1>3, LeftKeeps
    <3>2. View(Released(i)) = View(inst[i])
      BY <2>2
    <3> QED BY <3>1, <3>2 DEF AddedBy
  <2>4. IsFiniteSet(AddedBy(inst, v)) /\ IsFiniteSet(removed(v)) /\ IsFiniteSet(added(v))
    BY <2>1, LosAssumption, FS_Subset
  <2>5. AddedBy(inst', v) \subseteq Instances
    BY DEF AddedBy
  <2> HIDE DEF removed, added
  <2> QED BY <2>1, <2>3, <2>4, <2>5
<1>14. ASSUME NEW v \in DOMAIN losMap
       PROVE  Cardinality(AddedBy(inst', v))
                = losMap[v] - Cardinality(removed(v)) + Cardinality(added(v))
  <2> DEFINE A == AddedBy(inst, v)
             R == removed(v)
             N == added(v)
  <2>1. /\ IsFiniteSet(A) /\ IsFiniteSet(R) /\ IsFiniteSet(N) /\ A \cap R = R
        /\ (A \ R) \cap N = {} /\ AddedBy(inst', v) = (A \ R) \cup N
    BY <1>13
  <2>2. losMap[v] = Cardinality(A)
    BY MapIsAdded DEF IInv
  <2> HIDE DEF A, R, N
  <2>3. IsFiniteSet(A \ R) /\ Cardinality(A \ R) = Cardinality(A) - Cardinality(R)
    BY <2>1, FS_Difference
  <2>4. Cardinality((A \ R) \cup N) = Cardinality(A \ R) + Cardinality(N) - Cardinality({})
    BY <2>1, <2>3, FS_Union
  <2>5. /\ Cardinality(A) \in Nat /\ Cardinality(R) \in Nat /\ Cardinality(N) \in Nat
        /\ Cardinality({}) = 0
    BY <2>1, FS_CardinalityType, FS_EmptySet
  <2> QED BY <2>1, <2>2, <2>3, <2>4, <2>5 DEF R, N
<1>15. MapIsSum'
  <2> SUFFICES ASSUME NEW v \in DOMAIN losMap'
               PROVE  losMap'[v] = Cardinality(AddedBy(inst', v))
    BY DEF MapIsSum, AddedBy
  <2>1. v \in DOMAIN losMap
    BY <1>11
  <2> QED BY <1>11, <1>14, <2>1
<1>16. losMap' \in [Keys \X (0..MaxChanges) -> Int]
  <2>1. DOMAIN losMap = Keys \X (0..MaxChanges) /\ \A v \in DOMAIN losMap : losMap[v] \in Int
    BY DEF IInv, Typed
  <2>2. \A v \in DOMAIN losMap : Cardinality(removed(v)) \in Nat /\ Cardinality(added(v)) \in Nat
    BY <1>13, FS_CardinalityType
  <2> HIDE DEF removed, added
  <2> QED BY <1>11, <2>1, <2>2
<1>17. Typed'
  <2>1. left' \in [Units -> -1..Linger]
    BY <1>5, LosAssumption
  <2> QED BY <1>2, <1>16, <2>1 DEF IInv, Typed
<1> QED BY <1>6, <1>7, <1>10, <1>15, <1>17 DEF IInv

LEMMA NextKeeps == ASSUME IInv, [Next]_vars PROVE IInv'
<1>1. CASE UNCHANGED vars
  <2> USE <1>1 DEF vars
  <2>1. Typed' /\ Timers' /\ Mourned' /\ MapIsSum'
    BY DEF IInv, Typed, Timers, Mourned, MapIsSum
  <2>2. Core(los, delayedDelete, inst, Asking)'
    BY DEF IInv, Asking
  <2> QED BY <2>1, <2>2 DEF IInv
<1>2. ASSUME NEW u \in Units,
             \/ UnitFinished(u) \/ UnitReverseBuilt(u) \/ UnitTaken(u)
             \/ UnitDestroyed(u) \/ UpdateUnit(u)
      PROVE  IInv'
  BY <1>2, UnitFinishedKeeps, RemovalKeeps, UnitDestroyedKeeps, UpdateUnitKeeps
<1>3. ASSUME NEW r \in Rects, UpdateHeightMapSynced(r) PROVE IInv'
  BY <1>3, HeightMapKeeps
<1>4. CASE NewFrame \/ BeginUpdate \/ Update
  BY <1>4, FrameKeeps, BeginKeeps, UpdateKeeps
<1> QED BY <1>1, <1>2, <1>3, <1>4 DEF Next

LEMMA InductiveInvariant == Spec => []IInv
  BY InitIInv, NextKeeps, PTL DEF Spec

--------------------------------------------------------------------------------
(* What follows from the invariant alone.                                    *)

(* The variables keep their types: no frame counter of a delay runs past its *)
(* end by more than one, and no square of the map is counted below zero.     *)
THEOREM TypeCorrect == Spec => []TypeOK
<1>1. IInv => TypeOK
  <2> SUFFICES ASSUME IInv PROVE losMap \in [Keys \X (0..MaxChanges) -> Nat]
    BY DEF IInv, Typed, Core, Places, TypeOK
  <2>1. \A v \in DOMAIN losMap : losMap[v] \in Nat
    <3> SUFFICES ASSUME NEW v \in DOMAIN losMap PROVE losMap[v] \in Nat
      OBVIOUS
    <3>1. losMap[v] = Cardinality(AddedBy(inst, v))
      BY MapIsAdded DEF IInv
    <3>2. AddedBy(inst, v) \subseteq Instances
      BY DEF AddedBy
    <3> QED BY <3>1, <3>2, LosAssumption, FS_Subset, FS_CardinalityType
  <2> QED BY <2>1 DEF IInv, Typed
<1> QED BY <1>1, InductiveInvariant, PTL

(* refCount is the number of those who look, or not long ago died looking,   *)
(* through an instance, whatever order the units are asked in.               *)
THEOREM RefsHeld == Spec => []RefsAreHeld
<1>1. IInv => RefsAreHeld
  BY DEF IInv, Core, Counted, Holders, RefsAreHeld, Users
<1> QED BY <1>1, InductiveInvariant, PTL

(* No assertion on what an instance has to be updated for can fail.          *)
THEOREM StatusAsserted == Spec => []StatusAsserts
<1>1. IInv => StatusAsserts
  BY DEF IInv, Core, Shape, Asserted, StatusAsserts
<1> QED BY <1>1, InductiveInvariant, PTL

(* What is added to the map is taken back exactly once.                      *)
THEOREM MapSums == Spec => []MapIsSum
<1>1. IInv => MapIsSum
  BY DEF IInv
<1> QED BY <1>1, InductiveInvariant, PTL

--------------------------------------------------------------------------------
(* Renewal, if CheckOverlap misses no instance the rectangle reaches.        *)

Covered == \A k \in Keys, r \in Rects : Reaches(k, r) => CheckOverlap(k, r)

Sharp(li, n) ==
  li.key # NoKey /\ "NEW" \notin li.status /\ li.squares # n => "RECALC" \in li.status
AllSharp == Raycast => \A i \in Instances : Sharp(inst[i], ground[inst[i].key])

LEMMA SharpByHeightMap ==
  ASSUME Covered, IInv, AllSharp, NEW r \in Rects, UpdateHeightMapSynced(r) PROVE AllSharp'
<1> SUFFICES ASSUME Raycast, NEW i \in Instances PROVE Sharp(inst'[i], ground'[inst'[i].key])
  BY DEF AllSharp
<1>1. /\ inst[i] \in Instance /\ Shape(inst[i]) /\ ~Fresh(inst[i])
      /\ Sharp(inst[i], ground[inst[i].key])
  BY DEF IInv, Core, Looked, Asking, AllSharp, UpdateHeightMapSynced
<1>2. inst'[i] = IF inst[i].key = NoKey \/ ~CheckOverlap(inst[i].key, r) THEN inst[i]
                 ELSE IF inst[i].isCached /\ inst[i].refCount = 0 THEN FreeSlot
                 ELSE IF "RECALC" \in inst[i].status THEN inst[i] ELSE MarkRecalc(inst[i])
  BY DEF UpdateHeightMapSynced
<1>3. CASE inst[i].key = NoKey \/ ~CheckOverlap(inst[i].key, r)
  <2>1. inst[i].key # NoKey => ground'[inst[i].key] = ground[inst[i].key]
    <3> SUFFICES ASSUME inst[i].key # NoKey PROVE ground'[inst[i].key] = ground[inst[i].key]
      OBVIOUS
    <3>1. inst[i].key \in Keys /\ ~Reaches(inst[i].key, r)
      BY <1>1, <1>3 DEF Instance, Covered
    <3> QED BY <3>1 DEF UpdateHeightMapSynced
  <2> QED BY <1>1, <1>2, <1>3, <2>1 DEF Sharp
<1>4. CASE inst'[i] = FreeSlot
  BY <1>4 DEF Sharp, FreeSlot
<1>5. CASE inst'[i] = inst[i] /\ "RECALC" \in inst[i].status
  BY <1>5 DEF Sharp
<1>6. CASE inst'[i] = MarkRecalc(inst[i]) /\ inst[i].key # NoKey
           /\ ~(inst[i].isCached /\ inst[i].refCount = 0)
  <2>1. ~inst[i].isCached
    BY <1>1, <1>6 DEF Shape, Asserted, Instance
  <2> QED BY <1>1, <1>6, <2>1, MarkKeeps DEF Sharp
<1> QED BY <1>2, <1>3, <1>4, <1>5, <1>6

LEMMA SharpByUpdate == ASSUME IInv, AllSharp, Update PROVE AllSharp'
<1> SUFFICES ASSUME Raycast, NEW i \in Instances PROVE Sharp(inst'[i], ground'[inst'[i].key])
  BY DEF AllSharp
<1>1. PICK evicted \in SUBSET LosCache : inst' = [j \in Instances |-> Left(j, evicted)]
  BY UpdateDoes
<1>2. ground' = ground /\ inst'[i] = Left(i, evicted)
  BY <1>1, UpdateDoes
<1> DEFINE r == Released(i)
           s == Left(i, evicted)
<1>3. r \in Instance /\ Shape(r) /\ SameSight(inst[i], r)
  BY ReleasedKeeps
<1>4. Sharp(r, ground[r.key])
  BY <1>3 DEF AllSharp, Sharp, SameSight
<1>5. /\ "RECALC" \in s.status <=> s.key # NoKey /\ i \notin LosUpdate /\ "RECALC" \in r.status
      /\ s.key = NoKey \/ s = Settled(i)
  BY LeftKeeps
<1>6. CASE s.key = NoKey
  BY <1>2, <1>6 DEF Sharp
<1>7. CASE s = Settled(i) /\ s.key # NoKey
  <2>1. s.key = r.key /\ s.squares = IF i \in LosRecalc THEN ground[r.key] ELSE r.squares
    BY <1>7, SettledFields
  <2>2. CASE i \in LosRecalc
    BY <1>2, <2>1, <2>2 DEF Sharp
  <2>3. CASE i \notin LosRecalc /\ i \notin LosUpdate
    <3>1. "NEW" \notin r.status
      BY <2>3, OnlyUpdated
    <3> QED BY <1>2, <1>4, <1>5, <1>7, <2>1, <2>3, <3>1 DEF Sharp
  <2>4. CASE i \notin LosRecalc /\ i \in LosUpdate
    <3>1. CASE "REMOVE" \in r.status /\ "REACTIVATE" \notin r.status
      <4>1. i \in LosDeleted
        BY <2>4, <3>1, TaskedMeans
      <4>2. i \in Kept
        BY <1>7, <4>1 DEF Left, FreeSlot
      <4>3. "RECALC" \notin r.status /\ "NEW" \notin r.status
        BY <1>3, <3>1, <4>2 DEF Kept, Shape, Asserted
      <4> QED BY <1>2, <1>4, <1>7, <2>1, <2>4, <4>3 DEF Sharp
    <3>2. CASE ~("REMOVE" \in r.status /\ "REACTIVATE" \notin r.status)
      <4>1. "NEW" \notin r.status /\ Task(r) # "RECALC"
        BY <2>4, TaskedMeans
      <4>2. "RECALC" \notin r.status
        BY <1>3, <2>4, <3>2, <4>1, TaskedMeans DEF Shape, Asserted
      <4> QED BY <1>2, <1>4, <1>7, <2>1, <2>4, <4>1, <4>2 DEF Sharp
    <3> QED BY <3>1, <3>2
  <2> QED BY <2>2, <2>3, <2>4
<1> QED BY <1>5, <1>6, <1>7

LEMMA SharpByLook ==
  ASSUME IInv, AllSharp, NEW u \in Units, NEW k \in Keys, phase = "update", u \in todo,
         unit[u] = "alive", LookFrom(u, k), ground' = ground
  PROVE  AllSharp'
<1> SUFFICES ASSUME Raycast, NEW j \in Instances PROVE Sharp(inst'[j], ground[inst'[j].key])
  BY DEF AllSharp
<1> DEFINE old == los[u]
           freed == IF old = NoInstance THEN inst ELSE [inst EXCEPT ![old] = Unref(1, @)]
<1>1. Core(los, delayedDelete, inst, todo) /\ inst \in [Instances -> Instance] /\ los \in Places
  BY DEF IInv, Asking, Core
<1>2. freed \in [Instances -> Instance] /\ \A i \in Instances : SameSight(inst[i], freed[i])
      /\ Shape(freed[i])
  <2>1. CASE old = NoInstance
    BY <1>1, <2>1 DEF SameSight, Core
  <2>2. CASE old # NoInstance
    <3> DEFINE g == [inst EXCEPT ![old] = Unref(1, @)]
    <3>1. old \in Instances /\ u \in Units /\ u \in todo
      BY <1>1, <2>2 DEF Places
    <3>2. Core([los EXCEPT ![u] = NoInstance], delayedDelete, g, todo)
          /\ \A i \in Instances : SameSight(inst[i], g[i])
      BY <1>1, <3>1, LetGo
    <3>3. freed = g
      BY <2>2
    <3> HIDE DEF g, freed
    <3> QED BY <3>2, <3>3 DEF Core
  <2> QED BY <2>1, <2>2
<1> HIDE DEF freed
<1>3. \/ inst' = inst
      \/ \E i \in Instances : \/ freed[i].key = k /\ inst' = [freed EXCEPT ![i] = Ref(@)]
                              \/ inst' = [freed EXCEPT ![i] = NewInstance(k)]
  BY DEF LookFrom, freed
<1>4. Sharp(inst[j], ground[inst[j].key])
  BY DEF AllSharp
<1>5. Sharp(freed[j], ground[freed[j].key])
  BY <1>2, <1>4 DEF SameSight, Sharp
<1>6. \/ inst'[j] = inst[j] \/ inst'[j] = freed[j]
      \/ freed[j].key = k /\ inst'[j] = Ref(freed[j])
      \/ inst'[j] = NewInstance(k)
  BY <1>2, <1>3
<1>7. CASE freed[j].key = k /\ inst'[j] = Ref(freed[j])
  <2>1. freed[j].key # NoKey
    BY <1>7, LosAssumption
  <2> QED BY <1>2, <1>5, <1>7, <2>1, RefKeeps DEF SameSight, Sharp
<1>8. CASE inst'[j] = NewInstance(k)
  BY <1>8, NewKeeps DEF Sharp
<1> QED BY <1>4, <1>5, <1>6, <1>7, <1>8

(* Squares cast over ground that has changed are marked to be cast anew.     *)
(* CheckOverlap misses instances: what it has to cover is an assumption.     *)
THEOREM RaysRenewed == Covered /\ Spec => []RaysAreRenewed
<1> SUFFICES ASSUME Covered PROVE Spec => []RaysAreRenewed
  OBVIOUS
<1>1. Init => AllSharp
  BY DEF Init, AllSharp, Sharp, FreeSlot
<1>2. ASSUME IInv, AllSharp, [Next]_vars PROVE AllSharp'
  <2>1. CASE UNCHANGED <<inst, ground>>
    BY <1>2, <2>1 DEF AllSharp
  <2>2. ASSUME ground' = ground, \A i \in Instances : SameSight(inst[i], inst'[i]) PROVE AllSharp'
    BY <1>2, <2>2 DEF AllSharp, Sharp, SameSight
  <2>3. ASSUME NEW u \in Units, u \in Asking, RemoveUnit(u), ground' = ground PROVE AllSharp'
    BY <1>2, <2>2, <2>3, RemoveKeeps
  <2>4. ASSUME NEW u \in Units,
               \/ UnitFinished(u) \/ UnitReverseBuilt(u)
               \/ UnitTaken(u) \/ UnitDestroyed(u)
        PROVE  AllSharp'
    BY <2>1, <2>3, <2>4 DEF UnitFinished, UnitReverseBuilt, UnitTaken, UnitDestroyed, Asking
  <2>5. ASSUME NEW u \in Units, UpdateUnit(u) PROVE AllSharp'
    <3>1. phase = "update" /\ u \in todo /\ u \in Asking /\ ground' = ground
      BY <2>5 DEF UpdateUnit, Asking
    <3>2. CASE UNCHANGED <<los, inst>>
      BY <2>1, <3>1, <3>2
    <3>3. CASE RemoveUnit(u)
      BY <2>3, <3>1, <3>3
    <3>4. ASSUME unit[u] = "alive", NEW k \in Keys, LookFrom(u, k) PROVE AllSharp'
      BY <1>2, <3>1, <3>4, SharpByLook
    <3> QED BY <2>5, <3>2, <3>3, <3>4 DEF UpdateUnit
  <2>6. ASSUME NEW r \in Rects, UpdateHeightMapSynced(r) PROVE AllSharp'
    BY <1>2, <2>6, SharpByHeightMap
  <2>7. ASSUME NewFrame PROVE AllSharp'
    <3>1. ASSUME NEW i \in Instances PROVE SameSight(inst[i], inst'[i])
      <4>1. /\ inst[i] \in Instance
            /\ inst'[i] = inst[i] \/ inst'[i] = [inst[i] EXCEPT !.relosIn = @ - 1]
        BY <1>2, <2>7 DEF IInv, Core, NewFrame
      <4> QED BY <4>1 DEF SameSight, Instance, Added
    <3> QED BY <2>2, <2>7, <3>1 DEF NewFrame
  <2>8. ASSUME BeginUpdate PROVE AllSharp'
    BY <2>1, <2>8 DEF BeginUpdate
  <2>9. ASSUME Update PROVE AllSharp'
    BY <1>2, <2>9, SharpByUpdate
  <2>10. CASE UNCHANGED vars
    BY <2>1, <2>10 DEF vars
  <2> QED BY <1>2, <2>4, <2>5, <2>6, <2>7, <2>8, <2>9, <2>10 DEF Next
<1>3. IInv /\ AllSharp => RaysAreRenewed
  BY DEF IInv, Core, Shape, AllSharp, Sharp, RaysAreRenewed
<1> QED BY <1>1, <1>2, <1>3, InductiveInvariant, PTL DEF Spec

--------------------------------------------------------------------------------
(* LosType implements Sight.                                                 *)

Stands == [u \in Units |-> KeyOf(los[u])]
Afterglow == [u \in Units |-> KeyOf(delayedDelete[u])]
Seen == {k \in Keys : \E n \in 0..MaxChanges : losMap[<<k, n>>] > 0}

LEMMA KeyType ==
  ASSUME IInv
  PROVE  /\ \A i \in Instances \cup {NoInstance} : KeyOf(i) \in Keys \cup {NoKey}
         /\ \A u \in Units : /\ los[u] \in Instances \cup {NoInstance}
                             /\ delayedDelete[u] \in Instances \cup {NoInstance}
                             /\ KeyOf(los[u]) = NoKey <=> los[u] = NoInstance
                             /\ KeyOf(delayedDelete[u]) = NoKey <=> delayedDelete[u] = NoInstance
<1>1. \A i \in Instances : inst[i] \in Instance
  BY DEF IInv, Core
<1>2. \A i \in Instances \cup {NoInstance} : KeyOf(i) \in Keys \cup {NoKey}
  BY <1>1 DEF KeyOf, Instance
<1>3. ASSUME NEW u \in Units
      PROVE  /\ los[u] \in Instances \cup {NoInstance}
             /\ delayedDelete[u] \in Instances \cup {NoInstance}
  BY DEF IInv, Core, Places
<1>4. ASSUME NEW u \in Units, NEW i \in Instances, los[u] = i \/ delayedDelete[u] = i
      PROVE  inst[i].key # NoKey
  <2>1. u \in Holders(los, delayedDelete, i)
    BY <1>4 DEF Holders
  <2> QED BY <2>1 DEF IInv, Core, Counted
<1> QED BY <1>2, <1>3, <1>4, LosAssumption DEF KeyOf

(* The map shows the keys of the instances it has added. *)
LEMMA SeenIsAdded ==
  ASSUME IInv, NEW k \in Keys
  PROVE  k \in Seen <=> \E i \in Instances : Added(inst[i]) /\ inst[i].key = k
<1>1. ASSUME NEW n \in 0..MaxChanges
      PROVE  losMap[<<k, n>>] > 0 <=> AddedBy(inst, <<k, n>>) # {}
  <2> DEFINE A == AddedBy(inst, <<k, n>>)
  <2>1. losMap[<<k, n>>] = Cardinality(A)
    BY MapIsAdded DEF IInv, Typed
  <2>2. IsFiniteSet(A)
    <3>1. A \subseteq Instances
      BY DEF AddedBy
    <3> QED BY <3>1, LosAssumption, FS_Subset
  <2>3. Cardinality(A) \in Nat /\ (Cardinality(A) = 0 <=> A = {})
    BY <2>2, FS_CardinalityType, FS_EmptySet
  <2> HIDE DEF A
  <2>4. losMap[<<k, n>>] > 0 <=> A # {}
    BY <2>1, <2>3
  <2> QED BY <2>4 DEF A
<1>2. \A i \in Instances : inst[i].squares \in 0..MaxChanges
  BY LosAssumption DEF IInv, Core, Shape, Instance
<1> QED BY <1>1, <1>2 DEF Seen, AddedBy, View

LEMMA LookStep ==
  ASSUME IInv, IInv', NEW u \in Units, UNCHANGED <<delayedDelete, left, losMap>>,
         \A v \in Units : v # u => los'[v] = los[v],
         \A i \in Instances : inst[i].key # NoKey => inst'[i].key = inst[i].key
  PROVE  Promise!Look(u)
<1>1. KeyOf(los[u])' \in Keys \cup {NoKey}
  <2>1. los'[u] \in Instances \cup {NoInstance}
    BY DEF IInv, Core, Places
  <2>2. \A i \in Instances : inst'[i].key \in Keys \cup {NoKey}
    BY DEF IInv, Core, Instance
  <2> QED BY <2>1, <2>2 DEF KeyOf
<1>2. ASSUME NEW i \in Instances \cup {NoInstance}, KeyOf(i) # NoKey PROVE KeyOf(i)' = KeyOf(i)
  BY <1>2 DEF KeyOf
<1>3. KeyOf(NoInstance)' = NoKey /\ KeyOf(NoInstance) = NoKey
  BY DEF KeyOf
<1>4. ASSUME NEW v \in Units, v # u PROVE KeyOf(los[v])' = KeyOf(los[v])
  <2>1. CASE los[v] = NoInstance
    BY <1>3, <1>4, <2>1 DEF KeyOf
  <2>2. CASE los[v] # NoInstance
    <3>1. inst[los[v]].key # NoKey /\ los[v] \in Instances
      BY <2>2, KeyType DEF KeyOf
    <3> QED BY <1>4, <2>2, <3>1 DEF KeyOf
  <2> QED BY <2>1, <2>2
<1>5. ASSUME NEW v \in Units PROVE KeyOf(delayedDelete[v])' = KeyOf(delayedDelete[v])
  <2>1. CASE delayedDelete[v] = NoInstance
    BY <2>1 DEF KeyOf
  <2>2. CASE delayedDelete[v] # NoInstance
    <3>1. inst[delayedDelete[v]].key # NoKey /\ delayedDelete[v] \in Instances
      BY <2>2, KeyType DEF KeyOf
    <3> QED BY <2>2, <3>1 DEF KeyOf
  <2> QED BY <2>1, <2>2
<1>6. Stands' = [Stands EXCEPT ![u] = KeyOf(los[u])']
  BY <1>4 DEF Stands
<1>7. Afterglow' = Afterglow /\ Seen' = Seen
  BY <1>5 DEF Afterglow, Seen
<1> QED BY <1>1, <1>6, <1>7 DEF Promise!Look, Stands, Afterglow, Seen

LEMMA SightUnchanged ==
  ASSUME UNCHANGED <<left, losMap>>,
         \A u \in Units : KeyOf(los[u])' = KeyOf(los[u])
                          /\ KeyOf(delayedDelete[u])' = KeyOf(delayedDelete[u])
  PROVE  UNCHANGED Promise!vars
  BY DEF Promise!vars

LEMMA DestroyedStep ==
  ASSUME IInv, NEW u \in Units, UnitDestroyed(u)
  PROVE  Promise!Die(u) \/ UNCHANGED Promise!vars
<1>1. /\ los \in Places /\ delayedDelete \in Places /\ delayedDelete[u] = NoInstance
      /\ los' = [los EXCEPT ![u] = NoInstance] /\ inst' = inst /\ losMap' = losMap
  BY DEF UnitDestroyed, IInv, Core, Mourned
<1>2. \A i : KeyOf(i)' = IF i' = NoInstance THEN NoKey ELSE inst[i'].key
  BY <1>1 DEF KeyOf
<1>3. CASE los[u] = NoInstance
  <2>1. los' = los /\ delayedDelete' = delayedDelete /\ left' = left
    BY <1>1, <1>3 DEF UnitDestroyed, Places
  <2> QED BY <1>1, <2>1, SightUnchanged DEF KeyOf
<1>4. CASE los[u] # NoInstance
  <2>1. /\ delayedDelete' = [delayedDelete EXCEPT ![u] = los[u]]
        /\ left' = [left EXCEPT ![u] = Linger]
    BY <1>4 DEF UnitDestroyed
  <2>2. Stands' = [Stands EXCEPT ![u] = NoKey]
    BY <1>1 DEF Stands, KeyOf, Places
  <2>3. Afterglow' = [Afterglow EXCEPT ![u] = Stands[u]]
    BY <1>1, <2>1 DEF Afterglow, Stands, KeyOf, Places
  <2>4. Stands[u] # NoKey
    BY <1>4, KeyType DEF Stands
  <2>5. Seen' = Seen
    BY <1>1 DEF Seen
  <2> QED BY <2>1, <2>2, <2>3, <2>4, <2>5 DEF Promise!Die, Stands, Afterglow, Seen
<1> QED BY <1>3, <1>4

LEMMA FrameStep == ASSUME IInv, NewFrame PROVE Promise!NewFrame
<1>1. UNCHANGED <<los, delayedDelete, losMap>>
  BY DEF NewFrame
<1>2. \A i \in Instances : inst'[i].key = inst[i].key
  <2>1. \A i \in Instances : inst[i] \in Instance
        /\ (inst'[i] = inst[i] \/ inst'[i] = [inst[i] EXCEPT !.relosIn = @ - 1])
    BY DEF IInv, Core, NewFrame
  <2> QED BY <2>1 DEF Instance
<1>3. \A u \in Units : KeyOf(los[u])' = KeyOf(los[u])
                       /\ KeyOf(delayedDelete[u])' = KeyOf(delayedDelete[u])
  BY <1>1, <1>2, KeyType DEF KeyOf
<1>4. Stands' = Stands /\ Afterglow' = Afterglow /\ Seen' = Seen
  BY <1>1, <1>3 DEF Stands, Afterglow, Seen
<1>5. left' = [u \in Units |-> IF Afterglow[u] = NoKey THEN left[u] ELSE left[u] - 1]
  BY KeyType DEF NewFrame, Afterglow
<1> QED BY <1>4, <1>5 DEF Promise!NewFrame, Stands, Afterglow, Seen

LEMMA RefreshStep == ASSUME IInv, IInv', Update PROVE Promise!Refresh
<1>1. PICK evicted \in SUBSET LosCache : inst' = [i \in Instances |-> Left(i, evicted)]
  BY UpdateDoes
<1>2. delayedDelete' = Surviving /\ los' = los
  BY UpdateDoes
<1>3. ASSUME NEW i \in Instances, NEW u \in Units, los[u] = i \/ Surviving[u] = i
      PROVE  inst'[i].key = inst[i].key /\ inst'[i].refCount > 0
  <2>1. u \in Holders(los, Surviving, i)
    BY <1>3 DEF Holders
  <2>2. Released(i).refCount > 0 /\ Released(i).key = inst[i].key
    BY <2>1, HoldersCount, ReleasedKeeps DEF SameSight
  <2> QED BY <1>1, <2>2, LeftKeeps
<1>4. ASSUME NEW u \in Units
      PROVE  KeyOf(los[u])' = KeyOf(los[u]) /\ KeyOf(delayedDelete[u])' = KeyOf(Surviving[u])
  <2>1. los[u] \in Instances \cup {NoInstance} /\ Surviving[u] \in Instances \cup {NoInstance}
    BY KeyType DEF Surviving
  <2> QED BY <1>2, <1>3, <2>1 DEF KeyOf
<1>5. Promise!Faded = Expired
  BY KeyType DEF Promise!Faded, Expired
<1>6. Stands' = Stands
  BY <1>4 DEF Stands
<1>7. Afterglow' = [u \in Units |-> IF u \in Expired THEN NoKey ELSE Afterglow[u]]
  <2>1. \A u \in Units :
          KeyOf(Surviving[u]) = IF u \in Expired THEN NoKey ELSE KeyOf(delayedDelete[u])
    BY DEF Surviving, KeyOf
  <2> QED BY <1>4, <2>1 DEF Afterglow
<1>8. left' = [u \in Units |-> IF u \in Expired THEN 0 ELSE left[u]]
  BY DEF Update
<1>9. \A i \in Instances : Added(inst'[i]) <=> inst'[i].refCount > 0
  <2> SUFFICES ASSUME NEW i \in Instances PROVE Added(inst'[i]) <=> inst'[i].refCount > 0
    OBVIOUS
  <2>1. inst'[i] \in Instance /\ Shape(inst'[i]) /\ ~Fresh(inst'[i])
    BY <1>1, LeftKeeps
  <2>2. ~inst'[i].isQueuedForUpdate
    BY <1>1, SettledFields DEF Left, FreeSlot
  <2> QED BY <2>1, <2>2 DEF Shape, Asserted, Added, Fresh, Instance
<1>10. ASSUME NEW k \in Keys
       PROVE  k \in Seen' <=> \E u \in Units : k \in {Stands[u], Afterglow'[u]}
  <2>1. k \in Seen' <=> \E i \in Instances : Added(inst'[i]) /\ inst'[i].key = k
    <3>1. ASSUME NEW n \in 0..MaxChanges
          PROVE  losMap'[<<k, n>>] > 0 <=> AddedBy(inst', <<k, n>>) # {}
      <4> DEFINE A == AddedBy(inst', <<k, n>>)
      <4>1. losMap'[<<k, n>>] = Cardinality(A)
        <5>1. <<k, n>> \in DOMAIN losMap'
          BY DEF IInv, Typed
        <5> QED BY <5>1 DEF IInv, MapIsSum, AddedBy
      <4>2. IsFiniteSet(A)
        <5>1. A \subseteq Instances
          BY DEF AddedBy
        <5> QED BY <5>1, LosAssumption, FS_Subset
      <4>3. Cardinality(A) \in Nat /\ (Cardinality(A) = 0 <=> A = {})
        BY <4>2, FS_CardinalityType, FS_EmptySet
      <4> HIDE DEF A
      <4>4. losMap'[<<k, n>>] > 0 <=> A # {}
        BY <4>1, <4>3
      <4> QED BY <4>4 DEF A
    <3>2. \A i \in Instances : inst'[i].squares \in 0..MaxChanges
      BY LosAssumption DEF IInv, Core, Shape, Instance
    <3> QED BY <3>1, <3>2 DEF Seen, AddedBy, View
  <2>2. \A u \in Units : /\ Stands[u] = k <=> los[u] # NoInstance /\ inst'[los[u]].key = k
                         /\ Afterglow'[u] = k <=> /\ delayedDelete'[u] # NoInstance
                                                  /\ inst'[delayedDelete'[u]].key = k
    <3>1. k # NoKey
      BY LosAssumption
    <3> QED BY <1>2, <1>4, <3>1 DEF Stands, Afterglow, KeyOf
  <2>3. ASSUME NEW i \in Instances
        PROVE  inst'[i].refCount > 0
                 <=> \E u \in Units : los[u] = i \/ delayedDelete'[u] = i
    <3>1. inst'[i].refCount = Cardinality(Holders(los, delayedDelete', i))
      BY <1>2 DEF IInv, Core, Counted
    <3> DEFINE H == Holders(los, delayedDelete', i)
    <3>2. Cardinality(H) \in Nat /\ (Cardinality(H) = 0 <=> H = {})
      BY HoldersCount
    <3> HIDE DEF H
    <3>3. inst'[i].refCount > 0 <=> H # {}
      BY <3>1, <3>2 DEF H
    <3> QED BY <3>3 DEF H, Holders
  <2>4. \A u \in Units : los[u] \in Instances \cup {NoInstance}
                         /\ delayedDelete'[u] \in Instances \cup {NoInstance}
    BY <1>2, KeyType DEF Surviving
  <2> QED BY <1>9, <2>1, <2>2, <2>3, <2>4, LosAssumption
<1>11. Seen' = {k \in Keys : \E u \in Units : k \in {Stands[u], Afterglow'[u]}}
  BY <1>10 DEF Seen
<1> QED BY <1>5, <1>6, <1>7, <1>8, <1>11 DEF Promise!Refresh, Stands, Afterglow, Seen

LEMMA SightInit == Init => Promise!Init
<1> SUFFICES ASSUME Init PROVE Promise!Init
  OBVIOUS
<1>1. \A u \in Units : KeyOf(los[u]) = NoKey /\ KeyOf(delayedDelete[u]) = NoKey
  BY DEF Init, KeyOf
<1>2. Seen = {}
  <2>1. \A k \in Keys, n \in 0..MaxChanges : losMap[<<k, n>>] = 0
    BY DEF Init
  <2>2. \A k \in Keys : ~ \E n \in 0..MaxChanges : losMap[<<k, n>>] > 0
    <3> SUFFICES ASSUME NEW k \in Keys, NEW n \in 0..MaxChanges PROVE ~(losMap[<<k, n>>] > 0)
      OBVIOUS
    <3>1. losMap[<<k, n>>] = 0
      BY <2>1
    <3> QED BY <3>1
  <2> QED BY <2>2, Zenon DEF Seen
<1> QED BY <1>1, <1>2 DEF Init, Promise!Init, Seen

LEMMA UnitStep ==
  ASSUME IInv, IInv', NEW u \in Units, UnitReverseBuilt(u) \/ UnitTaken(u) \/ UpdateUnit(u)
  PROVE  Promise!Look(u)
<1>1. UNCHANGED <<delayedDelete, left, losMap>>
  BY DEF UnitReverseBuilt, UnitTaken, UpdateUnit
<1>2. CASE UpdateUnit(u)
  <2>1. \A i \in Instances : inst[i].key # NoKey => inst'[i].key = inst[i].key
    BY <1>2, UpdateUnitDoes
  <2>2. \A v \in Units : v # u => los'[v] = los[v]
    BY <1>2, UpdateUnitDoes DEF IInv, Core, Places
  <2> QED BY <1>1, <2>1, <2>2, LookStep
<1>3. CASE UnitReverseBuilt(u) \/ UnitTaken(u)
  <2>1. u \in Asking /\ RemoveUnit(u)
    BY <1>3 DEF UnitReverseBuilt, UnitTaken, Asking
  <2>2. /\ \A i \in Instances : SameSight(inst[i], inst'[i])
        /\ los' = [los EXCEPT ![u] = NoInstance]
    BY <2>1, RemoveKeeps
  <2>3. \A v \in Units : v # u => los'[v] = los[v]
    BY <2>2 DEF IInv, Core, Places
  <2> QED BY <1>1, <2>2, <2>3, LookStep DEF SameSight
<1> QED BY <1>2, <1>3

(* An instance that the ground change frees is one no unit uses. *)
LEMMA HeightMapStep ==
  ASSUME IInv, NEW r \in Rects, UpdateHeightMapSynced(r)
  PROVE  UNCHANGED Promise!vars
<1>1. UNCHANGED <<los, delayedDelete, left, losMap>>
  BY DEF UpdateHeightMapSynced
<1>2. \A i \in Instances : inst[i].refCount > 0 => inst'[i].key = inst[i].key
  BY HeightMapKeeps
<1>3. ASSUME NEW i \in Instances, NEW u \in Units, los[u] = i \/ delayedDelete[u] = i
      PROVE  inst[i].refCount > 0
  <2> DEFINE H == Holders(los, delayedDelete, i)
  <2>1. inst[i].refCount = Cardinality(H)
    BY DEF IInv, Core, Counted
  <2>2. H # {}
    BY <1>3 DEF Holders
  <2>3. Cardinality(H) \in Nat /\ (Cardinality(H) = 0 <=> H = {})
    BY HoldersCount
  <2> HIDE DEF H
  <2> QED BY <2>1, <2>2, <2>3
<1>4. \A u \in Units : KeyOf(los[u])' = KeyOf(los[u])
                       /\ KeyOf(delayedDelete[u])' = KeyOf(delayedDelete[u])
  BY <1>1, <1>2, <1>3, KeyType DEF KeyOf
<1> QED BY <1>1, <1>4, SightUnchanged

LEMMA SightNext ==
  ASSUME IInv, IInv', [Next]_vars
  PROVE  [Promise!Next]_(Promise!vars)
<1>1. ASSUME UNCHANGED <<los, delayedDelete, inst, left, losMap>> PROVE UNCHANGED Promise!vars
  BY <1>1, SightUnchanged DEF KeyOf
<1>2. ASSUME NEW u \in Units, UnitFinished(u) PROVE UNCHANGED Promise!vars
  BY <1>1, <1>2 DEF UnitFinished
<1>3. ASSUME NEW u \in Units, UnitReverseBuilt(u) \/ UnitTaken(u) \/ UpdateUnit(u)
      PROVE  Promise!Next
  BY <1>3, UnitStep DEF Promise!Next
<1>4. ASSUME NEW u \in Units, UnitDestroyed(u) PROVE Promise!Next \/ UNCHANGED Promise!vars
  BY <1>4, DestroyedStep DEF Promise!Next
<1>5. ASSUME NEW r \in Rects, UpdateHeightMapSynced(r) PROVE UNCHANGED Promise!vars
  BY <1>5, HeightMapStep
<1>6. ASSUME NewFrame PROVE Promise!Next
  BY <1>6, FrameStep DEF Promise!Next
<1>7. ASSUME BeginUpdate PROVE UNCHANGED Promise!vars
  BY <1>1, <1>7 DEF BeginUpdate
<1>8. ASSUME Update PROVE Promise!Next
  BY <1>8, RefreshStep DEF Promise!Next
<1>9. CASE UNCHANGED vars
  BY <1>1, <1>9 DEF vars
<1> QED BY <1>2, <1>3, <1>4, <1>5, <1>6, <1>7, <1>8, <1>9 DEF Next

(* Whatever is shared, cached, queued or cancelled on the way, after every   *)
(* update the map shows what the units see from where they were last looked  *)
(* at, and what units that died up to Linger frames ago saw: ILosType keeps  *)
(* the promise of Sight for any number of units, instances and cache slots.  *)
THEOREM SightImplemented == Spec => IsSight
  BY InductiveInvariant, SightInit, SightNext, PTL DEF Spec, IsSight, Promise!Spec
================================================================================
