--------------------------- MODULE ThreadPoolProofs ---------------------------
(***************************************************************************)
(* Theorems about ThreadPool, for any number of workers, groups and nested *)
(* calls, when no worker looks at a group that is being written (~Torn):   *)
(* its type, and that a parallel loop is complete when its call returns.   *)
(*                                                                         *)
(* The argument: a group is in use just while a call of for_mt holds it,   *)
(* and one call holds it (Owners, OneOwner, Held).  While it is being      *)
(* enqueued nobody runs in it (Fresh).  From then on the indexes begun are *)
(* those of the first ctr numbers, and remainingTasks counts the numbers   *)
(* that are still to be taken or whose function runs (UnderWay): at zero,  *)
(* all have been taken and none runs.                                      *)
(***************************************************************************)
EXTENDS ThreadPool, FiniteSetTheorems, SequenceTheorems, TLAPS

--------------------------------------------------------------------------------
(* The indexes of a loop.                                                    *)

Steps == [from : Int, to : Int, step : Nat \ {0}]
Long(l) == l \in Steps /\ l.to - l.from >= 0

(* What rounding up gives.                                                   *)
LEMMA CeilBounds ==
  ASSUME NEW d \in Nat, NEW s \in Nat \ {0}
  PROVE  LET q == (d + s - 1) \div s IN q \in Nat /\ s * q <= d + s - 1 /\ d + s - 1 < s * q + s
<1> DEFINE q == (d + s - 1) \div s
           r == (d + s - 1) % s
<1>1. q \in Int /\ r \in 0..(s - 1) /\ d + s - 1 = s * q + r
  OBVIOUS
<1>2. q \in Nat
  OBVIOUS
<1> QED BY <1>1, <1>2

(* Multiples are apart by at least a step.                                   *)
LEMMA Monotone ==
  ASSUME NEW s \in Nat \ {0}, NEW j \in Int, NEW k \in Int, j < k
  PROVE  s * j + s <= s * k
<1> DEFINE d == k - j - 1
<1>1. d \in Nat /\ k = j + 1 + d
  OBVIOUS
<1> HIDE DEF d
<1>2. s * k = s * j + s + s * d
  BY <1>1
<1>3. s * d >= 0
  BY <1>1
<1>4. s * d \in Int /\ s * j \in Int /\ s * k \in Int
  BY <1>1
<1> QED BY <1>2, <1>3, <1>4

(* A loop has a number of tasks.                                             *)
LEMMA TasksType ==
  ASSUME NEW l, Long(l) PROVE NumTasks(l) \in Nat
<1> DEFINE d == l.to - l.from
<1>1. d \in Nat /\ l.step \in Nat \ {0}
  BY DEF Long, Steps
<1>2. (d + l.step - 1) \div l.step \in Nat
  BY <1>1, CeilBounds
<1> QED BY <1>1, <1>2 DEF NumTasks

(* An index is before the end of a loop just if its number is below the      *)
(* number of tasks: what ExecuteStep asks against what Enqueue counted.      *)
LEMMA BeforeEnd ==
  ASSUME NEW l, Long(l), NEW k \in Nat
  PROVE  /\ l.from + l.step * k \in Int
         /\ l.from + l.step * k < l.to <=> k < NumTasks(l)
<1> DEFINE d == l.to - l.from
           q == (d + l.step - 1) \div l.step
<1>1. d \in Nat /\ l.step \in Nat \ {0} /\ l.from \in Int /\ l.to \in Int
  BY DEF Long, Steps
<1>2. l.step * k \in Int
  BY <1>1
<1>3. CASE l.step = 1
  BY <1>1, <1>3 DEF NumTasks
<1>4. CASE l.step # 1
  <2>1. NumTasks(l) = q
    BY <1>4 DEF NumTasks
  <2>2. q \in Nat /\ l.step * q <= d + l.step - 1 /\ d + l.step - 1 < l.step * q + l.step
    BY <1>1, CeilBounds
  <2>3. l.step * q \in Int
    BY <1>1, <2>2
  <2> HIDE DEF q
  <2>4. CASE k < q
    <3>1. l.step * k + l.step <= l.step * q
      BY <1>1, <2>2, <2>4, Monotone
    <3>2. l.step * k < d
      BY <1>1, <1>2, <2>2, <2>3, <3>1
    <3> HIDE DEF d
    <3>3. l.from + l.step * k < l.to <=> l.step * k < l.to - l.from
      BY <1>1, <1>2
    <3> QED BY <2>1, <2>4, <3>2, <3>3, <1>1, <1>2 DEF d
  <2>5. CASE k >= q
    <3>1. l.step * q <= l.step * k
      <4>1. CASE k = q
        BY <4>1, <2>3
      <4>2. CASE k > q
        BY <1>1, <1>2, <2>2, <2>3, <4>2, Monotone
      <4> QED BY <2>5, <2>2, <4>1, <4>2
    <3>2. ~(l.step * k < d)
      BY <1>1, <1>2, <2>2, <2>3, <3>1
    <3>3. l.from + l.step * k < l.to <=> l.step * k < l.to - l.from
      BY <1>1, <1>2
    <3> QED BY <2>1, <2>5, <2>2, <3>2, <3>3, <1>1, <1>2
  <2> QED BY <2>2, <2>4, <2>5
<1> QED BY <1>1, <1>2, <1>3, <1>4

(* Different numbers are different indexes.                                  *)
LEMMA Distinct ==
  ASSUME NEW l, Long(l), NEW j \in Nat, NEW k \in Nat, j # k
  PROVE  l.from + l.step * j # l.from + l.step * k
<1>1. l.step \in Nat \ {0} /\ l.from \in Int
  BY DEF Long, Steps
<1>2. l.step * j \in Int /\ l.step * k \in Int
  BY <1>1
<1>3. l.step * j # l.step * k
  <2>1. CASE j < k
    <3>1. l.step * j + l.step <= l.step * k
      BY <1>1, <2>1, Monotone
    <3> QED BY <1>1, <1>2, <3>1
  <2>2. CASE k < j
    <3>1. l.step * k + l.step <= l.step * j
      BY <1>1, <2>2, Monotone
    <3> QED BY <1>1, <1>2, <3>1
  <2> QED BY <2>1, <2>2
<1> DEFINE x == l.step * j
           y == l.step * k
<1>4. x \in Int /\ y \in Int /\ x # y
  BY <1>2, <1>3
<1> HIDE DEF x, y
<1>5. l.from + x # l.from + y
  BY <1>1, <1>4
<1> QED BY <1>5 DEF x, y

Begun(l, c) == {l.from + l.step * k : k \in 0..(c - 1)}

(* The first numbers are indexes of the loop, and all of them are all.       *)
LEMMA BegunIndexes ==
  ASSUME NEW l, Long(l), NEW c \in 0..NumTasks(l)
  PROVE  /\ Begun(l, c) \subseteq Indexes(l)
         /\ c = NumTasks(l) => Begun(l, c) = Indexes(l)
<1>1. l.step \in Nat \ {0} /\ l.from \in Int /\ l.to \in Int /\ NumTasks(l) \in Nat
  BY TasksType DEF Long, Steps
<1>2. ASSUME NEW k \in 0..(c - 1) PROVE l.from + l.step * k \in Indexes(l)
  <2>1. k \in Nat /\ k < NumTasks(l)
    BY <1>1
  <2>2. l.from + l.step * k < l.to
    BY <2>1, BeforeEnd
  <2>3. l.step * k \in Nat
    BY <1>1, <2>1
  <2>4. (l.step * k) % l.step = 0
    BY <1>1, <2>1
  <2>5. (l.from + l.step * k) - l.from = l.step * k
    BY <1>1, <2>3
  <2> QED BY <1>1, <2>2, <2>3, <2>4, <2>5 DEF Indexes
<1>3. ASSUME NEW i \in Indexes(l) PROVE \E k \in 0..(NumTasks(l) - 1) : i = l.from + l.step * k
  <2>1. i \in Int /\ l.from <= i /\ i < l.to /\ (i - l.from) % l.step = 0
    BY <1>1, <1>3 DEF Indexes
  <2> DEFINE k == (i - l.from) \div l.step
  <2>2. k \in Nat /\ i - l.from = l.step * k
    BY <1>1, <2>1
  <2> HIDE DEF k
  <2>3. i = l.from + l.step * k
    BY <1>1, <2>1, <2>2
  <2>4. k < NumTasks(l)
    BY <2>1, <2>2, <2>3, BeforeEnd
  <2> QED BY <1>1, <2>2, <2>3, <2>4
<1> QED BY <1>2, <1>3 DEF Begun
--------------------------------------------------------------------------------
(* The stacks of the threads: what replacing, popping and pushing a frame    *)
(* does to them.                                                             *)

Stacked == stack \in [Threads -> Seq(Frame)]
Depth(t) == 1..Len(stack[t])

(* A sequence without its last element.                                      *)
LEMMA Pops ==
  ASSUME NEW S, NEW s \in Seq(S), s # <<>>
  PROVE  /\ Len(s) \in Nat \ {0} /\ s[Len(s)] \in S
         /\ SubSeq(s, 1, Len(s) - 1) \in Seq(S)
         /\ Len(SubSeq(s, 1, Len(s) - 1)) = Len(s) - 1
         /\ \A n \in 1..(Len(s) - 1) : SubSeq(s, 1, Len(s) - 1)[n] = s[n]
<1>1. Len(s) \in Nat \ {0}
  BY EmptySeq
<1>2. \A n \in 1..Len(s) : s[n] \in S
  BY ElementOfSeq
<1> DEFINE m == Len(s) - 1
           p == SubSeq(s, 1, m)
<1>3. m \in Nat /\ \A n \in 1..m : s[n] \in S
  BY <1>1, <1>2
<1> HIDE DEF m
<1>4. p \in Seq(S) /\ Len(p) = (IF 1 <= m THEN m - 1 + 1 ELSE 0)
      /\ \A n \in 1..(m - 1 + 1) : p[n] = s[1 + n - 1]
  BY <1>3, SubSeqProperties
<1> HIDE DEF p
<1>5. Len(p) = m /\ \A n \in 1..m : p[n] = s[n]
  BY <1>3, <1>4
<1> QED BY <1>1, <1>2, <1>4, <1>5 DEF m, p

(* A sequence with two elements appended.                                    *)
LEMMA Pairs ==
  ASSUME NEW S, NEW b \in Seq(S), NEW e \in S, NEW f \in S
  PROVE  /\ b \o <<e, f>> \in Seq(S) /\ Len(b \o <<e, f>>) = Len(b) + 2
         /\ \A n \in 1..Len(b) : (b \o <<e, f>>)[n] = b[n]
         /\ (b \o <<e, f>>)[Len(b) + 1] = e /\ (b \o <<e, f>>)[Len(b) + 2] = f
<1> DEFINE d == <<e, f>>
           c == b \o d
<1>1. d \in Seq(S) /\ Len(d) = 2 /\ d[1] = e /\ d[2] = f
  OBVIOUS
<1>2. Len(b) \in Nat
  BY LenProperties
<1> HIDE DEF d
<1>3. /\ c \in Seq(S) /\ Len(c) = Len(b) + Len(d)
      /\ \A n \in 1..(Len(b) + Len(d)) : c[n] = IF n <= Len(b) THEN b[n] ELSE d[n - Len(b)]
  BY <1>1, ConcatProperties
<1> HIDE DEF c
<1> DEFINE m == Len(b)
<1>4. m \in Nat /\ Len(c) = m + 2 /\ \A n \in 1..(m + 2) : c[n] = IF n <= m THEN b[n] ELSE d[n - m]
  BY <1>1, <1>2, <1>3
<1> HIDE DEF m
<1>5. (\A n \in 1..m : c[n] = b[n]) /\ c[m + 1] = d[1] /\ c[m + 2] = d[2]
  BY <1>4
<1> QED BY <1>1, <1>3, <1>4, <1>5 DEF c, d, m

(* The innermost frame, and those below it.                                  *)
LEMMA TopIs ==
  ASSUME Stacked, NEW t \in Threads, Busy(t)
  PROVE  /\ Len(stack[t]) \in Depth(t) /\ Len(stack[t]) \in Nat \ {0}
         /\ Top(t) \in Frame /\ Top(t) = stack[t][Len(stack[t])]
         /\ Below(t) \in Seq(Frame) /\ Len(Below(t)) = Len(stack[t]) - 1
         /\ \A n \in 1..(Len(stack[t]) - 1) : Below(t)[n] = stack[t][n]
<1>1. stack[t] \in Seq(Frame) /\ stack[t] # <<>>
  BY DEF Stacked, Busy
<1>2. Len(stack[t]) \in Depth(t)
  BY <1>1, Pops DEF Depth
<1> QED BY <1>1, <1>2, Pops DEF Top, Below

(* The frames after the innermost is replaced,                               *)
LEMMA BecomeDoes ==
  ASSUME Stacked, NEW t \in Threads, Busy(t), NEW f \in Frame, Become(t, f)
  PROVE  /\ Stacked' /\ \A s \in Threads : Len(stack'[s]) = Len(stack[s])
         /\ \A s \in Threads : \A n \in Depth(s) :
              stack'[s][n] = IF s = t /\ n = Len(stack[t]) THEN f ELSE stack[s][n]
<1> DEFINE b == Below(t)
<1>1. stack' = [stack EXCEPT ![t] = Append(b, f)] /\ stack \in [Threads -> Seq(Frame)]
  BY DEF Become, Stacked
<1>2. b \in Seq(Frame) /\ Len(b) = Len(stack[t]) - 1 /\ Len(stack[t]) \in Nat \ {0}
      /\ \A n \in 1..(Len(stack[t]) - 1) : b[n] = stack[t][n]
  BY TopIs
<1> HIDE DEF b
<1>3. Append(b, f) \in Seq(Frame) /\ Len(Append(b, f)) = Len(b) + 1
      /\ \A n \in 1..Len(b) : Append(b, f)[n] = b[n]
      /\ Append(b, f)[Len(b) + 1] = f
  BY <1>2
<1>4. stack'[t] = Append(b, f) /\ \A s \in Threads : s # t => stack'[s] = stack[s]
  BY <1>1
<1>5. Stacked'
  BY <1>1, <1>3 DEF Stacked
<1>6. Len(stack'[t]) = Len(stack[t])
  BY <1>2, <1>3, <1>4
<1>7. \A n \in Depth(t) : stack'[t][n] = IF n = Len(stack[t]) THEN f ELSE stack[t][n]
  BY <1>2, <1>3, <1>4 DEF Depth
<1> QED BY <1>4, <1>5, <1>6, <1>7

(* after it is popped,                                                       *)
LEMMA ReturnDoes ==
  ASSUME Stacked, NEW t \in Threads, Busy(t), Return(t)
  PROVE  /\ Stacked' /\ Len(stack'[t]) = Len(stack[t]) - 1
         /\ \A s \in Threads : s # t => Len(stack'[s]) = Len(stack[s])
         /\ \A s \in Threads : Depth(s)' \subseteq Depth(s)
         /\ \A s \in Threads : \A n \in Depth(s)' : stack'[s][n] = stack[s][n]
<1>1. stack' = [stack EXCEPT ![t] = Below(t)] /\ stack \in [Threads -> Seq(Frame)]
  BY DEF Return, Stacked
<1>2. Below(t) \in Seq(Frame) /\ Len(Below(t)) = Len(stack[t]) - 1 /\ Len(stack[t]) \in Nat \ {0}
      /\ \A n \in 1..(Len(stack[t]) - 1) : Below(t)[n] = stack[t][n]
  BY TopIs
<1>3. stack'[t] = Below(t) /\ \A s \in Threads : s # t => stack'[s] = stack[s]
  BY <1>1
<1>4. Stacked'
  BY <1>1, <1>2 DEF Stacked
<1>5. Depth(t)' \subseteq Depth(t) /\ \A n \in Depth(t)' : stack'[t][n] = stack[t][n]
  BY <1>2, <1>3 DEF Depth
<1>6. \A s \in Threads : s # t => Depth(s)' = Depth(s)
  BY <1>3 DEF Depth
<1> QED BY <1>2, <1>3, <1>4, <1>5, <1>6

(* after one is pushed,                                                      *)
LEMMA CallDoes ==
  ASSUME Stacked, NEW t \in Threads, NEW f \in Frame, Call(t, f)
  PROVE  /\ Stacked' /\ Len(stack'[t]) = Len(stack[t]) + 1
         /\ \A s \in Threads : s # t => Len(stack'[s]) = Len(stack[s])
         /\ \A s \in Threads : Depth(s) \subseteq Depth(s)'
         /\ \A s \in Threads : \A n \in Depth(s) : stack'[s][n] = stack[s][n]
         /\ stack'[t][Len(stack[t]) + 1] = f
         /\ \A s \in Threads : \A n \in Depth(s)' :
              n \in Depth(s) \/ (s = t /\ n = Len(stack[t]) + 1)
<1> DEFINE b == stack[t]
<1>1. stack' = [stack EXCEPT ![t] = Append(b, f)] /\ stack \in [Threads -> Seq(Frame)]
  BY DEF Call, Stacked
<1>2. b \in Seq(Frame) /\ Len(b) \in Nat
  BY <1>1
<1> HIDE DEF b
<1>3. Append(b, f) \in Seq(Frame) /\ Len(Append(b, f)) = Len(b) + 1
      /\ \A n \in 1..Len(b) : Append(b, f)[n] = b[n]
      /\ Append(b, f)[Len(b) + 1] = f
  BY <1>2
<1>4. stack'[t] = Append(b, f) /\ \A s \in Threads : s # t => stack'[s] = stack[s]
  BY <1>1
<1>5. Stacked'
  BY <1>1, <1>3 DEF Stacked
<1>6. /\ Depth(t) \subseteq Depth(t)' /\ \A n \in Depth(t) : stack'[t][n] = stack[t][n]
      /\ Depth(t)' = Depth(t) \cup {Len(stack[t]) + 1}
  BY <1>2, <1>3, <1>4 DEF Depth, b
<1>7. \A s \in Threads : s # t => Depth(s)' = Depth(s)
  BY <1>4 DEF Depth
<1>8. ASSUME NEW s \in Threads
      PROVE  /\ Depth(s) \subseteq Depth(s)' /\ \A n \in Depth(s) : stack'[s][n] = stack[s][n]
             /\ \A n \in Depth(s)' : n \in Depth(s) \/ (s = t /\ n = Len(stack[t]) + 1)
  <2>1. CASE s = t
    BY <2>1, <1>6
  <2>2. CASE s # t
    BY <2>2, <1>4, <1>7
  <2> QED BY <2>1, <2>2
<1>9. /\ Len(stack'[t]) = Len(stack[t]) + 1 /\ stack'[t][Len(stack[t]) + 1] = f
      /\ \A s \in Threads : s # t => Len(stack'[s]) = Len(stack[s])
  BY <1>3, <1>4 DEF b
<1> QED BY <1>5, <1>8, <1>9

(* and after it is replaced and one is pushed.                               *)
LEMMA SplitDoes ==
  ASSUME Stacked, NEW t \in Threads, Busy(t), NEW e \in Frame, NEW f \in Frame,
         stack' = [stack EXCEPT ![t] = Below(t) \o <<e, f>>]
  PROVE  /\ Stacked' /\ Len(stack'[t]) = Len(stack[t]) + 1
         /\ \A s \in Threads : s # t => Len(stack'[s]) = Len(stack[s])
         /\ \A s \in Threads : Depth(s) \subseteq Depth(s)'
         /\ \A s \in Threads : \A n \in Depth(s) :
              stack'[s][n] = IF s = t /\ n = Len(stack[t]) THEN e ELSE stack[s][n]
         /\ stack'[t][Len(stack[t]) + 1] = f
         /\ \A s \in Threads : \A n \in Depth(s)' :
              n \in Depth(s) \/ (s = t /\ n = Len(stack[t]) + 1)
<1> DEFINE b == Below(t)
           d == <<e, f>>
           c == b \o d
<1>1. stack' = [stack EXCEPT ![t] = c] /\ stack \in [Threads -> Seq(Frame)]
  BY DEF Stacked
<1>2. b \in Seq(Frame) /\ Len(b) = Len(stack[t]) - 1 /\ Len(stack[t]) \in Nat \ {0}
      /\ \A n \in 1..(Len(stack[t]) - 1) : b[n] = stack[t][n]
  BY TopIs
<1>4. c \in Seq(Frame) /\ Len(c) = Len(b) + 2
      /\ (\A n \in 1..Len(b) : c[n] = b[n]) /\ c[Len(b) + 1] = e /\ c[Len(b) + 2] = f
  BY <1>2, Pairs
<1> HIDE DEF b
<1> HIDE DEF c
<1>5. stack'[t] = c /\ \A s \in Threads : s # t => stack'[s] = stack[s]
  BY <1>1
<1>6. Stacked'
  BY <1>1, <1>4 DEF Stacked
<1>7. /\ Depth(t) \subseteq Depth(t)' /\ Depth(t)' = Depth(t) \cup {Len(stack[t]) + 1}
      /\ stack'[t][Len(stack[t])] = e /\ stack'[t][Len(stack[t]) + 1] = f
      /\ \A n \in 1..(Len(stack[t]) - 1) : stack'[t][n] = stack[t][n]
  BY <1>2, <1>4, <1>5 DEF Depth
<1>8. \A n \in Depth(t) : stack'[t][n] = IF n = Len(stack[t]) THEN e ELSE stack[t][n]
  <2> DEFINE l == Len(stack[t])
  <2>1. l \in Nat \ {0} /\ stack'[t][l] = e
        /\ \A n \in 1..(l - 1) : stack'[t][n] = stack[t][n]
    BY <1>2, <1>7
  <2> HIDE DEF l
  <2>2. ASSUME NEW n \in 1..l PROVE stack'[t][n] = IF n = l THEN e ELSE stack[t][n]
    <3>1. CASE n = l
      BY <2>1, <3>1
    <3>2. CASE n # l
      <4>1. n \in 1..(l - 1)
        BY <2>1, <3>2
      <4> QED BY <2>1, <3>2, <4>1
    <3> QED BY <3>1, <3>2
  <2> QED BY <2>2 DEF l, Depth
<1>9. \A s \in Threads : s # t => Depth(s)' = Depth(s)
  BY <1>5 DEF Depth
<1>10. Len(stack'[t]) = Len(stack[t]) + 1
  BY <1>2, <1>4, <1>5
<1>11. ASSUME NEW s \in Threads
       PROVE  /\ Depth(s) \subseteq Depth(s)'
              /\ \A n \in Depth(s) :
                   stack'[s][n] = IF s = t /\ n = Len(stack[t]) THEN e ELSE stack[s][n]
              /\ \A n \in Depth(s)' : n \in Depth(s) \/ (s = t /\ n = Len(stack[t]) + 1)
  <2>1. CASE s = t
    BY <2>1, <1>7, <1>8
  <2>2. CASE s # t
    BY <2>2, <1>5, <1>9
  <2> QED BY <2>1, <2>2
<1>12. \A s \in Threads : s # t => Len(stack'[s]) = Len(stack[s])
  BY <1>5
<1>13. stack'[t][Len(stack[t]) + 1] = f
  BY <1>7
<1> QED BY <1>6, <1>10, <1>11, <1>12, <1>13
--------------------------------------------------------------------------------
(* The invariant.                                                            *)

(* A call of for_mt, as against a worker's visit to a loop of another. *)
Owns(f) == f.wff \/ f.at \in {"enqueue", "push"}
Running(f) == f.at \in {"func", "tail"}

(* What waits below the innermost call of a thread. *)
Shape(t, n) == LET f == stack[t][n] IN
  /\ n < Len(stack[t]) => f.at \in {"tail", "wait"}
  /\ f.at = "wait" => f.wff
  /\ f.at = "enqueue" => f.loop \in Loops
Shapes == \A t \in Threads : \A n \in Depth(t) : Shape(t, n)

(* Where for_mt is called: by the main thread when it is in no other call,   *)
(* or in the function of an outer loop.                                      *)
Caller(t, n) ==
  LET f == stack[t][n] IN
  \/ t = Main /\ n = 1 /\ f.group \in Outer \cup Background
  \/ /\ f.group \in Inner /\ n > 1
     /\ stack[t][n - 1].at = "tail" /\ stack[t][n - 1].group \in Outer
Owner(t, n) == LET f == stack[t][n] IN
  Owns(f) => /\ Caller(t, n) /\ group[f.group].inUse
             /\ background = f.group => f.at \in {"enqueue", "push"}
Owners == \A t \in Threads : \A n \in Depth(t) : Owner(t, n)
OneOwner ==
  \A s, t \in Threads : \A m \in Depth(s), n \in Depth(t) :
    Owns(stack[s][m]) /\ Owns(stack[t][n]) /\ stack[s][m].group = stack[t][n].group
      => s = t /\ m = n

(* A group in use is one that the main thread holds, and then no thread is   *)
(* told to exit.                                                             *)
Held ==
  /\ background # NoGroup => background \in Background /\ group[background].inUse
  /\ \A g \in Outer : group[g].inUse =>
       Busy(Main) /\ stack[Main][1].group = g /\ Owns(stack[Main][1])
  /\ exitFlags => ~Busy(Main)

(* No index is run twice at the same time. *)
OneRunner ==
  \A s, t \in Threads : \A m \in Depth(s), n \in Depth(t) :
    /\ Running(stack[s][m]) /\ Running(stack[t][n])
    /\ stack[s][m].group = stack[t][n].group /\ stack[s][m].index = stack[t][n].index
    => s = t /\ m = n

Enqueued(g) == \E t \in Threads : \E n \in Depth(t) :
  stack[t][n].at = "enqueue" /\ stack[t][n].group = g
(* The tasks of g that have not been done, by their numbers. *)
Pending(g) ==
  {k \in 0..(NumTasks(group[g].loop) - 1) :
     k >= group[g].ctr \/ Runs(g, group[g].loop.from + group[g].loop.step * k)}

Fresh(g) ==
  /\ group[g].inUse /\ group[g].ctr = 0 /\ started[g] = {} /\ \A i \in Int : ~Runs(g, i)
  /\ \A t \in Threads : \A n \in Depth(t) :
       stack[t][n].at = "enqueue" /\ stack[t][n].group = g
         => group[g].remainingTasks = NumTasks(stack[t][n].loop)
UnderWay(g) ==
  /\ group[g].ctr \in 0..NumTasks(group[g].loop)
  /\ started[g] = Begun(group[g].loop, group[g].ctr)
  /\ group[g].remainingTasks = Cardinality(Pending(g))
  /\ \A i \in Int : Runs(g, i) => i \in started[g]
  /\ ~group[g].inUse => group[g].ctr = NumTasks(group[g].loop) /\ \A i \in Int : ~Runs(g, i)
CountedOf(g) == IF Enqueued(g) THEN Fresh(g) ELSE UnderWay(g)
Counted == \A g \in Groups : CountedOf(g)

Framed == Stacked /\ Shapes /\ Owners /\ OneOwner /\ Held
IInv == TypeOK /\ ~twice /\ Framed /\ OneRunner /\ Counted

(* What a task group holds. *)
Fields == [inUse : BOOLEAN, loop : Loops \cup {NoLoop}, ctr : Nat, remainingTasks : Nat,
           inTaskQueue : BOOLEAN]

LEMMA GroupsTyped == TypeOK => group \in [Groups -> Fields]
  BY DEF TypeOK, Fields

(* Its fields after the counter, the remaining tasks or both are set.        *)
LEMMA CtrSet ==
  ASSUME NEW r \in Fields, NEW c \in Nat, NEW q, q = [r EXCEPT !.ctr = c]
  PROVE  /\ q \in Fields /\ q.ctr = c /\ q.loop = r.loop /\ q.inUse = r.inUse
         /\ q.remainingTasks = r.remainingTasks
  BY DEF Fields

LEMMA RemainingSet ==
  ASSUME NEW r \in Fields, NEW c \in Nat, NEW q, q = [r EXCEPT !.remainingTasks = c]
  PROVE  /\ q \in Fields /\ q.remainingTasks = c /\ q.loop = r.loop /\ q.inUse = r.inUse
         /\ q.ctr = r.ctr
  BY DEF Fields

LEMMA Reset ==
  ASSUME NEW r \in Fields, NEW q, q = [r EXCEPT !.inUse = FALSE, !.remainingTasks = 0]
  PROVE  q \in Fields /\ q.remainingTasks = 0 /\ ~q.inUse /\ q.loop = r.loop /\ q.ctr = r.ctr
  BY DEF Fields

(* The indexes begun after one more has been.                                *)
LEMMA BegunNext ==
  ASSUME NEW l, NEW c \in Nat
  PROVE  Begun(l, c + 1) = Begun(l, c) \cup {l.from + l.step * c}
<1> DEFINE x(k) == l.from + l.step * k
<1>1. Begun(l, c + 1) = {x(k) : k \in 0..(c + 1 - 1)} /\ Begun(l, c) = {x(k) : k \in 0..(c - 1)}
  BY DEF Begun
<1>2. 0..(c + 1 - 1) = 0..(c - 1) \cup {c}
  OBVIOUS
<1> HIDE DEF x
<1>3. Begun(l, c + 1) = Begun(l, c) \cup {x(c)}
  BY <1>1, <1>2
<1> QED BY <1>3 DEF x

(* The frames in which functions run, and those that enqueue. *)
RunAt(t, n, g, i) ==
  n \in Depth(t) /\ Running(stack[t][n]) /\ stack[t][n].group = g /\ stack[t][n].index = i
EnqueueAt(t, n, g, l) ==
  n \in Depth(t) /\ stack[t][n].at = "enqueue" /\ stack[t][n].group = g /\ stack[t][n].loop = l

(* A function runs just if some frame runs it, now and in the next state.    *)
LEMMA RunsMeans ==
  ASSUME Stacked
  PROVE  \A g, i : Runs(g, i) <=> \E t \in Threads : \E n : RunAt(t, n, g, i)
<1>1. \A t \in Threads : DOMAIN stack[t] = Depth(t)
  BY LenProperties DEF Stacked, Depth
<1> QED BY <1>1 DEF Runs, RunAt, Running

LEMMA RunsThen ==
  ASSUME Stacked'
  PROVE  \A g, i : Runs(g, i)' <=> \E t \in Threads : \E n : RunAt(t, n, g, i)'
<1>1. \A t \in Threads : stack'[t] \in Seq(Frame)
  BY DEF Stacked
<1>2. \A t \in Threads : DOMAIN (stack'[t]) = Depth(t)'
  BY <1>1, LenProperties DEF Depth
<1> QED BY <1>2 DEF Runs, RunAt, Running

(* The loop of a group is one for which the lemmas above hold.               *)
LEMMA GroupType ==
  ASSUME TypeOK, NEW g \in Groups
  PROVE  /\ Long(group[g].loop) /\ NumTasks(group[g].loop) \in Nat /\ group[g].ctr \in Nat
         /\ group[g].loop.from \in Int /\ group[g].loop.step \in Nat \ {0}
         /\ group[g].loop.to \in Int
<1>1. group[g].loop \in Loops \cup {NoLoop} /\ group[g].ctr \in Nat
  BY DEF TypeOK
<1>2. Long(NoLoop)
  BY DEF Long, Steps, NoLoop
<1>3. \A l \in Loops : Long(l)
  BY PoolAssumption DEF Long, Steps
<1>4. Long(group[g].loop)
  BY <1>1, <1>2, <1>3
<1> QED BY <1>1, <1>4, TasksType DEF Long, Steps

LEMMA LoopType == \A l \in Loops : Long(l) /\ NumTasks(l) \in Nat
<1>1. \A l \in Loops : Long(l)
  BY PoolAssumption DEF Long, Steps
<1> QED BY <1>1, TasksType

(* A group keeps its account when nothing about it changes. *)
LEMMA GroupStays ==
  ASSUME Stacked, Stacked', NEW g \in Groups, CountedOf(g),
         group'[g].ctr = group[g].ctr, group'[g].loop = group[g].loop,
         group'[g].remainingTasks = group[g].remainingTasks,
         group'[g].inUse <=> group[g].inUse, started'[g] = started[g],
         \A t \in Threads : \A n, i : RunAt(t, n, g, i)' <=> RunAt(t, n, g, i),
         \A t \in Threads : \A n, l : EnqueueAt(t, n, g, l)' <=> EnqueueAt(t, n, g, l)
  PROVE  CountedOf(g)'
<1>1. \A i : Runs(g, i)' <=> Runs(g, i)
  <2>1. \A i : Runs(g, i)' <=> \E t \in Threads : \E n : RunAt(t, n, g, i)'
    BY RunsThen
  <2> QED BY <2>1, RunsMeans
<1>2. Enqueued(g)' <=> Enqueued(g)
  <2>1. Enqueued(g) <=> \E t \in Threads : \E n, l : EnqueueAt(t, n, g, l)
    BY DEF Enqueued, EnqueueAt
  <2>2. Enqueued(g)' <=> \E t \in Threads : \E n, l : EnqueueAt(t, n, g, l)'
    BY DEF Enqueued, EnqueueAt
  <2> QED BY <2>1, <2>2
<1>3. CASE Enqueued(g)
  <2>1. \A t \in Threads : \A n \in Depth(t)' :
          stack'[t][n].at = "enqueue" /\ stack'[t][n].group = g
            => EnqueueAt(t, n, g, stack'[t][n].loop)
    BY DEF EnqueueAt
  <2>2. \A t \in Threads : \A n \in Depth(t)' :
          stack'[t][n].at = "enqueue" /\ stack'[t][n].group = g
            => group[g].remainingTasks = NumTasks(stack'[t][n].loop)
    BY <1>3, <2>1 DEF CountedOf, Fresh, EnqueueAt
  <2>3. /\ group'[g].inUse /\ group'[g].ctr = 0 /\ started'[g] = {}
        /\ \A i \in Int : ~Runs(g, i)'
    BY <1>1, <1>3 DEF CountedOf, Fresh
  <2>4. Fresh(g)'
    BY <2>2, <2>3 DEF Fresh
  <2> QED BY <1>2, <1>3, <2>4 DEF CountedOf
<1>4. CASE ~Enqueued(g)
  <2>1. Pending(g)' = Pending(g)
    BY <1>1 DEF Pending
  <2>2. UnderWay(g)'
    BY <1>1, <1>4, <2>1 DEF CountedOf, UnderWay
  <2> QED BY <1>2, <1>4, <2>2 DEF CountedOf
<1> QED BY <1>3, <1>4

--------------------------------------------------------------------------------
(* What becomes of the frames when one is replaced, popped or pushed.        *)

SameUse == \A g \in Groups : group'[g].inUse <=> group[g].inUse

(* What the frames of a thread are.                                          *)
LEMMA FrameType ==
  ASSUME Stacked
  PROVE  \A s \in Threads :
           /\ Len(stack[s]) \in Nat /\ Busy(s) <=> Len(stack[s]) # 0
           /\ \A n \in Depth(s) : stack[s][n] \in Frame /\ stack[s][n].group \in Groups
<1> SUFFICES ASSUME NEW s \in Threads
             PROVE  /\ Len(stack[s]) \in Nat /\ Busy(s) <=> Len(stack[s]) # 0
                    /\ \A n \in Depth(s) : stack[s][n] \in Frame /\ stack[s][n].group \in Groups
  OBVIOUS
<1>1. stack[s] \in Seq(Frame)
  BY DEF Stacked
<1>2. \A n \in Depth(s) : stack[s][n] \in Frame
  BY <1>1, ElementOfSeq DEF Depth
<1>3. Len(stack[s]) \in Nat /\ Busy(s) <=> Len(stack[s]) # 0
  BY <1>1, EmptySeq, LenProperties DEF Busy
<1> QED BY <1>2, <1>3 DEF Frame

(* The call a thread is in goes on to its next step. *)
LEMMA BecomeFramed ==
  ASSUME Framed, NEW t \in Threads, Busy(t), NEW f \in Frame, Become(t, f),
         f.group = Top(t).group, Owns(f) <=> Owns(Top(t)), f.at # "enqueue",
         f.at = "wait" => f.wff,
         Owns(f) /\ background = f.group => f.at = "push",
         SameUse, UNCHANGED <<background, exitFlags>>
  PROVE  Framed'
<1> DEFINE l == Len(stack[t])
<1>1. /\ Stacked' /\ \A s \in Threads : Depth(s)' = Depth(s) /\ Len(stack'[s]) = Len(stack[s])
      /\ \A s \in Threads : \A n \in Depth(s) :
           stack'[s][n] = IF s = t /\ n = l THEN f ELSE stack[s][n]
  BY BecomeDoes DEF Framed, Depth
<1>2. l \in Depth(t) /\ l \in Nat \ {0} /\ stack[t][l] = Top(t)
  BY TopIs DEF Framed
<1> HIDE DEF l
<1>3. \A s \in Threads : \A n \in Depth(s) :
        /\ Owns(stack'[s][n]) <=> Owns(stack[s][n])
        /\ stack'[s][n].group = stack[s][n].group
  BY <1>1, <1>2
<1>4. Shapes'
  <2> SUFFICES ASSUME NEW s \in Threads, NEW n \in Depth(s) PROVE Shape(s, n)'
    BY <1>1 DEF Shapes
  <2>1. CASE s = t /\ n = l
    BY <1>1, <1>2, <2>1 DEF Shape, l
  <2>2. CASE ~(s = t /\ n = l)
    <3>1. stack'[s][n] = stack[s][n] /\ Len(stack'[s]) = Len(stack[s]) /\ Shape(s, n)
      BY <1>1, <2>2 DEF Framed, Shapes
    <3> QED BY <3>1 DEF Shape
  <2> QED BY <2>1, <2>2
<1>5. Owners'
  <2> SUFFICES ASSUME NEW s \in Threads, NEW n \in Depth(s), Owns(stack'[s][n]) PROVE Owner(s, n)'
    BY <1>1 DEF Owners, Owner
  <2>1. Owns(stack[s][n]) /\ Owner(s, n) /\ stack'[s][n].group = stack[s][n].group
    BY <1>3 DEF Framed, Owners
  <2>2. stack[s][n].group \in Groups
    BY FrameType DEF Framed
  <2>3. Caller(s, n)'
    <3>1. CASE n = 1
      BY <2>1, <3>1 DEF Owner, Caller
    <3>2. CASE n # 1
      <4>1. n - 1 \in Depth(s) /\ ~(s = t /\ n - 1 = l)
        BY <1>1, <3>2 DEF Depth, l, Framed, Stacked
      <4> QED BY <1>1, <2>1, <3>2, <4>1 DEF Owner, Caller
    <3> QED BY <3>1, <3>2
  <2>4. background = stack'[s][n].group => stack'[s][n].at \in {"enqueue", "push"}
    <3>1. CASE s = t /\ n = l
      BY <1>1, <1>2, <2>1, <3>1
    <3>2. CASE ~(s = t /\ n = l)
      BY <1>1, <2>1, <3>2 DEF Owner
    <3> QED BY <3>1, <3>2
  <2> QED BY <2>1, <2>2, <2>3, <2>4 DEF Owner, SameUse
<1>6. OneOwner'
  BY <1>1, <1>3 DEF Framed, OneOwner
<1>7. Held'
  <2>1. \A s \in Threads : Busy(s)' <=> Busy(s)
    <3>1. \A s \in Threads : /\ stack[s] \in Seq(Frame) /\ stack'[s] \in Seq(Frame)
                             /\ Len(stack'[s]) = Len(stack[s])
      BY <1>1 DEF Framed, Stacked
    <3> QED BY <3>1, EmptySeq DEF Busy
  <2>2. Main \in Threads
    BY DEF Threads
  <2>3. Busy(Main) => 1 \in Depth(Main)
    BY <2>2, EmptySeq DEF Framed, Stacked, Busy, Depth
  <2>4. background # NoGroup => background \in Background /\ group'[background].inUse
    BY DEF Framed, Held, SameUse, Groups
  <2>5. \A g \in Outer : group'[g].inUse =>
          Busy(Main) /\ stack'[Main][1].group = g /\ Owns(stack'[Main][1])
    BY <1>3, <2>2, <2>3 DEF Framed, Held, SameUse, Groups
  <2> QED BY <2>1, <2>2, <2>4, <2>5 DEF Framed, Held
<1> QED BY <1>1, <1>4, <1>5, <1>6, <1>7 DEF Framed

(* A call returns, or a worker leaves a loop. *)
LEMMA ReturnFramed ==
  ASSUME Framed, NEW t \in Threads, Busy(t), Return(t), UNCHANGED <<background, exitFlags>>,
         \A g \in Groups : g # Top(t).group => (group'[g].inUse <=> group[g].inUse),
         \/ SameUse /\ (Owns(Top(t)) => Top(t).group \in Background)
         \/ /\ Owns(Top(t)) /\ ~group'[Top(t).group].inUse
            /\ background # Top(t).group
  PROVE  Framed'
<1> DEFINE l == Len(stack[t])
           p == Top(t)
<1>1. /\ Stacked' /\ Len(stack'[t]) = l - 1
      /\ \A s \in Threads : s # t => Len(stack'[s]) = Len(stack[s])
      /\ \A s \in Threads : Depth(s)' \subseteq Depth(s)
      /\ \A s \in Threads : \A n \in Depth(s)' : stack'[s][n] = stack[s][n]
  BY ReturnDoes DEF Framed
<1>2. l \in Depth(t) /\ l \in Nat \ {0} /\ stack[t][l] = p
  BY TopIs DEF Framed
<1>3. ~(l \in Depth(t)')
  BY <1>1, <1>2 DEF Depth
<1>4. Main \in Threads
  BY DEF Threads
<1> HIDE DEF l, p
<1>5. Shapes'
  <2> SUFFICES ASSUME NEW s \in Threads, NEW n \in Depth(s)' PROVE Shape(s, n)'
    BY DEF Shapes
  <2>1. n \in Depth(s) /\ stack'[s][n] = stack[s][n] /\ Shape(s, n)
    BY <1>1 DEF Framed, Shapes
  <2>2. n < Len(stack'[s]) => n < Len(stack[s])
    <3>1. CASE s = t
      BY <1>1, <1>2, <3>1 DEF l, Depth
    <3>2. CASE s # t
      BY <1>1, <3>2
    <3> QED BY <3>1, <3>2
  <2> QED BY <2>1, <2>2 DEF Shape
<1>6. ASSUME NEW s \in Threads, NEW n \in Depth(s)', Owns(stack[s][n])
      PROVE  group'[stack[s][n].group].inUse
  <2>1. n \in Depth(s) /\ Owner(s, n) /\ stack[s][n].group \in Groups /\ ~(s = t /\ n = l)
    BY <1>1, <1>3, FrameType DEF Framed, Owners
  <2>2. CASE SameUse
    BY <1>6, <2>1, <2>2 DEF SameUse, Owner
  <2>3. CASE Owns(p)
    <3>1. stack[s][n].group # p.group
      BY <1>2, <1>6, <2>1, <2>3 DEF Framed, OneOwner
    <3> QED BY <1>6, <2>1, <3>1 DEF Owner, p
  <2> QED BY <2>2, <2>3 DEF p
<1>7. Owners'
  <2> SUFFICES ASSUME NEW s \in Threads, NEW n \in Depth(s)', Owns(stack'[s][n]) PROVE Owner(s, n)'
    BY DEF Owners, Owner
  <2>1. n \in Depth(s) /\ stack'[s][n] = stack[s][n] /\ Owner(s, n) /\ Owns(stack[s][n])
    BY <1>1 DEF Framed, Owners
  <2>2. Caller(s, n)'
    <3>1. CASE n = 1
      BY <2>1, <3>1 DEF Owner, Caller
    <3>2. CASE n # 1
      <4>1. n - 1 \in Depth(s)'
        BY <1>1, <2>1, <3>2, FrameType DEF Depth, Framed
      <4> QED BY <1>1, <2>1, <3>2, <4>1 DEF Owner, Caller
    <3> QED BY <3>1, <3>2
  <2> QED BY <1>6, <2>1, <2>2 DEF Owner
<1>8. OneOwner'
  BY <1>1 DEF Framed, OneOwner
<1>9. Held'
  <2>1. background # NoGroup => background \in Background /\ group'[background].inUse
    <3>1. background # NoGroup => background \in Background /\ group[background].inUse
      BY DEF Framed, Held
    <3> QED BY <3>1 DEF SameUse, Groups
  <2>2. exitFlags => ~Busy(Main)'
    <3>1. exitFlags => Len(stack[Main]) = 0
      BY <1>4, FrameType DEF Framed, Held
    <3>2. exitFlags => Main # t
      BY <1>2, <3>1 DEF l
    <3>3. exitFlags => stack'[Main] = stack[Main]
      BY <3>2, <1>4 DEF Return, Framed, Stacked
    <3> QED BY <3>3 DEF Framed, Held, Busy
  <2>3. ASSUME NEW g \in Outer, group'[g].inUse
        PROVE  Busy(Main)' /\ stack'[Main][1].group = g /\ Owns(stack'[Main][1])
    <3>1. g \in Groups /\ g \notin Background
      BY PoolAssumption DEF Groups
    <3>2. group[g].inUse /\ (Owns(p) => g # p.group)
      BY <2>3, <3>1 DEF SameUse, p
    <3>3. Busy(Main) /\ stack[Main][1].group = g /\ Owns(stack[Main][1])
      BY <3>2 DEF Framed, Held
    <3>4. 1 \in Depth(Main)'
      <4>1. CASE t = Main
        <5>1. l # 1
          BY <1>2, <3>2, <3>3, <4>1
        <5>2. Depth(t)' = 1..(l - 1)
          BY <1>1 DEF Depth
        <5> QED BY <1>2, <4>1, <5>1, <5>2
      <4>2. CASE t # Main
        BY <1>1, <1>4, <3>3, <4>2, FrameType DEF Framed, Depth
      <4> QED BY <4>1, <4>2
    <3>5. Len(stack'[Main]) # 0
      BY <3>4 DEF Depth
    <3>6. Busy(Main)'
      BY <3>5, EmptySeq DEF Busy
    <3> QED BY <1>1, <1>4, <3>3, <3>4, <3>6
  <2> QED BY <2>1, <2>2, <2>3 DEF Framed, Held
<1> QED BY <1>1, <1>5, <1>7, <1>8, <1>9 DEF Framed

(* The main thread calls for_mt, or a worker visits a loop. *)
LEMMA CallFramed ==
  ASSUME Framed, NEW t \in Threads, NEW f \in Frame, Call(t, f), UNCHANGED exitFlags,
         Busy(t) => Top(t).at \in {"tail", "wait"}, f.at # "wait",
         f.at = "enqueue" => f.loop \in Loops,
         background' = background \/ background' = NoGroup
           \/ (background' = f.group /\ f.group \in Background /\ f.at = "enqueue"),
         \A g \in Groups : g # f.group => (group'[g].inUse <=> group[g].inUse),
         \/ /\ ~Owns(f) /\ SameUse /\ background' = background /\ t # Main
         \/ /\ t = Main /\ ~Busy(Main) /\ ~exitFlags /\ f.group \in Outer \cup Background
            /\ group'[f.group].inUse /\ Owns(f)
            /\ f.at = "enqueue" \/ background' # f.group
            /\ \A s \in Threads : \A n \in Depth(s) :
                 stack[s][n].group = f.group => ~Owns(stack[s][n])
            /\ \A g \in Outer : ~group[g].inUse
  PROVE  Framed'
<1> DEFINE l == Len(stack[t])
           Mine == t = Main /\ ~Busy(Main) /\ f.group \in Outer \cup Background
<1>1. /\ Stacked' /\ Len(stack'[t]) = l + 1
      /\ \A s \in Threads : s # t => Len(stack'[s]) = Len(stack[s])
      /\ \A s \in Threads : Depth(s) \subseteq Depth(s)'
      /\ \A s \in Threads : \A n \in Depth(s) : stack'[s][n] = stack[s][n]
      /\ stack'[t][l + 1] = f
      /\ \A s \in Threads : \A n \in Depth(s)' : n \in Depth(s) \/ (s = t /\ n = l + 1)
  BY CallDoes DEF Framed
<1>2. l \in Nat /\ (l # 0 <=> Busy(t)) /\ Main \in Threads /\ f.group \in Groups
      /\ l + 1 \notin Depth(t)
  BY FrameType DEF Framed, Threads, Frame, Depth
<1>3. Busy(t) => stack[t][l] = Top(t)
  BY TopIs DEF Framed
<1> HIDE DEF l
<1>4. Shapes'
  <2> SUFFICES ASSUME NEW s \in Threads, NEW n \in Depth(s)' PROVE Shape(s, n)'
    BY DEF Shapes
  <2>1. CASE n \in Depth(s)
    <3>1. stack'[s][n] = stack[s][n] /\ Shape(s, n)
      BY <1>1, <2>1 DEF Framed, Shapes
    <3>2. CASE s # t
      BY <1>1, <3>1, <3>2 DEF Shape
    <3>3. CASE s = t /\ n < l
      BY <1>1, <3>1, <3>3 DEF Shape, l
    <3>4. CASE s = t /\ n = l
      <4>1. Busy(t) /\ stack[s][n] = Top(t)
        BY <1>2, <1>3, <2>1, <3>4 DEF Depth
      <4> QED BY <3>1, <4>1 DEF Shape
    <3>5. s = t => n < l \/ n = l
      BY <1>2, <2>1 DEF Depth, l
    <3> QED BY <3>2, <3>3, <3>4, <3>5
  <2>2. CASE s = t /\ n = l + 1
    BY <1>1, <1>2, <2>2 DEF Shape
  <2> QED BY <1>1, <2>1, <2>2
<1>5. ASSUME NEW s \in Threads, NEW n \in Depth(s), Owns(stack[s][n])
      PROVE  Owner(s, n)'
  <2>1. n \in Depth(s)' /\ stack'[s][n] = stack[s][n] /\ Owner(s, n)
        /\ stack[s][n].group \in Groups
    BY <1>1, FrameType DEF Framed, Owners
  <2>2. Caller(s, n)'
    <3>1. CASE n = 1
      BY <1>5, <2>1, <3>1 DEF Owner, Caller
    <3>2. CASE n # 1
      <4>1. n - 1 \in Depth(s)
        BY <3>2, FrameType DEF Depth, Framed
      <4> QED BY <1>1, <1>5, <2>1, <3>2, <4>1 DEF Owner, Caller
    <3> QED BY <3>1, <3>2
  <2>3. group'[stack[s][n].group].inUse
    BY <1>5, <2>1 DEF Owner, SameUse
  <2>4. background' = stack[s][n].group => background' = background
    <3>1. stack[s][n].group # NoGroup
      BY <2>1, PoolAssumption
    <3> QED BY <1>5, <3>1
  <2> QED BY <1>5, <2>1, <2>2, <2>3, <2>4 DEF Owner
<1>6. Owners'
  <2> SUFFICES ASSUME NEW s \in Threads, NEW n \in Depth(s)', Owns(stack'[s][n]) PROVE Owner(s, n)'
    BY DEF Owners, Owner
  <2>1. CASE n \in Depth(s)
    BY <1>1, <1>5, <2>1
  <2>2. CASE s = t /\ n = l + 1
    <3>1. Owns(f) /\ Mine /\ l = 0 /\ stack'[s][n] = f
      BY <1>1, <1>2, <2>2
    <3> QED BY <2>2, <3>1 DEF Owner, Caller
  <2> QED BY <1>1, <2>1, <2>2
<1>7. OneOwner'
  <2> SUFFICES ASSUME NEW s \in Threads, NEW m \in Depth(s)',
                      NEW r \in Threads, NEW n \in Depth(r)',
                      Owns(stack'[s][m]), Owns(stack'[r][n]),
                      stack'[s][m].group = stack'[r][n].group
               PROVE  s = r /\ m = n
    BY DEF OneOwner
  <2>1. CASE m \in Depth(s) /\ n \in Depth(r)
    BY <1>1, <2>1 DEF Framed, OneOwner
  <2>2. CASE m \in Depth(s) /\ r = t /\ n = l + 1
    BY <1>1, <2>2
  <2>3. CASE n \in Depth(r) /\ s = t /\ m = l + 1
    BY <1>1, <2>3
  <2> QED BY <1>1, <2>1, <2>2, <2>3
<1>8. Held'
  <2>1. background' # NoGroup => background' \in Background /\ group'[background'].inUse
    <3>1. CASE background' = background
      <4>1. background # NoGroup => background \in Background /\ group[background].inUse
        BY DEF Framed, Held
      <4> QED BY <3>1, <4>1 DEF SameUse, Groups
    <3>2. CASE background' # background
      BY <3>2
    <3> QED BY <3>1, <3>2
  <2>2. exitFlags => ~Busy(Main)'
    <3>1. CASE t = Main
      BY <3>1
    <3>2. CASE t # Main
      BY <3>2, <1>2 DEF Call, Framed, Held, Stacked, Busy
    <3> QED BY <3>1, <3>2
  <2>3. ASSUME NEW g \in Outer, group'[g].inUse
        PROVE  Busy(Main)' /\ stack'[Main][1].group = g /\ Owns(stack'[Main][1])
    <3>1. g \in Groups
      BY DEF Groups
    <3>2. CASE group[g].inUse
      <4>1. Busy(Main) /\ stack[Main][1].group = g /\ Owns(stack[Main][1])
        BY <3>2 DEF Framed, Held
      <4>2. 1 \in Depth(Main)
        BY <1>2, <4>1, FrameType DEF Framed, Depth
      <4>3. Len(stack'[Main]) # 0
        BY <1>1, <1>2, <4>2 DEF Depth
      <4>4. Busy(Main)'
        BY <4>3, EmptySeq DEF Busy
      <4> QED BY <1>1, <1>2, <4>1, <4>2, <4>4
    <3>3. CASE ~group[g].inUse
      <4>1. g = f.group /\ Mine /\ l = 0 /\ Owns(f)
        BY <1>2, <2>3, <3>1, <3>3 DEF SameUse
      <4>2. stack'[Main][1] = f /\ Len(stack'[Main]) = 1
        BY <1>1, <4>1
      <4>3. Busy(Main)'
        BY <4>2, EmptySeq DEF Busy
      <4> QED BY <4>1, <4>2, <4>3
    <3> QED BY <3>2, <3>3
  <2> QED BY <2>1, <2>2, <2>3 DEF Framed, Held
<1> QED BY <1>1, <1>4, <1>6, <1>7, <1>8 DEF Framed

(* The function of an outer loop calls for_mt. *)
LEMMA NestedFramed ==
  ASSUME Framed, NEW t \in Threads, In(t, "func"), Top(t).group \in Outer,
         NEW f \in Frame, f.group \in Inner, f.at = "enqueue", f.loop \in Loops,
         stack' = [stack EXCEPT ![t] = Below(t) \o <<[Top(t) EXCEPT !.at = "tail"], f>>],
         ~group[f.group].inUse, group'[f.group].inUse,
         \A g \in Groups : g # f.group => (group'[g].inUse <=> group[g].inUse),
         UNCHANGED <<background, exitFlags>>
  PROVE  /\ Framed' /\ [Top(t) EXCEPT !.at = "tail"] \in Frame
<1> DEFINE l == Len(stack[t])
           e == [Top(t) EXCEPT !.at = "tail"]
<1>1. Busy(t) /\ l \in Depth(t) /\ l \in Nat \ {0} /\ stack[t][l] = Top(t) /\ Top(t) \in Frame
  BY TopIs DEF Framed, In
<1>2. e \in Frame /\ e.at = "tail" /\ e.group = Top(t).group /\ (Owns(e) <=> Owns(Top(t)))
  BY <1>1 DEF Frame, Owns, In
<1> HIDE DEF e
<1>3. /\ Stacked' /\ Len(stack'[t]) = l + 1
      /\ \A s \in Threads : s # t => Len(stack'[s]) = Len(stack[s])
      /\ \A s \in Threads : Depth(s) \subseteq Depth(s)'
      /\ \A s \in Threads : \A n \in Depth(s) :
           stack'[s][n] = IF s = t /\ n = l THEN e ELSE stack[s][n]
      /\ stack'[t][l + 1] = f
      /\ \A s \in Threads : \A n \in Depth(s)' : n \in Depth(s) \/ (s = t /\ n = l + 1)
  BY <1>1, <1>2, SplitDoes DEF Framed, e
<1>13. ASSUME NEW s \in Threads, NEW n \in Depth(s)
       PROVE  /\ s = t /\ n = l => stack'[s][n] = e
              /\ ~(s = t /\ n = l) => stack'[s][n] = stack[s][n]
  <2>1. stack'[s][n] = IF s = t /\ n = l THEN e ELSE stack[s][n]
    BY <1>3
  <2> QED BY <2>1
<1>4. Main \in Threads /\ l + 1 \notin Depth(t)
  BY <1>1 DEF Threads, Depth
<1> HIDE DEF l
<1>5. \A s \in Threads : \A n \in Depth(s) :
        /\ stack'[s][n].group = stack[s][n].group /\ (Owns(stack'[s][n]) <=> Owns(stack[s][n]))
        /\ stack[s][n].at \in {"tail", "enqueue", "push"} => stack'[s][n] = stack[s][n]
  <2> SUFFICES ASSUME NEW s \in Threads, NEW n \in Depth(s)
               PROVE  /\ stack'[s][n].group = stack[s][n].group
                      /\ Owns(stack'[s][n]) <=> Owns(stack[s][n])
                      /\ stack[s][n].at \in {"tail", "enqueue", "push"}
                           => stack'[s][n] = stack[s][n]
    OBVIOUS
  <2>1. CASE s = t /\ n = l
    <3>1. stack'[s][n] = e /\ stack[s][n] = Top(t) /\ Top(t).at = "func"
      BY <1>1, <1>13, <2>1 DEF In
    <3> QED BY <1>2, <3>1
  <2>2. CASE ~(s = t /\ n = l)
    <3>1. stack'[s][n] = stack[s][n]
      BY <1>13, <2>2
    <3> QED BY <3>1
  <2> QED BY <2>1, <2>2
<1>6. Shapes'
  <2> SUFFICES ASSUME NEW s \in Threads, NEW n \in Depth(s)' PROVE Shape(s, n)'
    BY DEF Shapes
  <2>1. CASE s = t /\ n = l
    <3>1. stack'[s][n] = e
      <4>1. n \in Depth(s)
        BY <1>1, <2>1
      <4> QED BY <1>13, <2>1, <4>1
    <3> QED BY <1>2, <3>1 DEF Shape
  <2>2. CASE s = t /\ n = l + 1
    BY <1>3, <1>1, <2>2 DEF Shape
  <2>3. CASE n \in Depth(s) /\ ~(s = t /\ n = l)
    <3>1. stack'[s][n] = stack[s][n] /\ Shape(s, n)
      BY <1>3, <2>3 DEF Framed, Shapes
    <3>2. CASE s # t
      BY <1>3, <3>1, <3>2 DEF Shape
    <3>3. CASE s = t
      <4>1. n < l
        BY <2>3, <3>3, <1>1 DEF Depth, l
      <4> QED BY <3>1, <3>3, <4>1 DEF Shape, l
    <3> QED BY <3>2, <3>3
  <2> QED BY <1>3, <2>1, <2>2, <2>3
<1>7. ASSUME NEW s \in Threads, NEW n \in Depth(s), Owns(stack[s][n])
      PROVE  Owner(s, n)'
  <2>1. n \in Depth(s)' /\ Owner(s, n) /\ stack[s][n].group \in Groups
    BY <1>3, FrameType DEF Framed, Owners
  <2>2. Caller(s, n)'
    <3>1. CASE n = 1
      <4>1. s = Main /\ stack[s][n].group \in Outer \cup Background
        BY <1>7, <2>1, <3>1 DEF Owner, Caller
      <4>2. stack'[s][n].group = stack[s][n].group
        BY <1>5
      <4> QED BY <3>1, <4>1, <4>2 DEF Caller
    <3>2. CASE n # 1
      <4>1. n - 1 \in Depth(s)
        BY <3>2, FrameType DEF Depth, Framed
      <4> QED BY <1>5, <1>7, <2>1, <3>2, <4>1 DEF Owner, Caller
    <3> QED BY <3>1, <3>2
  <2>3. group'[stack[s][n].group].inUse
    BY <1>7, <2>1 DEF Owner
  <2> QED BY <1>5, <1>7, <2>1, <2>2, <2>3 DEF Owner
<1>8. ASSUME NEW s \in Threads, NEW n \in Depth(s), stack[s][n].group = f.group
      PROVE  ~Owns(stack[s][n])
  BY <1>8 DEF Framed, Owners, Owner
<1>9. f.group # NoGroup /\ f.group \notin Outer \cup Background /\ f.group \in Groups
  BY PoolAssumption DEF Groups
<1>10. Owners'
  <2> SUFFICES ASSUME NEW s \in Threads, NEW n \in Depth(s)', Owns(stack'[s][n]) PROVE Owner(s, n)'
    BY DEF Owners, Owner
  <2>1. CASE n \in Depth(s)
    BY <1>5, <1>7, <2>1
  <2>2. CASE s = t /\ n = l + 1
    <3>1. stack'[s][n] = f /\ stack'[s][n - 1] = e /\ n > 1
      BY <1>1, <1>3, <2>2
    <3> QED BY <1>2, <3>1 DEF Owner, Caller
  <2> QED BY <1>3, <2>1, <2>2
<1>11. OneOwner'
  <2> SUFFICES ASSUME NEW s \in Threads, NEW m \in Depth(s)',
                      NEW r \in Threads, NEW n \in Depth(r)',
                      Owns(stack'[s][m]), Owns(stack'[r][n]),
                      stack'[s][m].group = stack'[r][n].group
               PROVE  s = r /\ m = n
    BY DEF OneOwner
  <2>1. CASE m \in Depth(s) /\ n \in Depth(r)
    <3>1. /\ Owns(stack[s][m]) /\ Owns(stack[r][n])
          /\ stack[s][m].group = stack[r][n].group
      BY <1>5, <2>1
    <3> QED BY <2>1, <3>1 DEF Framed, OneOwner
  <2>2. CASE m \in Depth(s) /\ r = t /\ n = l + 1
    <3>1. Owns(stack[s][m]) /\ stack[s][m].group = f.group
      BY <1>3, <1>5, <2>2
    <3> QED BY <1>8, <2>2, <3>1
  <2>3. CASE n \in Depth(r) /\ s = t /\ m = l + 1
    <3>1. Owns(stack[r][n]) /\ stack[r][n].group = f.group
      BY <1>3, <1>5, <2>3
    <3> QED BY <1>8, <2>3, <3>1
  <2> QED BY <1>3, <2>1, <2>2, <2>3
<1>12. Held'
  <2>1. background # NoGroup => background \in Background /\ group'[background].inUse
    BY <1>9 DEF Framed, Held, Groups
  <2>2. exitFlags => ~Busy(Main)'
    <3>1. t # Main => stack'[Main] = stack[Main]
      BY <1>4 DEF Framed, Stacked
    <3> QED BY <1>1, <3>1 DEF Framed, Held, Busy
  <2>3. ASSUME NEW g \in Outer, group'[g].inUse
        PROVE  Busy(Main)' /\ stack'[Main][1].group = g /\ Owns(stack'[Main][1])
    <3>1. g \in Groups /\ g # f.group
      BY <1>9 DEF Groups
    <3>2. Busy(Main) /\ stack[Main][1].group = g /\ Owns(stack[Main][1])
      BY <2>3, <3>1 DEF Framed, Held
    <3>3. 1 \in Depth(Main)
      BY <1>4, <3>2, FrameType DEF Framed, Depth
    <3>4. Len(stack'[Main]) # 0
      BY <1>1, <1>3, <1>4, <3>3 DEF Depth
    <3>5. Busy(Main)'
      BY <3>4, EmptySeq DEF Busy
    <3> QED BY <1>4, <1>5, <3>2, <3>3, <3>5
  <2> QED BY <2>1, <2>2, <2>3 DEF Framed, Held
<1> QED BY <1>2, <1>3, <1>6, <1>10, <1>11, <1>12 DEF Framed, e

--------------------------------------------------------------------------------
(* Which functions run, and which calls enqueue, after a step.               *)

SameRuns == \A t \in Threads : \A n, g, i : RunAt(t, n, g, i)' <=> RunAt(t, n, g, i)
SameEnqueues == \A t \in Threads : \A n, g, l : EnqueueAt(t, n, g, l)' <=> EnqueueAt(t, n, g, l)

(* The innermost frame.                                                      *)
LEMMA TopAt ==
  ASSUME Stacked, NEW t \in Threads, Busy(t)
  PROVE  /\ \A g, i : RunAt(t, Len(stack[t]), g, i)
                        <=> Running(Top(t)) /\ Top(t).group = g /\ Top(t).index = i
         /\ \A g, l : EnqueueAt(t, Len(stack[t]), g, l)
                        <=> Top(t).at = "enqueue" /\ Top(t).group = g /\ Top(t).loop = l
  BY TopIs DEF RunAt, EnqueueAt

(* When the innermost frame is replaced, the others run what they ran.       *)
LEMMA BecomeAt ==
  ASSUME Stacked, NEW t \in Threads, Busy(t), NEW f \in Frame, Become(t, f),
         NEW s \in Threads, NEW n
  PROVE  /\ s = t /\ n = Len(stack[t]) =>
              /\ \A g, i : RunAt(s, n, g, i)' <=> Running(f) /\ f.group = g /\ f.index = i
              /\ \A g, l : EnqueueAt(s, n, g, l)' <=> f.at = "enqueue" /\ f.group = g /\ f.loop = l
         /\ ~(s = t /\ n = Len(stack[t])) =>
              /\ \A g, i : RunAt(s, n, g, i)' <=> RunAt(s, n, g, i)
              /\ \A g, l : EnqueueAt(s, n, g, l)' <=> EnqueueAt(s, n, g, l)
<1>1. /\ \A r \in Threads : Depth(r)' = Depth(r)
      /\ \A r \in Threads : \A m \in Depth(r) :
           stack'[r][m] = IF r = t /\ m = Len(stack[t]) THEN f ELSE stack[r][m]
  BY BecomeDoes DEF Depth
<1>2. Len(stack[t]) \in Depth(t)
  BY TopIs
<1>3. CASE s = t /\ n = Len(stack[t])
  <2>1. n \in Depth(s)' /\ stack'[s][n] = f
    BY <1>1, <1>2, <1>3
  <2> QED BY <1>3, <2>1 DEF RunAt, EnqueueAt
<1>4. CASE ~(s = t /\ n = Len(stack[t]))
  <2>1. n \in Depth(s)' <=> n \in Depth(s)
    BY <1>1
  <2>2. n \in Depth(s) => stack'[s][n] = stack[s][n]
    BY <1>1, <1>4
  <2> QED BY <1>4, <2>1, <2>2 DEF RunAt, EnqueueAt
<1> QED BY <1>3, <1>4

(* Replacing or popping a frame that runs nothing changes no runs.           *)
LEMMA BecomeQuiet ==
  ASSUME Stacked, NEW t \in Threads, Busy(t), NEW f \in Frame, Become(t, f),
         ~Running(f), ~Running(Top(t))
  PROVE  SameRuns
<1> SUFFICES ASSUME NEW s \in Threads, NEW n, NEW g, NEW i
             PROVE  RunAt(s, n, g, i)' <=> RunAt(s, n, g, i)
  BY DEF SameRuns
<1>1. CASE s = t /\ n = Len(stack[t])
  BY <1>1, BecomeAt, TopAt
<1>2. CASE ~(s = t /\ n = Len(stack[t]))
  BY <1>2, BecomeAt
<1> QED BY <1>1, <1>2

LEMMA BecomeEnqueued ==
  ASSUME Stacked, NEW t \in Threads, Busy(t), NEW f \in Frame, Become(t, f),
         f.at # "enqueue", Top(t).at # "enqueue"
  PROVE  SameEnqueues
<1> SUFFICES ASSUME NEW s \in Threads, NEW n, NEW g, NEW l
             PROVE  EnqueueAt(s, n, g, l)' <=> EnqueueAt(s, n, g, l)
  BY DEF SameEnqueues
<1>1. CASE s = t /\ n = Len(stack[t])
  BY <1>1, BecomeAt, TopAt
<1>2. CASE ~(s = t /\ n = Len(stack[t]))
  BY <1>2, BecomeAt
<1> QED BY <1>1, <1>2

LEMMA ReturnQuiet ==
  ASSUME Stacked, NEW t \in Threads, Busy(t), Return(t),
         ~Running(Top(t)), Top(t).at # "enqueue"
  PROVE  SameRuns /\ SameEnqueues
<1>1. /\ Len(stack'[t]) = Len(stack[t]) - 1
      /\ \A s \in Threads : s # t => Len(stack'[s]) = Len(stack[s])
      /\ \A s \in Threads : Depth(s)' \subseteq Depth(s)
      /\ \A s \in Threads : \A n \in Depth(s)' : stack'[s][n] = stack[s][n]
  BY ReturnDoes
<1>2. Len(stack[t]) \in Nat \ {0} /\ stack[t][Len(stack[t])] = Top(t)
  BY TopIs
<1>3. ASSUME NEW s \in Threads, NEW n, n \in Depth(s), n \notin Depth(s)'
      PROVE  stack[s][n] = Top(t)
  <2>1. s = t /\ n = Len(stack[t])
    <3> DEFINE l == Len(stack[t])
    <3>1. s = t
      BY <1>1, <1>3 DEF Depth
    <3>2. Depth(t) = 1..l /\ Depth(t)' = 1..(l - 1) /\ l \in Nat
      BY <1>1, <1>2 DEF Depth
    <3> HIDE DEF l
    <3>3. n = l
      BY <1>3, <3>1, <3>2
    <3> QED BY <3>1, <3>3 DEF l
  <2> QED BY <1>2, <2>1
<1>4. ASSUME NEW s \in Threads, NEW n
      PROVE  /\ \A g, i : RunAt(s, n, g, i)' <=> RunAt(s, n, g, i)
             /\ \A g, l : EnqueueAt(s, n, g, l)' <=> EnqueueAt(s, n, g, l)
  <2>1. CASE n \in Depth(s)'
    <3>1. n \in Depth(s) /\ stack'[s][n] = stack[s][n]
      BY <1>1, <2>1
    <3> QED BY <2>1, <3>1 DEF RunAt, EnqueueAt
  <2>2. CASE n \notin Depth(s)'
    BY <1>3, <2>2 DEF RunAt, EnqueueAt
  <2> QED BY <2>1, <2>2
<1> QED BY <1>4 DEF SameRuns, SameEnqueues

(* Nor does pushing one that runs nothing yet.                               *)
LEMMA CallAt ==
  ASSUME Stacked, NEW t \in Threads, NEW f \in Frame, Call(t, f), ~Running(f)
  PROVE  /\ SameRuns
         /\ \A s \in Threads : \A n, g, l : EnqueueAt(s, n, g, l)'
              <=> \/ EnqueueAt(s, n, g, l)
                  \/ /\ s = t /\ n = Len(stack[t]) + 1
                     /\ f.at = "enqueue" /\ f.group = g /\ f.loop = l
<1> DEFINE m == Len(stack[t]) + 1
<1>1. /\ Len(stack'[t]) = m /\ stack'[t][m] = f
      /\ \A s \in Threads : Depth(s) \subseteq Depth(s)'
      /\ \A s \in Threads : \A n \in Depth(s) : stack'[s][n] = stack[s][n]
      /\ \A s \in Threads : \A n \in Depth(s)' : n \in Depth(s) \/ (s = t /\ n = m)
  BY CallDoes
<1>2. m \in Nat /\ m >= 1 /\ m \notin Depth(t)
  BY FrameType DEF Depth
<1>3. m \in Depth(t)'
  BY <1>1, <1>2 DEF Depth
<1> HIDE DEF m
<1>4. ASSUME NEW s \in Threads, NEW n, n \in Depth(s)
      PROVE  /\ \A g, i : RunAt(s, n, g, i)' <=> RunAt(s, n, g, i)
             /\ \A g, l : EnqueueAt(s, n, g, l)' <=> EnqueueAt(s, n, g, l)
             /\ ~(s = t /\ n = m)
  <2>1. n \in Depth(s)' /\ stack'[s][n] = stack[s][n]
    BY <1>1, <1>4
  <2> QED BY <1>2, <1>4, <2>1 DEF RunAt, EnqueueAt
<1>5. ASSUME NEW s \in Threads, NEW n, n \notin Depth(s)
      PROVE  /\ \A g, i : ~RunAt(s, n, g, i)' /\ ~RunAt(s, n, g, i)
             /\ \A g, l : /\ ~EnqueueAt(s, n, g, l)
                          /\ EnqueueAt(s, n, g, l)' <=> /\ s = t /\ n = m /\ f.at = "enqueue"
                                                        /\ f.group = g /\ f.loop = l
  BY <1>1, <1>3, <1>5 DEF RunAt, EnqueueAt
<1> QED BY <1>4, <1>5 DEF SameRuns, m

Split(t, e, f) == stack' = [stack EXCEPT ![t] = Below(t) \o <<e, f>>]

(* A function that calls for_mt still runs.                                  *)
LEMMA NestedAt ==
  ASSUME Stacked, NEW t \in Threads, Busy(t), Top(t).at = "func",
         NEW f \in Frame, ~Running(f), NEW e \in Frame, e.at = "tail",
         e.group = Top(t).group, e.index = Top(t).index,
         Split(t, e, f)
  PROVE  /\ SameRuns
         /\ \A s \in Threads : \A n, g, l : EnqueueAt(s, n, g, l)'
              <=> \/ EnqueueAt(s, n, g, l)
                  \/ /\ s = t /\ n = Len(stack[t]) + 1
                     /\ f.at = "enqueue" /\ f.group = g /\ f.loop = l
<1> DEFINE m == Len(stack[t]) + 1
<1>4. stack[t][Len(stack[t])] = Top(t)
  BY TopIs
<1>1. /\ Len(stack'[t]) = m /\ stack'[t][m] = f
      /\ \A s \in Threads : Depth(s) \subseteq Depth(s)'
      /\ \A s \in Threads : \A n \in Depth(s) :
           stack'[s][n] = IF s = t /\ n = Len(stack[t]) THEN e ELSE stack[s][n]
      /\ \A s \in Threads : \A n \in Depth(s)' : n \in Depth(s) \/ (s = t /\ n = m)
  BY SplitDoes DEF Split
<1>2. m \in Nat /\ m >= 1 /\ m \notin Depth(t)
  BY FrameType DEF Depth
<1>3. m \in Depth(t)'
  BY <1>1, <1>2 DEF Depth
<1> HIDE DEF m
<1>5. ASSUME NEW s \in Threads, NEW n, n \in Depth(s)
      PROVE  /\ \A g, i : RunAt(s, n, g, i)' <=> RunAt(s, n, g, i)
             /\ \A g, l : EnqueueAt(s, n, g, l)' <=> EnqueueAt(s, n, g, l)
             /\ ~(s = t /\ n = m)
  <2>1. n \in Depth(s)'
    BY <1>1, <1>5
  <2>2. CASE s = t /\ n = Len(stack[t])
    <3>1. stack'[s][n] = e /\ stack[s][n] = Top(t)
      BY <1>1, <1>4, <1>5, <2>2
    <3> QED BY <1>2, <1>4, <1>5, <2>1, <3>1 DEF RunAt, EnqueueAt, Running
  <2>3. CASE ~(s = t /\ n = Len(stack[t]))
    <3>1. stack'[s][n] = stack[s][n]
      BY <1>1, <1>5, <2>3
    <3> QED BY <1>2, <1>5, <2>1, <3>1 DEF RunAt, EnqueueAt
  <2> QED BY <2>2, <2>3
<1>6. ASSUME NEW s \in Threads, NEW n, n \notin Depth(s)
      PROVE  /\ \A g, i : ~RunAt(s, n, g, i)' /\ ~RunAt(s, n, g, i)
             /\ \A g, l : /\ ~EnqueueAt(s, n, g, l)
                          /\ EnqueueAt(s, n, g, l)' <=> /\ s = t /\ n = m /\ f.at = "enqueue"
                                                        /\ f.group = g /\ f.loop = l
  <2>1. n \in Depth(s)' <=> s = t /\ n = m
    BY <1>1, <1>3, <1>6
  <2>2. stack'[t][m] = f
    BY <1>1
  <2>3. CASE s = t /\ n = m
    BY <1>6, <2>1, <2>2, <2>3 DEF RunAt, EnqueueAt
  <2>4. CASE ~(s = t /\ n = m)
    BY <1>6, <2>1, <2>4 DEF RunAt, EnqueueAt
  <2> QED BY <2>3, <2>4
<1> QED BY <1>5, <1>6 DEF SameRuns, m

(* What a step that starts and ends no function keeps.                       *)
LEMMA RunnersStay == ASSUME OneRunner, SameRuns PROVE OneRunner'
<1>1. ASSUME NEW s \in Threads, NEW t \in Threads, NEW m \in Depth(s)', NEW n \in Depth(t)',
             Running(stack'[s][m]), Running(stack'[t][n]),
             stack'[s][m].group = stack'[t][n].group, stack'[s][m].index = stack'[t][n].index
      PROVE  s = t /\ m = n
  <2>0. PICK g, i : g = stack'[s][m].group /\ i = stack'[s][m].index
    OBVIOUS
  <2>1. RunAt(s, m, g, i)' /\ RunAt(t, n, g, i)'
    BY <1>1, <2>0 DEF RunAt
  <2>2. RunAt(s, m, g, i) /\ RunAt(t, n, g, i)
    BY <2>1 DEF SameRuns
  <2> QED BY <2>2 DEF OneRunner, RunAt
<1> QED BY <1>1 DEF OneRunner

LEMMA CountedStays ==
  ASSUME Stacked, Stacked', Counted, OneRunner, SameRuns, SameEnqueues, SameUse,
         \A g \in Groups : /\ group'[g].ctr = group[g].ctr /\ group'[g].loop = group[g].loop
                           /\ group'[g].remainingTasks = group[g].remainingTasks
                           /\ started'[g] = started[g]
  PROVE  Counted' /\ OneRunner'
<1>1. ASSUME NEW g \in Groups PROVE CountedOf(g)'
  BY GroupStays DEF Counted, SameRuns, SameEnqueues, SameUse
<1> QED BY <1>1, RunnersStay DEF Counted

(* The frames of a new call.                                                 *)
LEMMA NewFrames ==
  ASSUME TypeOK, NEW g \in Groups
  PROVE  /\ \A l \in Loops :
              /\ NewCall(g, l) \in Frame /\ NewCall(g, l).group = g /\ NewCall(g, l).loop = l
              /\ NewCall(g, l).at = "enqueue" /\ Owns(NewCall(g, l)) /\ ~Running(NewCall(g, l))
         /\ \A wff, again \in BOOLEAN :
              /\ Loop(g, wff, again) \in Frame /\ Loop(g, wff, again).group = g
              /\ Loop(g, wff, again).at = "loop" /\ (Owns(Loop(g, wff, again)) <=> wff)
              /\ ~Running(Loop(g, wff, again)) /\ Loop(g, wff, again).wff = wff
<1>1. running \in SUBSET Workers
  BY DEF TypeOK
<1> QED BY <1>1 DEF NewCall, Loop, Frame, Owns, Running

LEMMA TypeStacked == TypeOK => Stacked
  BY DEF TypeOK, Stacked

--------------------------------------------------------------------------------
(* Steps that leave the counters alone.                                      *)

(* What a step keeps that changes neither a group nor what runs.             *)
LEMMA Quiet ==
  ASSUME IInv, UNCHANGED <<group, started, twice>>, TypeOK', Framed', SameRuns, SameEnqueues
  PROVE  IInv'
<1>1. Counted' /\ OneRunner'
  BY CountedStays DEF IInv, Framed, SameUse
<1> QED BY <1>1 DEF IInv

(* Pushing the group to the queues of the workers.                           *)
LEMMA PushKeeps ==
  ASSUME IInv, NEW t \in Threads, NEW w \in Workers, PushTaskGroup(t, w)
  PROVE  IInv'
<1> DEFINE f == [Top(t) EXCEPT !.to = @ \ {w}]
<1>1. Busy(t) /\ Top(t).at = "push" /\ Become(t, f)
  BY DEF PushTaskGroup, In
<1>2. Top(t) \in Frame /\ Top(t).group \in Groups
  BY <1>1, TopIs DEF IInv, Framed, Frame
<1>3. /\ f \in Frame /\ f.group = Top(t).group /\ f.at = "push" /\ (Owns(f) <=> Owns(Top(t)))
      /\ ~Running(f) /\ ~Running(Top(t))
  BY <1>1, <1>2 DEF Frame, Owns, Running
<1> HIDE DEF f
<1>4. UNCHANGED <<group, background, exitFlags, running, calls, started, twice,
                  inMultiThreadedSection>>
  BY DEF PushTaskGroup
<1>5. Framed'
  BY <1>1, <1>3, <1>4, BecomeFramed DEF IInv, SameUse
<1>6. SameRuns /\ SameEnqueues
  BY <1>1, <1>3, BecomeQuiet, BecomeEnqueued DEF IInv, Framed
<1>7. TypeOK'
  <2>1. queue' \in [Workers -> [Groups -> Nat]]
    BY <1>2 DEF PushTaskGroup, IInv, TypeOK
  <2>2. stack' \in [Threads -> Seq(Frame)]
    BY <1>5 DEF Framed, Stacked
  <2> QED BY <1>4, <2>1, <2>2 DEF IInv, TypeOK
<1> QED BY <1>4, <1>5, <1>6, <1>7, Quiet

LEMMA PushedKeeps == ASSUME IInv, NEW t \in Threads, Pushed(t) PROVE IInv'
<1>1. /\ Busy(t) /\ Top(t).at = "push"
      /\ UNCHANGED <<group, queue, background, exitFlags, running, calls, started, twice,
                     inMultiThreadedSection>>
  BY DEF Pushed, In
<1>2. /\ Top(t) \in Frame /\ Top(t).group \in Groups /\ Owns(Top(t)) /\ ~Running(Top(t))
  BY <1>1, TopIs DEF IInv, Framed, Frame, Owns, Running
<1>3. Framed' /\ SameRuns /\ SameEnqueues
  <2>1. CASE Top(t).group \in Background
    <3>1. Return(t)
      BY <2>1 DEF Pushed
    <3> QED BY <1>1, <1>2, <2>1, <3>1, ReturnFramed, ReturnQuiet DEF IInv, Framed, SameUse
  <2>2. CASE Top(t).group \notin Background
    <3> DEFINE f == Loop(Top(t).group, TRUE, FALSE)
    <3>1. Become(t, f)
      BY <2>2 DEF Pushed
    <3>2. f \in Frame /\ f.group = Top(t).group /\ f.at = "loop" /\ Owns(f) /\ ~Running(f)
      BY <1>2, NewFrames DEF IInv
    <3> HIDE DEF f
    <3>3. background # f.group
      <4>1. background # NoGroup => background \in Background
        BY DEF IInv, Framed, Held
      <4> QED BY <1>2, <2>2, <3>2, <4>1, PoolAssumption
    <3>4. Framed'
      BY <1>1, <1>2, <3>1, <3>2, <3>3, BecomeFramed DEF IInv, SameUse
    <3> QED BY <1>1, <1>2, <3>1, <3>2, <3>4, BecomeQuiet, BecomeEnqueued DEF IInv, Framed
  <2> QED BY <2>1, <2>2
<1>4. TypeOK'
  BY <1>1, <1>3 DEF IInv, TypeOK, Framed, Stacked
<1> QED BY <1>1, <1>3, <1>4, Quiet

(* A worker takes a group out of its queue.                                  *)
LEMMA DoTaskKeeps ==
  ASSUME IInv, NEW w \in Workers, NEW g \in Groups, DoTask(w, g)
  PROVE  IInv'
<1> DEFINE f == Loop(g, FALSE, g \in Background /\ ~IsFinished(g))
<1>1. /\ (~Busy(w) \/ In(w, "wait")) /\ queue[w][g] > 0
      /\ Call(w, f) /\ queue' = [queue EXCEPT ![w][g] = @ - 1]
      /\ UNCHANGED <<group, background, exitFlags, running, calls, started, twice,
                     inMultiThreadedSection>>
  BY DEF DoTask
<1>2. f \in Frame /\ f.group = g /\ f.at = "loop" /\ ~Owns(f) /\ ~Running(f)
  BY NewFrames DEF IInv
<1> HIDE DEF f
<1>3. w \in Threads /\ w # Main
  BY PoolAssumption DEF Threads
<1>4. Framed'
  BY <1>1, <1>2, <1>3, CallFramed DEF IInv, SameUse, In
<1>5. SameRuns /\ SameEnqueues
  BY <1>1, <1>2, <1>3, CallAt DEF IInv, Framed, SameEnqueues
<1>6. queue' \in [Workers -> [Groups -> Nat]]
  <2>1. queue \in [Workers -> [Groups -> Nat]] /\ queue[w][g] > 0
    BY DEF DoTask, IInv, TypeOK
  <2>2. queue[w][g] \in Nat /\ queue[w][g] - 1 \in Nat
    BY <2>1
  <2> QED BY <1>1, <2>1, <2>2
<1>7. TypeOK'
  BY <1>1, <1>4, <1>6 DEF IInv, TypeOK, Framed, Stacked
<1> QED BY <1>1, <1>4, <1>5, <1>7, Quiet

(* Nothing but variables that the frames do not depend on. *)
LEMMA StackSame ==
  ASSUME IInv, UNCHANGED <<stack, background, group, started, twice>>,
         exitFlags' => ~Busy(Main), TypeOK'
  PROVE  IInv'
<1>1. SameRuns /\ SameEnqueues
  BY DEF SameRuns, SameEnqueues, RunAt, EnqueueAt, Depth
<1>2. Shapes' /\ Owners' /\ OneOwner'
  BY DEF IInv, Framed, Shapes, Shape, Owners, Owner, Caller, OneOwner, Depth
<1>3. Framed'
  BY <1>2, TypeStacked DEF IInv, Framed, Held, Stacked, Busy
<1> QED BY <1>1, <1>3, Quiet

(* The workers are told to exit, are started again, and exit.                *)
LEMMA KillKeeps == ASSUME IInv, KillThreads PROVE IInv'
<1>1. TypeOK'
  <2>1. calls \in 0..MaxCalls /\ calls' = calls + 1 /\ calls < MaxCalls /\ MaxCalls \in Nat
    BY PoolAssumption DEF KillThreads, IInv, TypeOK
  <2>2. calls' \in 0..MaxCalls
    BY <2>1
  <2> QED BY <2>2 DEF KillThreads, IInv, TypeOK
<1> QED BY <1>1, StackSame DEF KillThreads, MainIsFree

LEMMA SpawnKeeps == ASSUME IInv, SpawnThreads PROVE IInv'
<1>1. TypeOK'
  BY DEF SpawnThreads, IInv, TypeOK
<1> QED BY <1>1, StackSame DEF SpawnThreads

LEMMA ExitKeeps == ASSUME IInv, NEW w \in Workers, Exit(w) PROVE IInv'
<1>1. TypeOK'
  BY DEF Exit, IInv, TypeOK
<1> QED BY <1>1, StackSame DEF Exit, IInv, Framed, Held

(* The main thread waits for a background loop.                              *)
LEMMA WaitForKeeps == ASSUME IInv, WaitForMtBackground PROVE IInv'
<1> DEFINE f == Loop(background, TRUE, FALSE)
<1>1. /\ ~Busy(Main) /\ ~exitFlags /\ background # NoGroup /\ Call(Main, f)
      /\ background' = NoGroup
      /\ inMultiThreadedSection' = [inMultiThreadedSection EXCEPT ![Main] = TRUE]
      /\ UNCHANGED <<group, queue, exitFlags, running, calls, started, twice>>
  BY DEF WaitForMtBackground, MainIsFree, EnterSection
<1>2. background \in Background /\ group[background].inUse /\ background \in Groups
  BY <1>1 DEF IInv, Framed, Held, Groups
<1>3. f \in Frame /\ f.group = background /\ f.at = "loop" /\ Owns(f) /\ ~Running(f)
  BY <1>2, NewFrames DEF IInv
<1> HIDE DEF f
<1>4. Main \in Threads
  BY DEF Threads
<1>5. \A s \in Threads : \A n \in Depth(s) :
        stack[s][n].group = background => ~Owns(stack[s][n])
  <2> SUFFICES ASSUME NEW s \in Threads, NEW n \in Depth(s),
                      stack[s][n].group = background, Owns(stack[s][n])
               PROVE  FALSE
    OBVIOUS
  <2>1. Caller(s, n)
    BY DEF IInv, Framed, Owners, Owner
  <2>2. s = Main /\ n = 1
    BY <1>2, <2>1, PoolAssumption DEF Caller
  <2> QED BY <1>1, <2>2, FrameType DEF IInv, Framed, Depth
<1>6. \A g \in Outer : ~group[g].inUse
  BY <1>1 DEF IInv, Framed, Held
<1>7. background # NoGroup /\ background' # f.group /\ f.at # "wait" /\ f.at # "enqueue"
  BY <1>1, <1>3
<1>8. Framed'
  <2>1. SameUse
    BY <1>1 DEF SameUse
  <2> QED BY <1>1, <1>2, <1>3, <1>4, <1>5, <1>6, <1>7, <2>1, CallFramed DEF IInv, SameUse
<1>9. SameRuns /\ SameEnqueues
  BY <1>1, <1>3, <1>4, CallAt DEF IInv, Framed, SameEnqueues
<1>10. TypeOK'
  <2>1. inMultiThreadedSection' \in [Threads -> BOOLEAN]
    BY <1>1 DEF IInv, TypeOK
  <2> QED BY <1>1, <1>8, <2>1 DEF IInv, TypeOK, Framed, Stacked
<1> QED BY <1>1, <1>8, <1>9, <1>10, Quiet

(* ExecuteLoop is left. *)
LEMMA LeaveKeeps ==
  ASSUME IInv, NEW t \in Threads, Busy(t), Top(t).at \in {"loop", "leave"}, LeaveLoop(t),
         UNCHANGED <<background, exitFlags, running, calls, started, twice,
                     inMultiThreadedSection>>
  PROVE  IInv'
<1> DEFINE p == Top(t)
           g == p.group
<1>1. /\ p \in Frame /\ g \in Groups /\ ~Running(p) /\ (Owns(p) <=> p.wff) /\ p.wff \in BOOLEAN
      /\ p.at # "enqueue" /\ p.again \in BOOLEAN
  BY TopIs DEF IInv, Framed, Frame, Owns, Running
<1>2. CASE p.wff
  <2> DEFINE f == [p EXCEPT !.at = "wait"]
  <2>1. Become(t, f) /\ group' = [group EXCEPT ![g].inTaskQueue = FALSE] /\ UNCHANGED queue
    BY <1>2 DEF LeaveLoop
  <2>2. /\ f \in Frame /\ f.group = g /\ f.at = "wait" /\ f.wff /\ Owns(f) /\ ~Running(f)
    BY <1>1, <1>2 DEF Frame, Owns, Running
  <2> HIDE DEF f
  <2>3. /\ \A h \in Groups :
             /\ group'[h].ctr = group[h].ctr /\ group'[h].loop = group[h].loop
             /\ group'[h].remainingTasks = group[h].remainingTasks
             /\ group'[h].inUse = group[h].inUse
        /\ group' \in [Groups -> Fields]
    BY <2>1 DEF IInv, TypeOK, Fields
  <2>4. background # g
    <3>1. Owner(t, Len(stack[t])) /\ stack[t][Len(stack[t])] = p
      BY TopIs DEF IInv, Framed, Owners
    <3> QED BY <1>1, <1>2, <3>1 DEF Owner
  <2>5. Framed'
    BY <1>1, <1>2, <2>1, <2>2, <2>3, <2>4, BecomeFramed DEF IInv, SameUse
  <2>6. SameRuns /\ SameEnqueues
    BY <1>1, <2>1, <2>2, BecomeQuiet, BecomeEnqueued DEF IInv, Framed
  <2>7. Counted' /\ OneRunner'
    BY <2>3, <2>5, <2>6, CountedStays DEF IInv, Framed, SameUse
  <2>8. TypeOK'
    BY <2>1, <2>3, <2>5 DEF IInv, TypeOK, Framed, Stacked, Fields
  <2> QED BY <2>5, <2>7, <2>8 DEF IInv
<1>3. CASE ~p.wff
  <2>1. /\ Return(t) /\ UNCHANGED group
        /\ queue' = IF p.again THEN [queue EXCEPT ![t][g] = @ + 1] ELSE queue
    BY <1>3 DEF LeaveLoop
  <2>2. Framed'
    BY <1>1, <1>3, <2>1, ReturnFramed DEF IInv, SameUse
  <2>3. SameRuns /\ SameEnqueues
    BY <1>1, <2>1, ReturnQuiet DEF IInv, Framed
  <2>4. queue' \in [Workers -> [Groups -> Nat]]
    <3>1. queue \in [Workers -> [Groups -> Nat]]
      BY DEF IInv, TypeOK
    <3>2. CASE t \in Workers /\ p.again
      <4>1. queue[t][g] \in Nat /\ queue' = [queue EXCEPT ![t][g] = @ + 1]
        BY <1>1, <2>1, <3>1, <3>2
      <4> QED BY <1>1, <3>1, <3>2, <4>1
    <3>3. CASE t \notin Workers /\ p.again
      <4>1. queue' = queue
        BY <2>1, <3>1, <3>3
      <4> QED BY <3>1, <4>1
    <3> QED BY <2>1, <3>1, <3>2, <3>3
  <2>5. TypeOK'
    BY <2>1, <2>2, <2>4 DEF IInv, TypeOK, Framed, Stacked
  <2> QED BY <2>1, <2>2, <2>3, <2>5, Quiet
<1> QED BY <1>1, <1>2, <1>3

LEMMA NoIndexLeftKeeps == ASSUME IInv, NEW t \in Threads, NoIndexLeft(t) PROVE IInv'
  BY LeaveKeeps DEF NoIndexLeft, In

LEMMA LeaveBackgroundKeeps == ASSUME IInv, NEW t \in Threads, LeaveBackground(t) PROVE IInv'
  BY LeaveKeeps DEF LeaveBackground, In

--------------------------------------------------------------------------------
(* Steps that change a group's account.                                      *)

(* A group that no call holds is not being enqueued. *)
LEMMA NotEnqueued ==
  ASSUME IInv, NEW g \in Groups, ~group[g].inUse
  PROVE  ~Enqueued(g) /\ UnderWay(g)
<1>1. ~Enqueued(g)
  BY DEF IInv, Framed, Owners, Owner, Owns, Enqueued
<1> QED BY <1>1 DEF IInv, Counted, CountedOf

(* What runs and what is enqueued, when no frame says otherwise.             *)
LEMMA RunsStay ==
  ASSUME Stacked, Stacked', SameRuns
  PROVE  \A g, i : Runs(g, i)' <=> Runs(g, i)
  BY RunsMeans, RunsThen DEF SameRuns

LEMMA EnqueuedStays ==
  ASSUME SameEnqueues
  PROVE  \A g : Enqueued(g)' <=> Enqueued(g)
<1>1. \A g : Enqueued(g) <=> \E t \in Threads : \E n, l : EnqueueAt(t, n, g, l)
  BY DEF Enqueued, EnqueueAt
<1>2. \A g : Enqueued(g)' <=> \E t \in Threads : \E n, l : EnqueueAt(t, n, g, l)'
  BY DEF Enqueued, EnqueueAt
<1> QED BY <1>1, <1>2 DEF SameEnqueues

AlsoEnqueued(t, m, g, l) == \A s \in Threads : \A n, h, k :
  EnqueueAt(s, n, h, k)' <=> EnqueueAt(s, n, h, k) \/ (s = t /\ n = m /\ h = g /\ k = l)

(* for_mt takes a task group: nothing of its last use goes on. *)
LEMMA Taken ==
  ASSUME IInv, Framed', NEW g \in Groups, NEW l \in Loops, GetTaskGroup(g, l), UNCHANGED twice,
         SameRuns, NEW t \in Threads, NEW m, AlsoEnqueued(t, m, g, l)
  PROVE  Counted' /\ OneRunner'
<1>1. /\ ~group[g].inUse
      /\ group' = [group EXCEPT ![g] =
           [@ EXCEPT !.inUse = TRUE, !.ctr = 0, !.remainingTasks = NumTasks(l),
                     !.inTaskQueue = TRUE]]
      /\ started' = [started EXCEPT ![g] = {}]
  BY DEF GetTaskGroup
<1>2. /\ group'[g].inUse /\ group'[g].ctr = 0 /\ group'[g].remainingTasks = NumTasks(l)
      /\ started'[g] = {}
      /\ \A h \in Groups : h # g => group'[h] = group[h] /\ started'[h] = started[h]
  BY <1>1 DEF IInv, TypeOK
<1>3. \A i \in Int : ~Runs(g, i)
  BY <1>1, NotEnqueued DEF UnderWay
<1>4. CountedOf(g)'
  <2>1. EnqueueAt(t, m, g, l)'
    BY DEF AlsoEnqueued
  <2>2. Enqueued(g)'
    BY <2>1 DEF EnqueueAt, Enqueued
  <2>3. \A s \in Threads : \A n \in Depth(s)' :
          stack'[s][n].at = "enqueue" /\ stack'[s][n].group = g => stack'[s][n].loop = l
    <3> SUFFICES ASSUME NEW s \in Threads, NEW n \in Depth(s)',
                        stack'[s][n].at = "enqueue", stack'[s][n].group = g
                 PROVE  stack'[s][n].loop = l
      OBVIOUS
    <3>1. PICK k : k = stack'[s][n].loop
      OBVIOUS
    <3>2. EnqueueAt(s, n, g, k)'
      BY <3>1 DEF EnqueueAt
    <3>3. ~EnqueueAt(s, n, g, k)
      BY <1>1, NotEnqueued DEF EnqueueAt, Enqueued
    <3> QED BY <3>1, <3>2, <3>3 DEF AlsoEnqueued
  <2>4. \A i \in Int : ~Runs(g, i)'
    BY <1>3, RunsStay DEF IInv, Framed
  <2>5. Fresh(g)'
    BY <1>2, <2>3, <2>4 DEF Fresh
  <2> QED BY <2>2, <2>5 DEF CountedOf
<1>5. ASSUME NEW h \in Groups, h # g PROVE CountedOf(h)'
  <2>1. Stacked /\ Stacked' /\ CountedOf(h) /\ group'[h] = group[h] /\ started'[h] = started[h]
    BY <1>2, <1>5 DEF IInv, Framed, Counted
  <2> QED BY <1>5, <2>1, GroupStays DEF SameRuns, AlsoEnqueued
<1> QED BY <1>4, <1>5, RunnersStay DEF Counted, IInv

(* The fields of a group that has been taken.                                *)
LEMMA TakenType ==
  ASSUME IInv, NEW g \in Groups, NEW l \in Loops, GetTaskGroup(g, l)
  PROVE  /\ group' \in [Groups -> Fields]
         /\ started' \in [Groups -> SUBSET Int]
         /\ ~group[g].inUse /\ group'[g].inUse
         /\ \A h \in Groups : h # g => (group'[h].inUse <=> group[h].inUse)
         /\ \A s \in Threads : \A n \in Depth(s) : stack[s][n].group = g => ~Owns(stack[s][n])
<1>1. NumTasks(l) \in Nat
  BY LoopType
<1>2. ~group[g].inUse
  BY DEF GetTaskGroup
<1>3. \A s \in Threads : \A n \in Depth(s) : stack[s][n].group = g => ~Owns(stack[s][n])
  BY <1>2 DEF IInv, Framed, Owners, Owner
<1> QED BY <1>1, <1>2, <1>3 DEF GetTaskGroup, IInv, TypeOK, Fields

(* for_mt and for_mt_background called by the main thread,                   *)
LEMMA NewCallKeeps ==
  ASSUME IInv, NEW g \in Outer \cup Background, NEW l \in Loops,
         ForMt(g, l) \/ ForMtBackground(g, l)
  PROVE  IInv'
<1> DEFINE f == NewCall(g, l)
<1>1. /\ ~Busy(Main) /\ ~exitFlags /\ calls < MaxCalls /\ calls' = calls + 1
      /\ GetTaskGroup(g, l) /\ Call(Main, f)
      /\ background' = background \/ (background' = g /\ g \in Background)
      /\ UNCHANGED <<queue, exitFlags, running, twice>>
  BY DEF ForMt, ForMtBackground, MainIsFree
<1>2. g \in Groups /\ Main \in Threads
  BY DEF Groups, Threads
<1>3. /\ f \in Frame /\ f.group = g /\ f.loop = l /\ f.at = "enqueue" /\ Owns(f) /\ ~Running(f)
  BY <1>2, NewFrames DEF IInv
<1> HIDE DEF f
<1>4. Framed'
  <2>1. /\ Framed /\ f.at # "wait" /\ (f.at = "enqueue" => f.loop \in Loops)
        /\ (Busy(Main) => Top(Main).at \in {"tail", "wait"})
        /\ f.group \in Outer \cup Background /\ UNCHANGED exitFlags
    BY <1>1, <1>3 DEF IInv
  <2>2. /\ background' = background \/ background' = NoGroup
             \/ (background' = f.group /\ f.group \in Background /\ f.at = "enqueue")
        /\ f.at = "enqueue" \/ background' # f.group
    BY <1>1, <1>3
  <2>3. /\ group'[f.group].inUse
        /\ \A h \in Groups : h # f.group => (group'[h].inUse <=> group[h].inUse)
        /\ \A s \in Threads : \A n \in Depth(s) :
             stack[s][n].group = f.group => ~Owns(stack[s][n])
    BY <1>1, <1>2, <1>3, TakenType
  <2>4. /\ Main = Main /\ ~Busy(Main) /\ ~exitFlags /\ f.group \in Outer \cup Background
        /\ group'[f.group].inUse /\ Owns(f)
        /\ f.at = "enqueue" \/ background' # f.group
        /\ \A s \in Threads : \A n \in Depth(s) :
             stack[s][n].group = f.group => ~Owns(stack[s][n])
        /\ \A h \in Outer : ~group[h].inUse
    <3>1. \A h \in Outer : ~group[h].inUse
      BY <1>1 DEF IInv, Framed, Held
    <3> QED BY <1>1, <1>3, <2>1, <2>2, <2>3, <3>1
  <2>5. Main \in Threads /\ f \in Frame /\ Call(Main, f)
    BY <1>1, <1>2, <1>3
  <2> HIDE DEF f
  <2> QED BY <2>1, <2>2, <2>3, <2>4, <2>5, CallFramed
<1>5. PICK m : m = Len(stack[Main]) + 1
  OBVIOUS
<1>6. SameRuns /\ AlsoEnqueued(Main, m, g, l)
  BY <1>1, <1>2, <1>3, <1>5, CallAt DEF IInv, Framed, AlsoEnqueued
<1>7. Counted' /\ OneRunner'
  BY <1>1, <1>2, <1>4, <1>6, Taken
<1>8. TypeOK'
  <2>1. calls' \in 0..MaxCalls
    <3>1. calls \in 0..MaxCalls /\ MaxCalls \in Nat
      BY PoolAssumption DEF IInv, TypeOK
    <3> QED BY <1>1, <3>1
  <2>2. inMultiThreadedSection' \in [Threads -> BOOLEAN]
    BY DEF IInv, TypeOK, ForMt, ForMtBackground, EnterSection
  <2>3. background' \in Groups \cup {NoGroup}
    BY <1>1, <1>2 DEF IInv, TypeOK
  <2> QED BY <1>1, <1>2, <1>4, <2>1, <2>2, <2>3, TakenType DEF IInv, TypeOK, Framed, Stacked, Fields
<1> QED BY <1>1, <1>4, <1>7, <1>8 DEF IInv

(* and for_mt called in a function.                                          *)
LEMMA ForMtNestedKeeps ==
  ASSUME IInv, NEW t \in Threads, NEW g \in Groups, NEW l \in Loops, ForMtNested(t, g, l)
  PROVE  IInv'
<1> DEFINE f == NewCall(g, l)
           e == [Top(t) EXCEPT !.at = "tail"]
<1>1. /\ In(t, "func") /\ Top(t).group \in Outer /\ g \in Inner /\ GetTaskGroup(g, l)
      /\ stack' = [stack EXCEPT ![t] = Below(t) \o <<e, f>>]
      /\ inMultiThreadedSection' = [inMultiThreadedSection EXCEPT ![t] = TRUE]
      /\ UNCHANGED <<queue, background, exitFlags, running, calls, twice>>
  BY DEF ForMtNested, CallsForMt, EnterSection
<1>2. f \in Frame /\ f.group = g /\ f.loop = l /\ f.at = "enqueue" /\ Owns(f) /\ ~Running(f)
  BY NewFrames DEF IInv
<1>3. Top(t) \in Frame
  BY <1>1, TopIs DEF IInv, Framed, In
<1>4. e.at = "tail" /\ e.group = Top(t).group /\ e.index = Top(t).index
  BY <1>3 DEF Frame
<1> HIDE DEF f
<1>5. Framed' /\ e \in Frame
  BY <1>1, <1>2, TakenType, NestedFramed DEF IInv
<1> HIDE DEF e
<1>6. PICK m : m = Len(stack[t]) + 1
  OBVIOUS
<1>7. SameRuns /\ AlsoEnqueued(t, m, g, l)
  <2>1. /\ Stacked /\ Busy(t) /\ Top(t).at = "func" /\ f \in Frame /\ ~Running(f) /\ e \in Frame
        /\ e.at = "tail" /\ e.group = Top(t).group /\ e.index = Top(t).index
        /\ stack' = [stack EXCEPT ![t] = Below(t) \o <<e, f>>]
    BY <1>1, <1>2, <1>4, <1>5 DEF IInv, Framed, In
  <2>2. /\ SameRuns
        /\ \A s \in Threads : \A n, h, k : EnqueueAt(s, n, h, k)'
             <=> \/ EnqueueAt(s, n, h, k)
                 \/ /\ s = t /\ n = Len(stack[t]) + 1
                    /\ f.at = "enqueue" /\ f.group = h /\ f.loop = k
    <3>1. Split(t, e, f)
      BY <2>1 DEF Split
    <3> QED BY <2>1, <3>1, NestedAt
  <2> QED BY <1>2, <1>6, <2>2 DEF AlsoEnqueued
<1>8. Counted' /\ OneRunner'
  BY <1>1, <1>5, <1>7, Taken
<1>9. TypeOK'
  <2>1. inMultiThreadedSection' \in [Threads -> BOOLEAN]
    BY <1>1 DEF IInv, TypeOK
  <2> QED BY <1>1, <1>5, <2>1, TakenType DEF IInv, TypeOK, Framed, Stacked, Fields
<1> QED BY <1>1, <1>5, <1>8, <1>9 DEF IInv

(* The loop is written: the account opens with all tasks pending. *)
LEMMA EnqueueKeeps == ASSUME IInv, NEW t \in Threads, Enqueue(t) PROVE IInv'
<1>0. PICK p, g, l, m : p = Top(t) /\ g = p.group /\ l = p.loop /\ m = Len(stack[t])
  OBVIOUS
<1> DEFINE f == [p EXCEPT !.at = "push"]
<1>1. /\ Busy(t) /\ p.at = "enqueue" /\ Become(t, f)
      /\ group' = [group EXCEPT ![g].loop = l]
      /\ UNCHANGED <<queue, background, exitFlags, running, calls, started, twice,
                     inMultiThreadedSection>>
  BY <1>0 DEF Enqueue, In
<1>2. /\ m \in Depth(t) /\ stack[t][m] = p /\ p \in Frame /\ g \in Groups
      /\ p.group = g /\ p.loop = l
  BY <1>0, <1>1, TopIs DEF IInv, Framed, Frame
<1>3. l \in Loops
  BY <1>0, <1>1, <1>2 DEF IInv, Framed, Shapes, Shape
<1>4. /\ f \in Frame /\ f.group = g /\ f.at = "push" /\ Owns(f) /\ Owns(p) /\ ~Running(f)
      /\ ~Running(p) /\ f.loop = l
  BY <1>0, <1>1, <1>2 DEF Frame, Owns, Running
<1> HIDE DEF f
<1>5. /\ group' \in [Groups -> Fields]
      /\ group'[g].loop = l /\ group'[g].ctr = group[g].ctr
      /\ group'[g].remainingTasks = group[g].remainingTasks
      /\ \A h \in Groups : group'[h].inUse = group[h].inUse /\ (h # g => group'[h] = group[h])
  <2>1. group \in [Groups -> Fields]
    BY GroupsTyped DEF IInv
  <2>2. group'[g] = [group[g] EXCEPT !.loop = l] /\ \A h \in Groups : h # g => group'[h] = group[h]
    BY <1>1, <1>2, <2>1
  <2>3. group'[g] \in Fields
    BY <1>2, <1>3, <2>1, <2>2 DEF Fields
  <2> QED BY <1>1, <1>2, <1>3, <2>1, <2>2, <2>3 DEF Fields
<1>6. Framed'
  BY <1>0, <1>1, <1>4, <1>5, BecomeFramed DEF IInv, SameUse
<1>7. SameRuns
  BY <1>0, <1>1, <1>4, BecomeQuiet DEF IInv, Framed
<1>8. TypeOK'
  BY <1>1, <1>5, <1>6 DEF IInv, TypeOK, Framed, Stacked, Fields
<1>9. \A s \in Threads : \A n, h, k :
        EnqueueAt(s, n, h, k)' <=> EnqueueAt(s, n, h, k) /\ ~(s = t /\ n = m)
  <2> SUFFICES ASSUME NEW s \in Threads, NEW n, NEW h, NEW k
               PROVE  EnqueueAt(s, n, h, k)' <=> EnqueueAt(s, n, h, k) /\ ~(s = t /\ n = m)
    OBVIOUS
  <2>1. CASE s = t /\ n = m
    BY <1>0, <1>1, <1>4, <2>1, BecomeAt DEF IInv, Framed
  <2>2. CASE ~(s = t /\ n = m)
    BY <1>0, <1>1, <1>4, <2>2, BecomeAt DEF IInv, Framed
  <2> QED BY <2>1, <2>2
<1>10. Enqueued(g) /\ Fresh(g)
  <2>1. Enqueued(g)
    BY <1>1, <1>2 DEF Enqueued
  <2> QED BY <1>2, <2>1 DEF IInv, Counted, CountedOf
<1>11. ~Enqueued(g)'
  <2> SUFFICES ASSUME Enqueued(g)' PROVE FALSE
    OBVIOUS
  <2>0. PICK s \in Threads : \E n \in Depth(s)' :
          stack'[s][n].at = "enqueue" /\ stack'[s][n].group = g
    BY DEF Enqueued
  <2>1. PICK n, k : EnqueueAt(s, n, g, k)'
    BY <2>0 DEF EnqueueAt
  <2>2. EnqueueAt(s, n, g, k) /\ ~(s = t /\ n = m)
    BY <1>9, <2>1
  <2>3. n \in Depth(s) /\ Owns(stack[s][n]) /\ stack[s][n].group = stack[t][m].group
    BY <1>2, <2>2 DEF EnqueueAt, Owns
  <2> QED BY <1>2, <1>4, <2>2, <2>3 DEF IInv, Framed, OneOwner
<1>12. UnderWay(g)'
  <2>1. NumTasks(l) \in Nat
    BY <1>3, LoopType
  <2>2. /\ group'[g].inUse /\ group'[g].ctr = 0 /\ started'[g] = {}
        /\ group'[g].remainingTasks = NumTasks(l)
    BY <1>1, <1>2, <1>5, <1>10 DEF Fresh
  <2>3. \A i \in Int : ~Runs(g, i)'
    <3>1. \A i : Runs(g, i)' <=> Runs(g, i)
      BY <1>6, <1>7, RunsStay DEF IInv, Framed
    <3> QED BY <1>10, <3>1 DEF Fresh
  <2>4. Begun(l, 0) = {}
    BY DEF Begun
  <2>5. Pending(g)' = 0..(NumTasks(l) - 1)
    BY <1>5, <2>1, <2>2 DEF Pending
  <2>6. Cardinality(0..(NumTasks(l) - 1)) = NumTasks(l)
    BY <2>1, FS_Interval
  <2> QED BY <1>5, <2>1, <2>2, <2>3, <2>4, <2>5, <2>6 DEF UnderWay
<1>13. CountedOf(g)'
  BY <1>11, <1>12 DEF CountedOf
<1>14. ASSUME NEW h \in Groups, h # g PROVE CountedOf(h)'
  <2>1. /\ Stacked /\ Stacked' /\ CountedOf(h) /\ group'[h] = group[h] /\ started'[h] = started[h]
    BY <1>1, <1>5, <1>6, <1>14 DEF IInv, Framed, Counted
  <2>2. \A s \in Threads : \A n, k : EnqueueAt(s, n, h, k)' <=> EnqueueAt(s, n, h, k)
    <3>1. \A k : ~EnqueueAt(t, m, h, k)
      BY <1>2, <1>14 DEF EnqueueAt
    <3> QED BY <1>9, <3>1
  <2> QED BY <1>7, <2>1, <2>2, GroupStays DEF SameRuns
<1>15. Counted' /\ OneRunner'
  BY <1>7, <1>13, <1>14, RunnersStay DEF Counted, IInv
<1> QED BY <1>1, <1>6, <1>8, <1>15 DEF IInv

(* No worker looks at a group that is being enqueued. *)
LEMMA Looked ==
  ASSUME IInv, ~Torn, NEW t \in Threads, In(t, "loop"), MayLook(t)
  PROVE  ~Enqueued(Top(t).group)
<1> SUFFICES ASSUME NEW s \in Threads, NEW n \in Depth(s), stack[s][n].at = "enqueue",
                    stack[s][n].group = Top(t).group
             PROVE  FALSE
  BY DEF Enqueued
<1>1. Shape(s, n) /\ Len(stack[s]) \in Nat /\ (Busy(s) <=> Len(stack[s]) # 0)
  BY FrameType DEF IInv, Framed, Shapes
<1>2. n = Len(stack[s]) /\ Busy(s)
  BY <1>1 DEF Shape, Depth
<1>3. In(s, "enqueue") /\ Top(s).group = Top(t).group
  BY <1>2 DEF In, Top
<1> QED BY <1>3 DEF MayLook

(* A loop or a function goes on in the same group. *)
LEMMA LoopGoesOn ==
  ASSUME IInv, NEW t \in Threads, Busy(t), Top(t).at \in {"loop", "func", "tail"},
         NEW f \in Frame, Become(t, f), f.at \in {"func", "loop", "leave"},
         f.group = Top(t).group, f.wff = Top(t).wff, SameUse,
         UNCHANGED <<background, exitFlags>>
  PROVE  Framed' /\ SameEnqueues
<1>1. /\ Owns(f) <=> Owns(Top(t))
      /\ f.at # "enqueue" /\ f.at # "wait" /\ Top(t).at # "enqueue"
  BY DEF Owns
<1>2. Owns(f) => background # f.group
  <2>1. Owner(t, Len(stack[t])) /\ stack[t][Len(stack[t])] = Top(t)
    BY TopIs DEF IInv, Framed, Owners
  <2> QED BY <1>1, <2>1 DEF Owner
<1>3. Framed'
  BY <1>1, <1>2, BecomeFramed DEF IInv
<1> QED BY <1>1, <1>3, BecomeEnqueued DEF IInv, Framed

(* ExecuteStep: the counter's value is an index that nobody has begun. *)
LEMMA TakeIndexKeeps == ASSUME IInv, ~Torn, NEW t \in Threads, TakeIndex(t) PROVE IInv'
<1>0. PICK p, g, m, lp, c, i :
        /\ p = Top(t) /\ g = p.group /\ m = Len(stack[t])
        /\ lp = group[g].loop /\ c = group[g].ctr /\ i = lp.from + lp.step * c
  OBVIOUS
<1> DEFINE f == [p EXCEPT !.at = "func", !.index = i]
<1>1. /\ Busy(t) /\ p.at = "loop" /\ i < lp.to /\ Become(t, f)
      /\ group' = [group EXCEPT ![g].ctr = @ + 1]
      /\ twice' = (twice \/ i \in started[g])
      /\ started' = [started EXCEPT ![g] = @ \cup {i}]
      /\ UNCHANGED <<queue, background, exitFlags, running, calls, inMultiThreadedSection>>
  BY <1>0 DEF TakeIndex, In
<1>2. m \in Depth(t) /\ stack[t][m] = p /\ p \in Frame /\ g \in Groups /\ p.group = g
  BY <1>0, <1>1, TopIs DEF IInv, Framed, Frame
<1>3. /\ Long(lp) /\ NumTasks(lp) \in Nat /\ c \in Nat
  BY <1>0, <1>2, GroupType DEF IInv
<1>4. i \in Int /\ c < NumTasks(lp)
  BY <1>0, <1>1, <1>3, BeforeEnd
<1>5. ~Enqueued(g) /\ UnderWay(g)
  <2>1. ~Enqueued(g)
    BY <1>0, Looked DEF TakeIndex
  <2> QED BY <1>2, <2>1 DEF IInv, Counted, CountedOf
<1>6. /\ started[g] = Begun(lp, c) /\ i \notin started[g] /\ ~Runs(g, i) /\ group[g].inUse
  <2>1. i \notin Begun(lp, c)
    <3> SUFFICES ASSUME NEW k \in 0..(c - 1), i = lp.from + lp.step * k PROVE FALSE
      BY DEF Begun
    <3> QED BY <1>0, <1>3, Distinct
  <2> QED BY <1>0, <1>3, <1>4, <1>5, <2>1 DEF UnderWay
<1>7. /\ f \in Frame /\ f.group = g /\ f.at = "func" /\ f.index = i /\ f.wff = p.wff
      /\ Running(f) /\ ~Running(p)
  BY <1>1, <1>2, <1>4 DEF Frame, Running
<1> HIDE DEF f
<1>8. /\ group' \in [Groups -> Fields]
      /\ group'[g].loop = lp /\ group'[g].ctr = c + 1
      /\ group'[g].remainingTasks = group[g].remainingTasks
      /\ \A h \in Groups : group'[h].inUse = group[h].inUse /\ (h # g => group'[h] = group[h])
      /\ started' \in [Groups -> SUBSET Int] /\ started'[g] = started[g] \cup {i}
      /\ \A h \in Groups : h # g => started'[h] = started[h]
  <2>1. group \in [Groups -> Fields]
        /\ started \in [Groups -> SUBSET Int]
    BY GroupsTyped DEF IInv, TypeOK
  <2>2. /\ group'[g] = [group[g] EXCEPT !.ctr = c + 1]
        /\ \A h \in Groups : h # g => group'[h] = group[h]
    BY <1>0, <1>1, <1>2, <2>1
  <2>3. /\ group'[g] \in Fields
        /\ group'[g].loop = lp /\ group'[g].ctr = c + 1 /\ group'[g].inUse = group[g].inUse
        /\ group'[g].remainingTasks = group[g].remainingTasks
    <3>1. group[g] \in Fields /\ c + 1 \in Nat
      BY <1>2, <1>3, <2>1
    <3> QED BY <1>0, <2>2, <3>1, CtrSet
  <2> QED BY <1>1, <1>2, <1>4, <2>1, <2>2, <2>3
<1>9. Framed' /\ SameEnqueues
  BY <1>0, <1>1, <1>7, <1>8, LoopGoesOn DEF SameUse
<1>10. TypeOK' /\ ~twice'
  BY <1>1, <1>6, <1>8, <1>9 DEF IInv, TypeOK, Framed, Stacked, Fields
<1>11. \A s \in Threads : \A n, h, j :
         RunAt(s, n, h, j)' <=> RunAt(s, n, h, j) \/ (s = t /\ n = m /\ h = g /\ j = i)
  <2> SUFFICES ASSUME NEW s \in Threads, NEW n, NEW h, NEW j
               PROVE  RunAt(s, n, h, j)' <=>
                        RunAt(s, n, h, j) \/ (s = t /\ n = m /\ h = g /\ j = i)
    OBVIOUS
  <2>1. CASE s = t /\ n = m
    <3>1. RunAt(s, n, h, j)' <=> h = g /\ j = i
      BY <1>0, <1>1, <1>7, <2>1, BecomeAt DEF IInv, Framed
    <3>2. ~RunAt(s, n, h, j)
      BY <1>2, <1>7, <2>1 DEF RunAt
    <3> QED BY <2>1, <3>1, <3>2
  <2>2. CASE ~(s = t /\ n = m)
    BY <1>0, <1>1, <1>7, <2>2, BecomeAt DEF IInv, Framed
  <2> QED BY <2>1, <2>2
<1>12. \A h, j : Runs(h, j)' <=> Runs(h, j) \/ (h = g /\ j = i)
  <2>1. Stacked /\ Stacked'
    BY <1>9 DEF IInv, Framed
  <2>2. \A h, j : Runs(h, j)' <=> \E s \in Threads : \E n : RunAt(s, n, h, j)'
    BY <2>1, RunsThen
  <2>3. \A h, j : Runs(h, j) <=> \E s \in Threads : \E n : RunAt(s, n, h, j)
    BY <2>1, RunsMeans
  <2> QED BY <1>11, <2>2, <2>3
<1>13. OneRunner'
  <2> SUFFICES ASSUME NEW s \in Threads, NEW r \in Threads,
                      NEW n \in Depth(s)', NEW k \in Depth(r)',
                      Running(stack'[s][n]), Running(stack'[r][k]),
                      stack'[s][n].group = stack'[r][k].group,
                      stack'[s][n].index = stack'[r][k].index
               PROVE  s = r /\ n = k
    BY DEF OneRunner
  <2>0. PICK h, j : h = stack'[s][n].group /\ j = stack'[s][n].index
    OBVIOUS
  <2>1. RunAt(s, n, h, j)' /\ RunAt(r, k, h, j)'
    BY <2>0 DEF RunAt
  <2>2. CASE h = g /\ j = i
    <3>1. \A q \in Threads : \A a : ~RunAt(q, a, g, i)
      BY <1>6, RunsMeans DEF IInv, Framed
    <3> QED BY <1>11, <2>1, <2>2, <3>1
  <2>3. CASE ~(h = g /\ j = i)
    <3>1. RunAt(s, n, h, j) /\ RunAt(r, k, h, j)
      BY <1>11, <2>1, <2>3
    <3> QED BY <3>1 DEF IInv, OneRunner, RunAt
  <2> QED BY <2>2, <2>3
<1>14. UnderWay(g)'
  <2>1. Begun(lp, c + 1) = Begun(lp, c) \cup {i}
    BY <1>0, <1>3, BegunNext
  <2>2. Pending(g)' = Pending(g)
    <3>1. Pending(g) = {k \in 0..(NumTasks(lp) - 1) : k >= c \/ Runs(g, lp.from + lp.step * k)}
      BY <1>0 DEF Pending
    <3>2. Pending(g)' = {k \in 0..(NumTasks(lp) - 1) :
                           k >= c + 1 \/ Runs(g, lp.from + lp.step * k)'}
      BY <1>8 DEF Pending
    <3>3. ASSUME NEW k \in 0..(NumTasks(lp) - 1)
          PROVE  (k >= c + 1 \/ Runs(g, lp.from + lp.step * k)')
                   <=> (k >= c \/ Runs(g, lp.from + lp.step * k))
      <4>1. k \in Nat
        BY <1>3
      <4>2. lp.from + lp.step * k = i <=> k = c
        BY <1>0, <1>3, <4>1, Distinct
      <4> QED BY <1>3, <1>12, <4>1, <4>2
    <3> QED BY <3>1, <3>2, <3>3
  <2>3. \A j \in Int : Runs(g, j)' => j \in started'[g]
    BY <1>5, <1>8, <1>12 DEF UnderWay
  <2>4. /\ group'[g].ctr \in 0..NumTasks(group'[g].loop)
        /\ started'[g] = Begun(group'[g].loop, group'[g].ctr)
        /\ group'[g].remainingTasks = Cardinality(Pending(g)')
        /\ group'[g].inUse
    BY <1>2, <1>3, <1>4, <1>5, <1>6, <1>8, <2>1, <2>2 DEF UnderWay
  <2> QED BY <2>3, <2>4 DEF UnderWay
<1>15. CountedOf(g)'
  <2>1. ~Enqueued(g)'
    BY <1>5, <1>9, EnqueuedStays
  <2> QED BY <1>14, <2>1 DEF CountedOf
<1>16. ASSUME NEW h \in Groups, h # g PROVE CountedOf(h)'
  <2>1. /\ Stacked /\ Stacked' /\ CountedOf(h) /\ group'[h] = group[h] /\ started'[h] = started[h]
    BY <1>8, <1>9, <1>16 DEF IInv, Framed, Counted
  <2>2. \A s \in Threads : \A n, j : RunAt(s, n, h, j)' <=> RunAt(s, n, h, j)
    BY <1>11, <1>16
  <2> QED BY <1>9, <2>1, <2>2, GroupStays DEF SameEnqueues
<1> QED BY <1>9, <1>10, <1>13, <1>15, <1>16 DEF IInv, Counted

After(p, next) == [p EXCEPT !.at = next, !.index = 0]

(* The frame of a function that has returned.                                *)
LEMMA AfterFunction ==
  ASSUME NEW p \in Frame, NEW next \in {"loop", "leave"}
  PROVE  /\ After(p, next) \in Frame /\ After(p, next).group = p.group
         /\ After(p, next).at = next /\ After(p, next).wff = p.wff /\ ~Running(After(p, next))
<1>0. PICK i \in Int : i = 0
  OBVIOUS
<1> DEFINE f == [p EXCEPT !.at = next, !.index = i]
<1>1. f.at = next /\ f.group = p.group /\ f.wff = p.wff /\ f \in Frame
  BY DEF Frame
<1>2. After(p, next) = f
  BY <1>0 DEF After
<1> HIDE DEF f
<1> QED BY <1>1, <1>2 DEF Running

(* The function returns: one task is no longer pending. *)
LEMMA FunctionReturnsKeeps == ASSUME IInv, NEW t \in Threads, FunctionReturns(t) PROVE IInv'
<1>0. PICK p, g, m, lp, c, i, next :
        /\ p = Top(t) /\ g = p.group /\ m = Len(stack[t]) /\ i = p.index
        /\ lp = group[g].loop /\ c = group[g].ctr
        /\ next = IF g \in Background /\ t # Main THEN "leave" ELSE "loop"
  OBVIOUS
<1> DEFINE f == [p EXCEPT !.at = next, !.index = 0]
<1>1. /\ Busy(t) /\ p.at \in {"func", "tail"} /\ Become(t, f)
      /\ group' = [group EXCEPT ![g].remainingTasks = @ - 1]
      /\ UNCHANGED <<queue, background, exitFlags, running, calls, started, twice,
                     inMultiThreadedSection>>
  BY <1>0 DEF FunctionReturns, In
<1>2. /\ m \in Depth(t) /\ stack[t][m] = p /\ p \in Frame /\ g \in Groups /\ p.group = g
      /\ i \in Int
  BY <1>0, <1>1, TopIs DEF IInv, Framed, Frame
<1>3. /\ Long(lp) /\ NumTasks(lp) \in Nat /\ c \in Nat
  BY <1>0, <1>2, GroupType DEF IInv
<1>4. RunAt(t, m, g, i) /\ Runs(g, i)
  <2>1. RunAt(t, m, g, i)
    BY <1>0, <1>1, <1>2 DEF RunAt, Running
  <2> QED BY <2>1, RunsMeans DEF IInv, Framed
<1>5. ~Enqueued(g) /\ UnderWay(g)
  <2>1. ~Fresh(g)
    BY <1>2, <1>4 DEF Fresh
  <2> QED BY <1>2, <2>1 DEF IInv, Counted, CountedOf
<1>6. PICK k0 \in 0..(c - 1) : i = lp.from + lp.step * k0
  BY <1>0, <1>2, <1>4, <1>5 DEF UnderWay, Begun
<1>7. /\ f \in Frame /\ f.group = g /\ f.at \in {"loop", "leave"} /\ f.wff = p.wff
      /\ ~Running(f) /\ Running(p)
  <2>1. next \in {"loop", "leave"}
    BY <1>0
  <2>2. f = After(p, next)
    BY DEF After
  <2> HIDE DEF f
  <2>3. f \in Frame /\ f.group = p.group /\ f.at = next /\ f.wff = p.wff /\ ~Running(f)
    BY <1>2, <2>1, <2>2, AfterFunction
  <2> QED BY <1>1, <1>2, <2>1, <2>3 DEF Running
<1> HIDE DEF f
<1>8. /\ k0 \in Nat /\ k0 < c /\ c <= NumTasks(lp) /\ group[g].inUse
      /\ group[g].remainingTasks = Cardinality(Pending(g))
      /\ Pending(g) = {k \in 0..(NumTasks(lp) - 1) : k >= c \/ Runs(g, lp.from + lp.step * k)}
  BY <1>0, <1>2, <1>3, <1>4, <1>5, <1>6 DEF UnderWay, Pending
<1>9. /\ IsFiniteSet(Pending(g)) /\ k0 \in Pending(g)
      /\ Cardinality(Pending(g) \ {k0}) = group[g].remainingTasks - 1
      /\ group[g].remainingTasks - 1 \in Nat
  <2>1. IsFiniteSet(0..(NumTasks(lp) - 1)) /\ Pending(g) \in SUBSET (0..(NumTasks(lp) - 1))
    <3>1. IsFiniteSet(0..(NumTasks(lp) - 1))
      <4>1. 0 \in Int /\ NumTasks(lp) - 1 \in Int
        BY <1>3
      <4> QED BY <4>1, FS_Interval
    <3>2. Pending(g) \subseteq 0..(NumTasks(lp) - 1)
      BY <1>8
    <3> QED BY <3>1, <3>2
  <2>2. IsFiniteSet(Pending(g))
    BY <2>1, FS_Subset
  <2>3. k0 \in Pending(g)
    BY <1>3, <1>4, <1>6, <1>8
  <2>4. /\ IsFiniteSet(Pending(g) \ {k0})
        /\ Cardinality(Pending(g) \ {k0}) = Cardinality(Pending(g)) - 1
    BY <2>2, <2>3, FS_RemoveElement
  <2>5. Cardinality(Pending(g) \ {k0}) \in Nat
    BY <2>4, FS_CardinalityType
  <2> QED BY <1>8, <2>2, <2>3, <2>4, <2>5
<1>10. /\ group' \in [Groups -> Fields]
       /\ group'[g].loop = lp /\ group'[g].ctr = c
       /\ group'[g].remainingTasks = group[g].remainingTasks - 1
       /\ \A h \in Groups : group'[h].inUse = group[h].inUse /\ (h # g => group'[h] = group[h])
  <2>1. group \in [Groups -> Fields]
    BY GroupsTyped DEF IInv
  <2>2. PICK r : r = group[g].remainingTasks - 1
    OBVIOUS
  <2>3. /\ group'[g] = [group[g] EXCEPT !.remainingTasks = r]
        /\ \A h \in Groups : h # g => group'[h] = group[h]
    BY <1>1, <1>2, <2>1, <2>2
  <2>4. /\ group'[g] \in Fields
        /\ group'[g].loop = lp /\ group'[g].ctr = c /\ group'[g].inUse = group[g].inUse
        /\ group'[g].remainingTasks = r
    <3>1. group[g] \in Fields /\ r \in Nat
      BY <1>2, <1>9, <2>1, <2>2
    <3> QED BY <1>0, <2>3, <3>1, RemainingSet
  <2> QED BY <1>1, <1>2, <2>1, <2>2, <2>3, <2>4
<1>11. Framed' /\ SameEnqueues
  BY <1>0, <1>1, <1>7, <1>10, LoopGoesOn DEF SameUse
<1>12. TypeOK'
  BY <1>1, <1>10, <1>11 DEF IInv, TypeOK, Framed, Stacked, Fields
<1>13. \A s \in Threads : \A n, h, j :
         RunAt(s, n, h, j)' <=> RunAt(s, n, h, j) /\ ~(s = t /\ n = m)
  <2> SUFFICES ASSUME NEW s \in Threads, NEW n, NEW h, NEW j
               PROVE  RunAt(s, n, h, j)' <=> RunAt(s, n, h, j) /\ ~(s = t /\ n = m)
    OBVIOUS
  <2>1. CASE s = t /\ n = m
    BY <1>0, <1>1, <1>7, <2>1, BecomeAt DEF IInv, Framed
  <2>2. CASE ~(s = t /\ n = m)
    BY <1>0, <1>1, <1>7, <2>2, BecomeAt DEF IInv, Framed
  <2> QED BY <2>1, <2>2
<1>14. \A s \in Threads : \A n : RunAt(s, n, g, i) => s = t /\ n = m
  BY <1>4 DEF RunAt, IInv, OneRunner
<1>15. \A h, j : Runs(h, j)' <=> Runs(h, j) /\ ~(h = g /\ j = i)
  <2>1. Stacked /\ Stacked'
    BY <1>11 DEF IInv, Framed
  <2>2. \A h, j : Runs(h, j)' <=> \E s \in Threads : \E n : RunAt(s, n, h, j)'
    BY <2>1, RunsThen
  <2>3. \A h, j : Runs(h, j) <=> \E s \in Threads : \E n : RunAt(s, n, h, j)
    BY <2>1, RunsMeans
  <2>4. \A h, j : RunAt(t, m, h, j) => h = g /\ j = i
    BY <1>4 DEF RunAt
  <2> QED BY <1>13, <1>14, <2>2, <2>3, <2>4
<1>16. OneRunner'
  <2> SUFFICES ASSUME NEW s \in Threads, NEW r \in Threads,
                      NEW n \in Depth(s)', NEW k \in Depth(r)',
                      Running(stack'[s][n]), Running(stack'[r][k]),
                      stack'[s][n].group = stack'[r][k].group,
                      stack'[s][n].index = stack'[r][k].index
               PROVE  s = r /\ n = k
    BY DEF OneRunner
  <2>0. PICK h, j : h = stack'[s][n].group /\ j = stack'[s][n].index
    OBVIOUS
  <2>1. RunAt(s, n, h, j)' /\ RunAt(r, k, h, j)'
    BY <2>0 DEF RunAt
  <2>2. RunAt(s, n, h, j) /\ RunAt(r, k, h, j)
    BY <1>13, <2>1
  <2> QED BY <2>2 DEF IInv, OneRunner, RunAt
<1>17. UnderWay(g)'
  <2>1. Pending(g)' = Pending(g) \ {k0}
    <3>1. Pending(g)' = {k \in 0..(NumTasks(lp) - 1) : k >= c \/ Runs(g, lp.from + lp.step * k)'}
      BY <1>10 DEF Pending
    <3>2. ASSUME NEW k \in 0..(NumTasks(lp) - 1)
          PROVE  (k >= c \/ Runs(g, lp.from + lp.step * k)')
                   <=> (k >= c \/ Runs(g, lp.from + lp.step * k)) /\ k # k0
      <4>1. k \in Nat
        BY <1>3
      <4>2. lp.from + lp.step * k = i <=> k = k0
        BY <1>3, <1>6, <1>8, <4>1, Distinct
      <4> QED BY <1>3, <1>8, <1>15, <4>1, <4>2
    <3> QED BY <1>8, <3>1, <3>2
  <2>2. \A j \in Int : Runs(g, j)' => j \in started'[g]
    BY <1>1, <1>5, <1>15 DEF UnderWay
  <2>3. /\ group'[g].ctr \in 0..NumTasks(group'[g].loop)
        /\ started'[g] = Begun(group'[g].loop, group'[g].ctr)
        /\ group'[g].remainingTasks = Cardinality(Pending(g)')
        /\ group'[g].inUse
    BY <1>0, <1>1, <1>2, <1>5, <1>8, <1>9, <1>10, <2>1 DEF UnderWay
  <2> QED BY <2>2, <2>3 DEF UnderWay
<1>18. CountedOf(g)'
  <2>1. ~Enqueued(g)'
    BY <1>5, <1>11, EnqueuedStays
  <2> QED BY <1>17, <2>1 DEF CountedOf
<1>19. ASSUME NEW h \in Groups, h # g PROVE CountedOf(h)'
  <2>1. /\ Stacked /\ Stacked' /\ CountedOf(h) /\ group'[h] = group[h] /\ started'[h] = started[h]
    BY <1>1, <1>10, <1>11, <1>19 DEF IInv, Framed, Counted
  <2>2. \A s \in Threads : \A n, j : RunAt(s, n, h, j)' <=> RunAt(s, n, h, j)
    <3>1. \A j : ~RunAt(t, m, h, j)
      BY <1>4, <1>19 DEF RunAt
    <3> QED BY <1>13, <3>1
  <2> QED BY <1>11, <2>1, <2>2, GroupStays DEF SameEnqueues
<1> QED BY <1>1, <1>11, <1>12, <1>16, <1>18, <1>19 DEF IInv, Counted

(* A nested call in an outer loop's function: the main thread is still in    *)
(* that loop, so that nobody is told to exit.                                *)
LEMMA NestedHeld ==
  ASSUME IInv, NEW t \in Threads, NEW n \in Depth(t), Owns(stack[t][n]),
         t # Main
  PROVE  ~exitFlags
<1>1. Caller(t, n) /\ Len(stack[t]) \in Nat
  BY FrameType DEF IInv, Framed, Owners, Owner
<1>2. PICK q, j : q = stack[t][n - 1] /\ j = q.index
  OBVIOUS
<1>3. n - 1 \in Depth(t) /\ q.at = "tail" /\ q.group \in Outer
  BY <1>1, <1>2 DEF Caller, Depth
<1>4. q.group \in Groups /\ j \in Int
  <2>1. q \in Frame
    BY <1>2, <1>3, FrameType DEF IInv, Framed
  <2> QED BY <1>2, <2>1 DEF Frame
<1>5. Runs(q.group, j)
  <2>1. RunAt(t, n - 1, q.group, j)
    BY <1>2, <1>3 DEF RunAt, Running
  <2> QED BY <2>1, RunsMeans DEF IInv, Framed
<1>6. group[q.group].inUse
  BY <1>4, <1>5 DEF IInv, Counted, CountedOf, Fresh, UnderWay
<1> QED BY <1>3, <1>6 DEF IInv, Framed, Held

(* WaitForFinished returns: no task is pending any more. *)
LEMMA FinishedKeeps == ASSUME IInv, NEW t \in Threads, Finished(t) PROVE IInv'
<1>0. PICK p, g, m, lp, c :
        /\ p = Top(t) /\ g = p.group /\ m = Len(stack[t])
        /\ lp = group[g].loop /\ c = group[g].ctr
  OBVIOUS
<1>1. /\ Busy(t) /\ p.at = "wait" /\ Return(t)
      /\ IsFinished(g) \/ (exitFlags /\ t # Main)
      /\ group' = [group EXCEPT ![g].inUse = FALSE, ![g].remainingTasks = 0]
      /\ inMultiThreadedSection' = [inMultiThreadedSection EXCEPT ![t] = FALSE]
      /\ UNCHANGED <<queue, background, exitFlags, running, calls, started, twice>>
  BY <1>0 DEF Finished, In
<1>2. m \in Depth(t) /\ stack[t][m] = p /\ p \in Frame /\ g \in Groups /\ p.group = g
  BY <1>0, <1>1, TopIs DEF IInv, Framed, Frame
<1>3. Owns(p) /\ background # g /\ ~Running(p)
  <2>1. Shape(t, m) /\ Owner(t, m)
    BY <1>2 DEF IInv, Framed, Shapes, Owners
  <2>2. p.wff
    BY <1>1, <1>2, <2>1 DEF Shape
  <2> QED BY <1>1, <1>2, <2>1, <2>2 DEF Owner, Owns, Running
<1>4. Long(lp) /\ NumTasks(lp) \in Nat /\ c \in Nat
  BY <1>0, <1>2, GroupType DEF IInv
<1>5. ~Enqueued(g) /\ UnderWay(g)
  <2>1. ~Enqueued(g)
    <3> SUFFICES ASSUME NEW s \in Threads, NEW n \in Depth(s), stack[s][n].at = "enqueue",
                        stack[s][n].group = g
                 PROVE  FALSE
      BY DEF Enqueued
    <3>1. Owns(stack[s][n])
      BY DEF Owns
    <3>2. s = t /\ n = m
      BY <1>2, <1>3, <3>1 DEF IInv, Framed, OneOwner
    <3> QED BY <1>1, <1>2, <3>2
  <2> QED BY <1>2, <2>1 DEF IInv, Counted, CountedOf
<1>6. group[g].remainingTasks = 0
  BY <1>1, <1>2, <1>3, NestedHeld DEF IsFinished
<1>7. Pending(g) = {}
  <2>1. Pending(g) \subseteq 0..(NumTasks(lp) - 1)
    BY <1>0 DEF Pending
  <2>2. IsFiniteSet(0..(NumTasks(lp) - 1))
    <3>1. 0 \in Int /\ NumTasks(lp) - 1 \in Int
      BY <1>4
    <3> QED BY <3>1, FS_Interval
  <2>3. IsFiniteSet(Pending(g))
    BY <2>1, <2>2, FS_Subset
  <2> QED BY <1>5, <1>6, <2>3, FS_EmptySet DEF UnderWay
<1>8. c = NumTasks(lp) /\ \A j \in Int : ~Runs(g, j)
  <2>1. \A k \in 0..(NumTasks(lp) - 1) : ~(k >= c) /\ ~Runs(g, lp.from + lp.step * k)
    BY <1>0, <1>7 DEF Pending
  <2>2. c \in 0..NumTasks(lp) /\ started[g] = Begun(lp, c)
    BY <1>0, <1>5 DEF UnderWay
  <2>3. c = NumTasks(lp)
    <3> SUFFICES ASSUME c # NumTasks(lp) PROVE FALSE
      OBVIOUS
    <3>1. c \in 0..(NumTasks(lp) - 1)
      BY <1>4, <2>2
    <3> QED BY <1>4, <2>1, <3>1
  <2>4. \A j \in Int : ~Runs(g, j)
    <3> SUFFICES ASSUME NEW j \in Int, Runs(g, j) PROVE FALSE
      OBVIOUS
    <3>1. j \in Begun(lp, c)
      BY <1>5, <2>2 DEF UnderWay
    <3>2. PICK k \in 0..(c - 1) : j = lp.from + lp.step * k
      BY <3>1 DEF Begun
    <3> QED BY <2>1, <2>3, <3>2
  <2> QED BY <2>3, <2>4
<1>9. /\ group' \in [Groups -> Fields]
      /\ group'[g].loop = lp /\ group'[g].ctr = c /\ group'[g].remainingTasks = 0
      /\ ~group'[g].inUse /\ \A h \in Groups : h # g => group'[h] = group[h]
  <2>1. group \in [Groups -> Fields]
    BY GroupsTyped DEF IInv
  <2>2. /\ group'[g] = [group[g] EXCEPT !.inUse = FALSE, !.remainingTasks = 0]
        /\ \A h \in Groups : h # g => group'[h] = group[h]
    BY <1>1, <1>2, <2>1
  <2>3. /\ group'[g] \in Fields
        /\ group'[g].loop = lp /\ group'[g].ctr = c /\ ~group'[g].inUse
        /\ group'[g].remainingTasks = 0
    <3>1. group[g] \in Fields
      BY <1>2, <2>1
    <3> QED BY <1>0, <2>2, <3>1, Reset
  <2> QED BY <1>1, <1>2, <2>1, <2>2, <2>3
<1>10. Framed'
  BY <1>0, <1>1, <1>2, <1>3, <1>9, ReturnFramed DEF IInv
<1>11. SameRuns /\ SameEnqueues
  BY <1>0, <1>1, <1>3, ReturnQuiet DEF IInv, Framed
<1>12. TypeOK'
  BY <1>1, <1>9, <1>10 DEF IInv, TypeOK, Framed, Stacked, Fields
<1>13. UnderWay(g)'
  <2>1. \A j : Runs(g, j)' <=> Runs(g, j)
    BY <1>10, <1>11, RunsStay DEF IInv, Framed
  <2>2. Pending(g)' = Pending(g)
    BY <1>0, <1>9, <2>1 DEF Pending
  <2> QED BY <1>0, <1>1, <1>5, <1>7, <1>8, <1>9, <2>1, <2>2, FS_EmptySet DEF UnderWay
<1>14. CountedOf(g)'
  <2>1. ~Enqueued(g)'
    BY <1>5, <1>11, EnqueuedStays
  <2> QED BY <1>13, <2>1 DEF CountedOf
<1>15. ASSUME NEW h \in Groups, h # g PROVE CountedOf(h)'
  <2>1. /\ Stacked /\ Stacked' /\ CountedOf(h) /\ group'[h] = group[h] /\ started'[h] = started[h]
    BY <1>1, <1>9, <1>10, <1>15 DEF IInv, Framed, Counted
  <2> QED BY <1>11, <2>1, GroupStays DEF SameRuns, SameEnqueues
<1> QED BY <1>1, <1>10, <1>11, <1>12, <1>14, <1>15, RunnersStay DEF IInv, Counted

--------------------------------------------------------------------------------
(* The theorems.                                                             *)

(* Before the first loop nothing is pending.                                 *)
LEMMA InitIInv == Init => IInv
<1> SUFFICES ASSUME Init PROVE IInv
  OBVIOUS
<1>1. /\ \A g \in Groups : group[g] = Idle
      /\ \A t \in Threads : stack[t] = <<>> /\ Len(stack[t]) = 0 /\ Depth(t) = {}
      /\ background = NoGroup /\ ~exitFlags /\ ~twice /\ \A g \in Groups : started[g] = {}
  BY DEF Init, Depth
<1>2. TypeOK
  <2>1. Idle \in [inUse : BOOLEAN, loop : Loops \cup {NoLoop}, ctr : Nat, remainingTasks : Nat,
                  inTaskQueue : BOOLEAN]
    BY DEF Idle
  <2>2. 0 \in 0..MaxCalls
    BY PoolAssumption
  <2>3. stack \in [Threads -> Seq(Frame)]
    BY EmptySeq DEF Init
  <2> QED BY <2>1, <2>2, <2>3 DEF Init, TypeOK
<1>3. Stacked
  BY <1>2, TypeStacked
<1>4. Framed
  <2>1. Shapes /\ Owners /\ OneOwner
    BY <1>1 DEF Shapes, Owners, OneOwner
  <2>2. \A g \in Outer : ~group[g].inUse
    BY <1>1 DEF Idle, Groups
  <2>3. Held
    BY <1>1, <2>2 DEF Held
  <2> QED BY <1>3, <2>1, <2>3 DEF Framed
<1>5. OneRunner
  BY <1>1 DEF OneRunner
<1>6. ASSUME NEW g \in Groups PROVE CountedOf(g)
  <2>1. ~Enqueued(g)
    BY <1>1 DEF Enqueued
  <2>2. \A i : ~Runs(g, i)
    BY <1>1, <1>3, RunsMeans DEF RunAt
  <2>3. group[g].loop = NoLoop /\ group[g].ctr = 0 /\ group[g].remainingTasks = 0
    BY <1>1 DEF Idle
  <2>4. NumTasks(NoLoop) = 0
    BY DEF NumTasks, NoLoop
  <2>5. Begun(NoLoop, 0) = {}
    BY DEF Begun
  <2>6. Pending(g) = {}
    BY <2>3, <2>4 DEF Pending
  <2>7. UnderWay(g)
    <3>1. Cardinality(Pending(g)) = 0
      BY <2>6, FS_EmptySet
    <3>2. group[g].ctr \in 0..NumTasks(group[g].loop)
      BY <2>3, <2>4
    <3>3. started[g] = Begun(group[g].loop, group[g].ctr)
      BY <1>1, <2>3, <2>5
    <3> QED BY <2>2, <2>3, <2>4, <3>1, <3>2, <3>3 DEF UnderWay
  <2> QED BY <2>1, <2>7 DEF CountedOf
<1> QED BY <1>1, <1>2, <1>4, <1>5, <1>6 DEF IInv, Counted

(* Every step keeps the invariant.                                           *)
LEMMA StepKeeps == ASSUME IInv, ~Torn, NEW t \in Threads, Step(t) PROVE IInv'
<1>1. CASE \E g \in Groups, l \in Loops : ForMtNested(t, g, l)
  BY <1>1, ForMtNestedKeeps
<1>2. CASE Enqueue(t)
  BY <1>2, EnqueueKeeps
<1>3. CASE \E w \in Workers : PushTaskGroup(t, w)
  BY <1>3, PushKeeps
<1>4. CASE Pushed(t)
  BY <1>4, PushedKeeps
<1>5. CASE TakeIndex(t)
  BY <1>5, TakeIndexKeeps
<1>6. CASE NoIndexLeft(t)
  BY <1>6, NoIndexLeftKeeps
<1>7. CASE FunctionReturns(t)
  BY <1>7, FunctionReturnsKeeps
<1>8. CASE LeaveBackground(t)
  BY <1>8, LeaveBackgroundKeeps
<1>9. CASE Finished(t)
  BY <1>9, FinishedKeeps
<1> QED BY <1>1, <1>2, <1>3, <1>4, <1>5, <1>6, <1>7, <1>8, <1>9 DEF Step

LEMMA UnchangedKeeps == ASSUME IInv, UNCHANGED vars PROVE IInv'
<1>1. TypeOK'
  BY DEF vars, IInv, TypeOK
<1> QED BY <1>1, StackSame DEF vars, IInv, Framed, Held

LEMMA NextKeeps == ASSUME IInv, ~Torn, [Next]_vars PROVE IInv'
<1>1. CASE Step(Main)
  BY <1>1, StepKeeps DEF Threads
<1>2. ASSUME NEW g \in Groups, NEW l \in Loops, ForMt(g, l) \/ ForMtBackground(g, l) PROVE IInv'
  BY <1>2, NewCallKeeps DEF ForMt, ForMtBackground
<1>3. CASE WaitForMtBackground
  BY <1>3, WaitForKeeps
<1>4. CASE KillThreads
  BY <1>4, KillKeeps
<1>5. CASE SpawnThreads
  BY <1>5, SpawnKeeps
<1>6. ASSUME NEW w \in Workers, WorkerStep(w) PROVE IInv'
  <2>1. CASE Step(w)
    BY <2>1, StepKeeps DEF Threads
  <2>2. CASE \E g \in Groups : DoTask(w, g)
    BY <2>2, DoTaskKeeps
  <2>3. CASE Exit(w)
    BY <2>3, ExitKeeps
  <2> QED BY <1>6, <2>1, <2>2, <2>3 DEF WorkerStep
<1>7. CASE UNCHANGED vars
  BY <1>7, UnchangedKeeps
<1> QED BY <1>1, <1>2, <1>3, <1>4, <1>5, <1>6, <1>7 DEF Next, MainStep

(* The invariant gives the property.                                         *)
LEMMA IInvImplies == IInv => LoopsAreComplete
<1> SUFFICES ASSUME IInv, NEW g \in Groups
             PROVE  /\ started[g] \subseteq Indexes(group[g].loop)
                    /\ ~group[g].inUse => /\ started[g] = Indexes(group[g].loop)
                                          /\ \A i \in started[g] : ~Runs(g, i)
  BY DEF LoopsAreComplete, IInv
<1>1. CASE Enqueued(g)
  BY <1>1 DEF IInv, Counted, CountedOf, Fresh
<1>2. CASE ~Enqueued(g)
  <2>1. UnderWay(g) /\ Long(group[g].loop) /\ started[g] \subseteq Int
    BY <1>2, GroupType DEF IInv, Counted, CountedOf, TypeOK
  <2>2. /\ Begun(group[g].loop, group[g].ctr) \subseteq Indexes(group[g].loop)
        /\ group[g].ctr = NumTasks(group[g].loop)
             => Begun(group[g].loop, group[g].ctr) = Indexes(group[g].loop)
    BY <2>1, BegunIndexes DEF UnderWay
  <2> QED BY <2>1, <2>2 DEF UnderWay
<1> QED BY <1>1, <1>2

LEMMA Invariant == ~Torn /\ Spec => []IInv
<1> SUFFICES ASSUME ~Torn PROVE Spec => []IInv
  OBVIOUS
<1>1. Init => IInv
  BY InitIInv
<1>2. IInv /\ [Next]_vars => IInv'
  BY NextKeeps
<1> QED BY <1>1, <1>2, PTL DEF Spec

(* The variables of the pool keep their types. *)
THEOREM TypeCorrect == ~Torn /\ Spec => []TypeOK
<1>1. IInv => TypeOK
  BY DEF IInv
<1> QED BY <1>1, Invariant, PTL

(* for_mt and for_mt_background run the function once for every index of    *)
(* their loop, and have returned only when every one has been run and none  *)
(* is still running: if no worker looks at a group while Enqueue writes it. *)
THEOREM LoopsComplete == ~Torn /\ Spec => []LoopsAreComplete
<1>1. IInv => LoopsAreComplete
  BY IInvImplies
<1> QED BY <1>1, Invariant, PTL
================================================================================
