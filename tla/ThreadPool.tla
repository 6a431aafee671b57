------------------------------- MODULE ThreadPool -------------------------------
(***************************************************************************)
(* Parallel loops (for_mt, for_mt_background) on the pool of synchronous   *)
(* worker threads.  The caller takes a task group out of a TaskPool, pushes *)
(* it to the queue of every worker, and runs the loop itself like them:    *)
(* who wants an index counts the group's counter up.  A function may call  *)
(* for_mt in its turn, and then its thread works on whatever its queue     *)
(* holds while it waits.                                                   *)
(*                                                                         *)
(* What a thread does is a stack of frames, one per call that has not      *)
(* returned.  The two queues of a worker are one bag: which is asked first *)
(* depends on InSyncedCode, and neither orders what different threads      *)
(* enqueue.  A sleeping worker wakes up after maxSleepTime at the latest,  *)
(* so waiting for newTasksSignal is a step not yet taken.                  *)
(***************************************************************************)
EXTENDS Integers, Sequences, FiniteSets

CONSTANTS
  Workers, Main,
  Outer, Inner, Background,  \* the task groups of the TaskPools: every call of
                             \* for_mt or for_mt_background in the code has its own
  NoGroup,
  Loops,     \* [from, to, step] of the loops that are run
  Nested,    \* the indexes at which the function of a loop calls for_mt itself
  Torn,      \* a worker may look at a group while Enqueue is writing it
  MaxCalls   \* bound: calls the main thread makes

Threads == Workers \cup {Main}
Groups == Outer \cup Inner \cup Background

ASSUME PoolAssumption ==
  /\ IsFiniteSet(Workers) /\ Workers # {} /\ Main \notin Workers
  /\ NoGroup \notin Groups /\ Inner \cap (Outer \cup Background) = {}
  /\ Outer \cap Background = {} /\ Torn \in BOOLEAN /\ MaxCalls \in Nat
  /\ \A l \in Loops : /\ l \in [from : Int, to : Int, step : Nat \ {0}]
                      /\ l.to - l.from >= l.step  \* otherwise for_mt runs it in line

VARIABLES
  group,       \* group[g]: the fields of a task group
  queue,       \* queue[w][g]: how often w's queues hold g
  stack,       \* stack[t]: the calls t is in, the innermost last
  background,  \* SyncUpdatedPathsComponent::backgroundTask
  exitFlags,   \* the workers have been told to exit
  running,     \* the workers that have not
  inMultiThreadedSection,  \* thread-local: of each thread
  calls,       \* calls the main thread has made
  started,     \* started[g]: the indexes begun in g's present or last use
  twice        \* an index was begun that had been begun before

vars == <<group, queue, stack, background, exitFlags, running, inMultiThreadedSection,
          calls, started, twice>>

NoLoop == [from |-> 0, to |-> 0, step |-> 1]  \* of a group never used
Idle == [inUse |-> FALSE, loop |-> NoLoop, ctr |-> 0, remainingTasks |-> 0,
         inTaskQueue |-> FALSE]

Init ==
  /\ group = [g \in Groups |-> Idle]
  /\ queue = [w \in Workers |-> [g \in Groups |-> 0]]
  /\ stack = [t \in Threads |-> <<>>] /\ background = NoGroup
  /\ exitFlags = FALSE /\ running = Workers /\ calls = 0
  /\ inMultiThreadedSection = [t \in Threads |-> t # Main]
  /\ started = [g \in Groups |-> {}] /\ twice = FALSE

--------------------------------------------------------------------------------
(* A frame is where its call is: writing the group in Enqueue, pushing it to *)
(* the workers in to, before a step of ExecuteLoop, in the function for      *)
(* index, in it after the call of for_mt it makes, leaving a background      *)
(* loop, or in WaitForFinished after its own loop.                           *)
NewCall(g, l) == [at |-> "enqueue", group |-> g, loop |-> l, index |-> 0,
                  wff |-> FALSE, again |-> FALSE, to |-> running]
Loop(g, wff, again) == [at |-> "loop", group |-> g, loop |-> NoLoop, index |-> 0,
                        wff |-> wff, again |-> again, to |-> {}]

Busy(t) == stack[t] # <<>>
Top(t) == stack[t][Len(stack[t])]
Below(t) == SubSeq(stack[t], 1, Len(stack[t]) - 1)
In(t, at) == Busy(t) /\ Top(t).at = at
Become(t, frame) == stack' = [stack EXCEPT ![t] = Append(Below(t), frame)]
Return(t) == stack' = [stack EXCEPT ![t] = Below(t)]
Call(t, frame) == stack' = [stack EXCEPT ![t] = Append(@, frame)]

IsFinishedTaken(g) == group[g].loop.from + group[g].loop.step * group[g].ctr >= group[g].loop.to
IsFinished(g) == group[g].remainingTasks = 0

NumTasksRoundedDown(l) == (l.to - l.from) \div l.step
(* How many indexes there are: remainingTasks in Enqueue, and who they are. *)
NumTasks(l) == IF l.step = 1 THEN l.to - l.from ELSE (l.to - l.from + l.step - 1) \div l.step
Indexes(l) == {i \in l.from..(l.to - 1) : (i - l.from) % l.step = 0}

(* TaskPool::GetTaskGroup and the first half of Enqueue: the counters.  A    *)
(* worker may still have the group in its queue or in its hands from its     *)
(* last use, since WaitForFinished does not wait for that.                   *)
GetTaskGroup(g, l) ==
  /\ ~group[g].inUse
  /\ group' = [group EXCEPT ![g] =
       [@ EXCEPT !.inUse = TRUE, !.ctr = 0, !.remainingTasks = NumTasks(l),
                 !.inTaskQueue = TRUE]]
  /\ started' = [started EXCEPT ![g] = {}]

(* MultithreadedSection, whose destructor takes the flag back to FALSE. *)
EnterSection(t) == inMultiThreadedSection' = [inMultiThreadedSection EXCEPT ![t] = TRUE]

--------------------------------------------------------------------------------
(* The main thread.                                                          *)

MainIsFree == ~Busy(Main) /\ ~exitFlags

ForMt(g, l) ==
  /\ MainIsFree /\ calls < MaxCalls /\ calls' = calls + 1
  /\ g \in Outer /\ GetTaskGroup(g, l) /\ Call(Main, NewCall(g, l))
  /\ EnterSection(Main)
  /\ UNCHANGED <<queue, background, exitFlags, running, twice>>

(* ExecuteQueuedSearches; the frame before has waited for the last ones. *)
ForMtBackground(g, l) ==
  /\ MainIsFree /\ background = NoGroup /\ calls < MaxCalls /\ calls' = calls + 1
  /\ g \in Background /\ GetTaskGroup(g, l) /\ Call(Main, NewCall(g, l))
  /\ background' = g
  /\ UNCHANGED <<queue, exitFlags, running, twice, inMultiThreadedSection>>

WaitForMtBackground ==
  /\ MainIsFree /\ background # NoGroup
  /\ Call(Main, Loop(background, TRUE, FALSE)) /\ background' = NoGroup
  /\ EnterSection(Main)
  /\ UNCHANGED <<group, queue, exitFlags, running, calls, started, twice>>

(* SetThreadCount(0) in SpringApp::Reload: the flags, *)
KillThreads ==
  /\ MainIsFree /\ calls < MaxCalls /\ calls' = calls + 1
  /\ exitFlags' = TRUE
  /\ UNCHANGED <<group, queue, stack, background, running, started, twice,
                 inMultiThreadedSection>>

(* and when all have been joined, their queues; then SpawnThreads. *)
SpawnThreads ==
  /\ exitFlags /\ running = {} /\ exitFlags' = FALSE /\ running' = Workers
  /\ queue' = [w \in Workers |-> [g \in Groups |-> 0]]
  /\ inMultiThreadedSection' = [t \in Threads |-> t # Main]
  /\ UNCHANGED <<group, stack, background, calls, started, twice>>

--------------------------------------------------------------------------------
(* What any thread does.                                                     *)

CallsForMt(t) == In(t, "func") /\ Top(t).group \in Outer /\ Top(t).index \in Nested

(* for_mt in the function of an outer loop *)
ForMtNested(t, g, l) ==
  /\ CallsForMt(t)
  /\ g \in Inner /\ GetTaskGroup(g, l)
  /\ stack' = [stack EXCEPT ![t] = Below(t) \o <<[Top(t) EXCEPT !.at = "tail"], NewCall(g, l)>>]
  /\ EnterSection(t)
  /\ UNCHANGED <<queue, background, exitFlags, running, calls, twice>>

(* the second half of Enqueue: the loop and its function *)
Enqueue(t) ==
  /\ In(t, "enqueue")
  /\ group' = [group EXCEPT ![Top(t).group].loop = Top(t).loop]
  /\ Become(t, [Top(t) EXCEPT !.at = "push"])
  /\ UNCHANGED <<queue, background, exitFlags, running, calls, started, twice,
                 inMultiThreadedSection>>

PushTaskGroup(t, w) ==
  /\ In(t, "push") /\ w \in Top(t).to
  /\ queue' = [queue EXCEPT ![w][Top(t).group] = @ + 1]
  /\ Become(t, [Top(t) EXCEPT !.to = @ \ {w}])
  /\ UNCHANGED <<group, background, exitFlags, running, calls, started, twice,
                 inMultiThreadedSection>>

(* for_mt goes on to WaitForFinished, for_mt_background returns. *)
Pushed(t) ==
  /\ In(t, "push") /\ Top(t).to = {}
  /\ IF Top(t).group \in Background THEN Return(t)
     ELSE Become(t, Loop(Top(t).group, TRUE, FALSE))
  /\ UNCHANGED <<group, queue, background, exitFlags, running, calls, started, twice,
                 inMultiThreadedSection>>

LeaveLoopQueued(t) ==
  LET f == Top(t) IN
  IF f.wff THEN Become(t, [f EXCEPT !.at = "wait"]) /\ UNCHANGED <<group, queue>>
  ELSE /\ Return(t) /\ UNCHANGED group
       /\ queue' = IF f.again THEN [queue EXCEPT ![t][f.group] = @ + 1] ELSE queue
(* How ExecuteLoop is left: the caller's has now to wait, a worker's puts    *)
(* the group of a background loop back that was unfinished when it began.    *)
LeaveLoop(t) ==
  LET f == Top(t) IN
  IF f.wff
  THEN /\ group' = [group EXCEPT ![f.group].inTaskQueue = FALSE]
       /\ Become(t, [f EXCEPT !.at = "wait"]) /\ UNCHANGED queue
  ELSE /\ Return(t) /\ UNCHANGED group
       /\ queue' = IF f.again THEN [queue EXCEPT ![t][f.group] = @ + 1] ELSE queue

MayLook(t) ==
  Torn \/ ~\E c \in Threads : In(c, "enqueue") /\ Top(c).group = Top(t).group

(* ExecuteStep up to the call of the function *)
TakeIndex(t) ==
  /\ In(t, "loop") /\ MayLook(t)
  /\ LET g == Top(t).group
         i == group[g].loop.from + group[g].loop.step * group[g].ctr
     IN  /\ i < group[g].loop.to
         /\ group' = [group EXCEPT ![g].ctr = @ + 1]
         /\ Become(t, [Top(t) EXCEPT !.at = "func", !.index = i])
         /\ twice' = (twice \/ i \in started[g])
         /\ started' = [started EXCEPT ![g] = @ \cup {i}]
  /\ UNCHANGED <<queue, background, exitFlags, running, calls,
                 inMultiThreadedSection>>

NoIndexLeft(t) ==
  /\ In(t, "loop") /\ MayLook(t)
  /\ LET g == Top(t).group
     IN  group[g].loop.from + group[g].loop.step * group[g].ctr >= group[g].loop.to
  /\ LeaveLoop(t)
  /\ UNCHANGED <<background, exitFlags, running, calls, started, twice,
                 inMultiThreadedSection>>

(* The function returns.  A worker takes one index of a background loop and  *)
(* leaves it; the two atomic operations are two steps.                       *)
FunctionReturns(t) ==
  /\ \/ In(t, "tail")
     \/ In(t, "func") /\ ~CallsForMt(t)
  /\ LET g == Top(t).group
     IN  /\ group' = [group EXCEPT ![g].remainingTasks = @ - 1]
         /\ Become(t, [Top(t) EXCEPT
              !.at = IF g \in Background /\ t # Main THEN "leave" ELSE "loop",
              !.index = 0])
  /\ UNCHANGED <<queue, background, exitFlags, running, calls, started, twice,
                 inMultiThreadedSection>>

LeaveBackground(t) ==
  /\ In(t, "leave") /\ LeaveLoop(t)
  /\ UNCHANGED <<background, exitFlags, running, calls, started, twice,
                 inMultiThreadedSection>>

(* DoTask of a worker that is idle or waits for a nested loop *)
DoTask(w, g) ==
  /\ w \in running /\ (~Busy(w) \/ In(w, "wait")) /\ queue[w][g] > 0
  /\ queue' = [queue EXCEPT ![w][g] = @ - 1]
  /\ Call(w, Loop(g, FALSE, g \in Background /\ ~IsFinished(g)))
  /\ UNCHANGED <<group, background, exitFlags, running, calls, started, twice,
                 inMultiThreadedSection>>

(* WaitForFinished returns, and so does for_mt: ResetState. *)
Finished(t) ==
  /\ In(t, "wait")
  /\ LET g == Top(t).group
     IN  /\ IsFinished(g) \/ (exitFlags /\ t # Main)
         /\ ~group[g].inTaskQueue
         /\ group' = [group EXCEPT ![g].inUse = FALSE, ![g].remainingTasks = 0]
  /\ Return(t)
  /\ inMultiThreadedSection' = [inMultiThreadedSection EXCEPT ![t] = FALSE]
  /\ UNCHANGED <<queue, background, exitFlags, running, calls, started, twice>>

(* WorkerLoop ends *)
Exit(w) ==
  /\ exitFlags /\ w \in running /\ ~Busy(w) /\ running' = running \ {w}
  /\ UNCHANGED <<group, queue, stack, background, exitFlags, calls, started, twice,
                 inMultiThreadedSection>>

Step(t) ==
  \/ \E g \in Groups, l \in Loops : ForMtNested(t, g, l)
  \/ Enqueue(t) \/ (\E w \in Workers : PushTaskGroup(t, w))
  \/ Pushed(t) \/ TakeIndex(t) \/ NoIndexLeft(t) \/ FunctionReturns(t)
  \/ LeaveBackground(t) \/ Finished(t)
WorkerStep(w) == Step(w) \/ (\E g \in Groups : DoTask(w, g)) \/ Exit(w)
MainStep ==
  \/ Step(Main)
  \/ \E g \in Groups, l \in Loops : ForMt(g, l) \/ ForMtBackground(g, l)
  \/ WaitForMtBackground \/ KillThreads \/ SpawnThreads

Next == MainStep \/ \E w \in Workers : WorkerStep(w)
Spec == Init /\ [][Next]_vars
FairSpec == Spec /\ WF_vars(Step(Main) \/ SpawnThreads) /\ \A w \in Workers : WF_vars(WorkerStep(w))

--------------------------------------------------------------------------------
(* Properties.                                                               *)

Frame ==
  [at : {"enqueue", "push", "loop", "func", "tail", "leave", "wait"}, group : Groups,
   loop : Loops \cup {NoLoop}, index : Int, wff : BOOLEAN, again : BOOLEAN,
   to : SUBSET Workers]
TypeOK ==
  /\ group \in [Groups ->
       [inUse : BOOLEAN, loop : Loops \cup {NoLoop}, ctr : Nat, remainingTasks : Nat,
        inTaskQueue : BOOLEAN]]
  /\ queue \in [Workers -> [Groups -> Nat]]
  /\ stack \in [Threads -> Seq(Frame)]
  /\ background \in Groups \cup {NoGroup} /\ exitFlags \in BOOLEAN
  /\ running \in SUBSET Workers /\ inMultiThreadedSection \in [Threads -> BOOLEAN]
  /\ calls \in 0..MaxCalls
  /\ started \in [Groups -> SUBSET Int] /\ twice \in BOOLEAN

(* for_mt runs the function once for every index, and has returned only when *)
(* it has been run for all of them and none is still being run: what the     *)
(* function refers to is on the stack of the caller.                         *)
Runs(g, i) == \E t \in Threads : \E n \in DOMAIN stack[t] :
  stack[t][n].group = g /\ stack[t][n].at \in {"func", "tail"} /\ stack[t][n].index = i
LoopsAreComplete ==
  /\ ~twice
  /\ \A g \in Groups :
       /\ started[g] \subseteq Indexes(group[g].loop)
       /\ ~group[g].inUse => /\ started[g] = Indexes(group[g].loop)
                             /\ \A i \in started[g] : ~Runs(g, i)

(* The functions of the loops are told that they run beside each other: what *)
(* is not to be done then (AddCache in IPathFinder::GetPath) is not done.    *)
FunctionsAreInSection == \A t \in Threads : In(t, "func") => inMultiThreadedSection[t]

(* Every call of the main thread returns, nested loops and a reload included. *)
CallsReturn == (Busy(Main) \/ exitFlags) ~> MainIsFree
================================================================================
