---------------------------- MODULE PriorityQueue ----------------------------
(***************************************************************************)
(* PriorityQueue (pkg/worker/priority.go): a binary heap of tasks ordered  *)
(* by effective priority and then by submit time, and the goroutine that   *)
(* raises tasks which have waited too long.  Every operation holds pq.mu,  *)
(* so it is one step; several goroutines call them in any order.  A task   *)
(* gets its submit time before it is enqueued, so tasks may enter the      *)
(* queue in another order than they were submitted.                        *)
(***************************************************************************)
EXTENDS Integers, Sequences, FiniteSetsExt

CONSTANTS
  PriorityTasks,
  Priorities,           \* the base priorities in use
  MaxWaitTime,          \* StarvationConfig
  PriorityBoostAmount,
  MaxPriorityBoost,
  MaxTime               \* bound: the last instant of the clock

\* No constructor looks at a StarvationConfig: the limits may be any numbers, but
\* a negative PriorityBoostAmount, which lowers priorities, is left out.
ASSUME PriorityQueueAssumption ==
  /\ IsFiniteSet(PriorityTasks)
  /\ Priorities \subseteq Int
  /\ MaxWaitTime \in Int
  /\ PriorityBoostAmount \in Nat
  /\ MaxPriorityBoost \in Int
  /\ MaxTime \in Nat

VARIABLES
  heap,      \* pq.heap, the root first
  item,      \* the PriorityTask of each task
  place,     \* where it is: "none", "made", "queued" or "taken"
  entered,   \* history: the number of its Enqueue
  stats,     \* pq.stats
  clock,
  guard      \* starvationGuard: "running", "told" once stopCh is closed, "gone"

queueVars == <<heap, item, place, entered, stats, clock, guard>>

Effective(t) == item[t].priority + item[t].boost
InHeap(t) == \E i \in 1..Len(heap) : heap[i] = t

\* StarvationEvents counts what agePromotions counts.
NoStats == [totalEnqueued |-> 0, totalDequeued |-> 0, currentSize |-> 0,
            agePromotions |-> 0, totalWaitTime |-> 0, maxWaitTime |-> 0]

QueueTypeOK ==
  /\ heap \in Seq(PriorityTasks)
  /\ item \in [PriorityTasks -> [priority : Priorities, submit : 0..MaxTime, boost : Nat]]
  /\ place \in [PriorityTasks -> {"none", "made", "queued", "taken"}]
  /\ entered \in [PriorityTasks -> Nat]
  /\ DOMAIN stats = DOMAIN NoStats /\ \A f \in DOMAIN stats : stats[f] \in Nat
  /\ clock \in 0..MaxTime
  /\ guard \in {"running", "told", "gone"}
-----------------------------------------------------------------------------
(***************************************************************************)
(* container/heap on a sequence h, with it as the tasks' data: the         *)
(* children of position i are 2i and 2i+1.                                 *)
(***************************************************************************)
Less(it, a, b) ==
  LET ea == it[a].priority + it[a].boost
      eb == it[b].priority + it[b].boost
  IN  ea > eb \/ (ea = eb /\ it[a].submit < it[b].submit)

Swap(h, i, j) == [h EXCEPT ![i] = h[j], ![j] = h[i]]

\* The sequences that a heap of n tasks may be while it is put in order.
Heaps(n) == [1..n -> PriorityTasks]

Up(it, h, k) ==
  LET up[i \in 1..Len(h)] ==
        [s \in Heaps(Len(h)) |->
           IF i > 1 /\ Less(it, s[i], s[i \div 2])
           THEN up[i \div 2][Swap(s, i, i \div 2)]
           ELSE s]
  IN  up[k][h]

\* The child of i that is to be above the other, among the first n.
Best(it, s, i, n) ==
  IF 2*i + 1 <= n /\ Less(it, s[2*i + 1], s[2*i]) THEN 2*i + 1 ELSE 2*i

Down(it, h, k, n) ==
  LET down[i \in 1..Len(h)] ==
        [s \in Heaps(Len(h)) |->
           IF 2*i <= n /\ Less(it, s[Best(it, s, i, n)], s[i])
           THEN down[Best(it, s, i, n)][Swap(s, i, Best(it, s, i, n))]
           ELSE s]
  IN  down[k][h]

HeapPush(it, h, t) == Up(it, Append(h, t), Len(h) + 1)

\* Mutant: the last element is not swapped to the root before the heap shrinks.
HeapPopShort(it, h) == SubSeq(Down(it, h, 1, Len(h) - 1), 1, Len(h) - 1)

HeapPop(it, h) == SubSeq(Down(it, Swap(h, 1, Len(h)), 1, Len(h) - 1), 1, Len(h) - 1)

HeapInit(it, h) ==
  LET init[i \in 0..Len(h)] ==
        [s \in Heaps(Len(h)) |-> IF i = 0 THEN s ELSE init[i - 1][Down(it, s, i, Len(h))]]
  IN  init[Len(h) \div 2][h]
-----------------------------------------------------------------------------
QueueInit ==
  /\ heap = <<>>
  /\ item \in [PriorityTasks -> [priority : Priorities, submit : {0}, boost : {0}]]
  /\ place = [t \in PriorityTasks |-> "none"]
  /\ entered = [t \in PriorityTasks |-> 0]
  /\ stats = NoStats
  /\ clock = 0
  /\ guard \in {"running", "gone"}     \* config.Enable

\* NewPriorityTask: the submit time is taken here.
NewTask(t) ==
  /\ place[t] = "none"
  /\ place' = [place EXCEPT ![t] = "made"]
  /\ item' = [item EXCEPT ![t].submit = clock]
  /\ UNCHANGED <<heap, entered, stats, clock, guard>>

Enqueue(t) ==
  /\ place[t] = "made"
  /\ place' = [place EXCEPT ![t] = "queued"]
  /\ heap' = HeapPush(item, heap, t)
  /\ stats' = [stats EXCEPT !.totalEnqueued = @ + 1, !.currentSize = @ + 1]
  /\ entered' = [entered EXCEPT ![t] = stats.totalEnqueued + 1]
  /\ UNCHANGED <<item, clock, guard>>

\* Mutant: the maximum is that of the last task.
RecordWaitLast(wait) ==
  stats' = [stats EXCEPT !.totalDequeued = @ + 1, !.currentSize = @ - 1,
                         !.totalWaitTime = @ + wait, !.maxWaitTime = wait]

RecordWait(wait) ==
  stats' = [stats EXCEPT !.totalDequeued = @ + 1, !.currentSize = @ - 1,
                         !.totalWaitTime = @ + wait,
                         !.maxWaitTime = IF wait <= @ THEN @ ELSE wait]

Peek == heap[1]

Dequeue ==
  /\ heap # <<>>
  /\ heap' = HeapPop(item, heap)
  /\ place' = [place EXCEPT ![Peek] = "taken"]
  /\ RecordWait(clock - item[Peek].submit)
  /\ UNCHANGED <<item, entered, clock, guard>>

Starved(t) ==
  /\ InHeap(t)
  /\ clock - item[t].submit > MaxWaitTime
  /\ item[t].boost < MaxPriorityBoost

\* What a tick of the guard makes of the tasks it promotes.
Boosted(promoted) ==
  /\ item' = [t \in PriorityTasks |-> IF t \in promoted
                               THEN [item[t] EXCEPT !.boost = @ + PriorityBoostAmount]
                               ELSE item[t]]
  /\ heap' = IF promoted # {} THEN HeapInit(item', heap) ELSE heap
  /\ stats' = [stats EXCEPT !.agePromotions = @ + Cardinality(promoted)]

\* Mutant: only the first starved task of the heap is promoted.
PromoteFirst ==
  LET starved == {i \in 1..Len(heap) : Starved(heap[i])}
  IN  /\ guard # "gone"
      /\ Boosted({heap[i] : i \in {j \in starved : \A k \in starved : j <= k}})
      /\ UNCHANGED <<place, entered, clock, guard>>

(***************************************************************************)
(* A tick of the guard: checkAndPromoteStarvedTasks.  Closing stopCh does  *)
(* not stop it at once, since the select may pick the ticker.              *)
(***************************************************************************)
Promote ==
  /\ guard # "gone"
  /\ Boosted({t \in PriorityTasks : Starved(t)})
  /\ UNCHANGED <<place, entered, clock, guard>>

\* Mutant: the heap is not rebuilt.
UpdateTaskPriorityOnly(t, p) ==
  /\ InHeap(t)
  /\ item' = [item EXCEPT ![t].priority = p]
  /\ UNCHANGED <<heap, place, entered, stats, clock, guard>>

UpdateTaskPriority(t, p) ==
  /\ InHeap(t)
  /\ item' = [item EXCEPT ![t].priority = p]
  /\ heap' = HeapInit(item', heap)
  /\ UNCHANGED <<place, entered, stats, clock, guard>>

Close ==
  /\ guard = "running"
  /\ guard' = "told"
  /\ UNCHANGED <<heap, item, place, entered, stats, clock>>

GuardStop ==
  /\ guard = "told"
  /\ guard' = "gone"
  /\ UNCHANGED <<heap, item, place, entered, stats, clock>>

Tick ==
  /\ clock < MaxTime
  /\ clock' = clock + 1
  /\ UNCHANGED <<heap, item, place, entered, stats, guard>>

QueueNext ==
  \/ \E t \in PriorityTasks : NewTask(t) \/ Enqueue(t)
  \/ \E t \in PriorityTasks, p \in Priorities : UpdateTaskPriority(t, p)
  \/ Dequeue \/ Promote \/ Close \/ GuardStop \/ Tick

QueueSpec == QueueInit /\ [][QueueNext]_queueVars
-----------------------------------------------------------------------------
\* The average is an integer: the quotient of two of them.
GetStats ==
  [AverageWaitTime   |-> IF stats.totalDequeued = 0 THEN 0
                         ELSE stats.totalWaitTime \div stats.totalDequeued,
   MaxWaitTime       |-> stats.maxWaitTime,
   TotalWaitingTasks |-> stats.currentSize,
   AgePromotions     |-> stats.agePromotions]

Boosts == [t \in PriorityTasks |-> item[t].boost]
In(places) == {t \in PriorityTasks : place[t] \in places}

\* Push, Pop and the rebuilds lose and duplicate nothing: the heap holds each
\* task that was enqueued and not yet dequeued, once.  And the counters, which
\* each operation changes by itself, tell the same: how many tasks came, left
\* and wait, what promotions added to their priorities, and an average wait
\* that no task's maximum is below (container/heap through Enqueue, Dequeue,
\* UpdateTaskPriority and checkAndPromoteStarvedTasks; GetStats).
StatsAccountForTasks ==
  /\ \A t \in PriorityTasks : InHeap(t) <=> place[t] = "queued"
  /\ \A i, j \in 1..Len(heap) : heap[i] = heap[j] => i = j
  /\ stats.totalEnqueued = Cardinality(In({"queued", "taken"}))
  /\ stats.totalDequeued = Cardinality(In({"taken"}))
  /\ GetStats.TotalWaitingTasks = Len(heap)
  /\ GetStats.AgePromotions * PriorityBoostAmount
       = MapThenSumSet(LAMBDA t : Boosts[t], PriorityTasks)
  /\ GetStats.AverageWaitTime <= GetStats.MaxWaitTime /\ GetStats.MaxWaitTime <= clock

\* "Dequeue removes and returns the highest priority task": however priorities
\* were changed and boosted before, no other task in the queue is before the
\* one that Dequeue takes and Peek shows.
TakesHighest == heap # <<>> => ~\E t \in PriorityTasks : InHeap(t) /\ Less(item, t, Peek)

\* Boosts never reverse seniority: a task that was both submitted and enqueued
\* before another has at least its boost, so tasks of one base priority leave
\* in order of age, even across UpdateTaskPriority.
OlderIsBoostedMore ==
  \A a, b \in PriorityTasks :
    (/\ InHeap(a) /\ InHeap(b)
     /\ item[a].submit <= item[b].submit /\ entered[a] < entered[b])
       => item[a].boost >= item[b].boost

\* What the configuration and its test say of MaxPriorityBoost, "the maximum
\* priority boost value": no task is boosted beyond it.  The code compares before
\* it adds (checkAndPromoteStarvedTasks, BoostPriority).
BoostWithinMax == \A t \in PriorityTasks : item[t].boost <= MaxPriorityBoost
=============================================================================
