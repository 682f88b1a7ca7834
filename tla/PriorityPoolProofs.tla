------------------------- MODULE PriorityPoolProofs -------------------------
(***************************************************************************)
(* Theorems about PriorityPool, for any tasks, workers, callers, capacity  *)
(* of the channel and number of restarts: an accepted task is in one place.*)
(* And about its PriorityQueue, for any tasks, priorities, limits and      *)
(* times: the heap loses nothing and yields the highest task, the counters *)
(* tell the same, and boosts respect seniority.                            *)
(***************************************************************************)
EXTENDS PriorityPool, PriorityQueue, Sums, SequenceTheorems, TLAPS

SchedPC  == {"none", "arm", "select", "enqueue", "signal", "exited"}
Starting == {"start_ctx", "start_cancel", "start_sched"}

Schedulers == [Gens -> [pc : SchedPC, ctx : Nat, task : Tasks \cup {NoTask}]]
Goroutines == [Runs -> [pc : WorkerPC, ctx : {0}, task : Tasks \cup {NoTask}]]
Calls      == [Callers -> [op : {"none", "start", "stop", "close"}, pc : CallPC,
                           id : Nat, todo : SUBSET Workers]]

TypeInv ==
  /\ queue \in Seq(Tasks) /\ pq \in SUBSET Tasks
  /\ executed \in [Tasks -> Nat] /\ sub \in [Tasks -> SubPC]
  /\ sched \in Schedulers /\ run \in Goroutines
  /\ call \in Calls
  /\ ctx \in Nat /\ starts \in 0..MaxStarts /\ stops \in Nat

\* Each Start launches a scheduler of its own, which nobody else has launched.
FreshInv ==
  /\ \A c \in Callers : call[c].pc \in Starting =>
       call[c].id \in 1..starts /\ sched[call[c].id].pc = "none"
  /\ \A c, d \in Callers :
       call[c].pc \in Starting /\ call[d].pc \in Starting /\ call[c].id = call[d].id => c = d
  /\ \A g \in Gens : g > starts => sched[g].pc = "none"

\* Who has a task in its hands is at the step that puts it down.
HandsInv ==
  /\ \A g \in Gens : sched[g].task # NoTask <=> sched[g].pc = "enqueue"
  /\ \A r \in Runs : run[r].task # NoTask <=> run[r].pc = "executing"

IInv == TypeInv /\ FreshInv /\ HandsInv /\ InOnePlace

LEMMA BoundType == MaxStarts \in Nat
  BY WorkerAssumption

LEMMA InitIInv == Init => IInv
<1> SUFFICES ASSUME Init PROVE IInv OBVIOUS
<1> USE DEF Init, WorkerInit, SubmissionInit
<1>1. /\ queue = <<>> /\ Len(queue) = 0 /\ queue \in Seq(Tasks)
      /\ \A t \in Tasks : executed[t] = 0 /\ sub[t] = "idle"
  OBVIOUS
<1>2. TypeInv
  BY <1>1, BoundType
  DEF TypeInv, Schedulers, Goroutines, Calls, NoRun, Idle, SchedPC, WorkerPC, SubPC, CallPC
<1>3. FreshInv BY DEF FreshInv, Starting, NoRun, Idle
<1>4. HandsInv BY DEF HandsInv, NoRun
<1>5. InOnePlace
  BY <1>1, WorkerAssumption
  DEF InOnePlace, Accepted, InQueue, Scheduled, Held, Holds, NoRun
<1> QED BY <1>2, <1>3, <1>4, <1>5 DEF IInv
-----------------------------------------------------------------------------
(***************************************************************************)
(* Steps that leave every task where it is.                                *)
(***************************************************************************)
RunsQuiet ==
  \A r \in Runs : /\ run'[r].task = run[r].task
                  /\ run'[r].pc = "executing" <=> run[r].pc = "executing"
SchedsQuiet ==
  \A g \in Gens : /\ sched'[g].task = sched[g].task
                  /\ sched'[g].pc = "enqueue" <=> sched[g].pc = "enqueue"

LEMMA QuietKeeps ==
  ASSUME HandsInv, InOnePlace, UNCHANGED <<queue, pq, executed>>, RunsQuiet, SchedsQuiet,
         \A t \in Tasks : Accepted(t)' <=> Accepted(t)
  PROVE  HandsInv' /\ InOnePlace'
<1>1. HandsInv' BY DEF HandsInv, RunsQuiet, SchedsQuiet
<1>2. \A t \in Tasks : /\ InQueue(t)' <=> InQueue(t)
                       /\ Scheduled(t)' <=> Scheduled(t)
                       /\ Held(t)' <=> Held(t)
  BY DEF InQueue, Scheduled, Held, Holds, RunsQuiet, SchedsQuiet
<1>3. InOnePlace' BY <1>2 DEF InOnePlace, Holds, RunsQuiet, SchedsQuiet
<1> QED BY <1>1, <1>3

LEMMA FreshKeeps ==
  ASSUME FreshInv, UNCHANGED starts,
         \A g \in Gens : sched'[g].pc = "none" <=> sched[g].pc = "none",
         starts \in 0..MaxStarts,
         \A c \in Callers : call'[c].pc \in Starting =>
                              call[c].pc \in Starting /\ call'[c].id = call[c].id
  PROVE  FreshInv'
<1>1. 1..starts \subseteq Gens BY BoundType DEF Gens
<1> QED BY <1>1 DEF FreshInv

\* A worker that goes on with empty hands, and the waiting workers woken at once.
LEMMA RunMoves ==
  ASSUME run \in Goroutines, NEW r \in Runs, NEW pc \in WorkerPC \ {"executing"},
         run[r].pc # "executing", RunGoto(r, pc)
  PROVE  run' \in Goroutines /\ RunsQuiet
<1>1. run' = [run EXCEPT ![r].pc = pc] BY DEF RunGoto
<1> QED BY <1>1 DEF Goroutines, RunsQuiet

LEMMA SignalMoves ==
  ASSUME run \in Goroutines, Signal PROVE run' \in Goroutines /\ RunsQuiet
<1>1. CASE UNCHANGED run BY <1>1 DEF RunsQuiet
<1>2. CASE \E r \in Waiting : run' = [run EXCEPT ![r].pc = "next"]
  <2>1. PICK r \in Waiting : run' = [run EXCEPT ![r].pc = "next"] BY <1>2
  <2>2. r \in Runs /\ run[r].pc = "waiting" BY <2>1 DEF Waiting
  <2> QED BY <2>1, <2>2, RunMoves DEF RunGoto, WorkerPC
<1> QED BY <1>1, <1>2 DEF Signal

LEMMA BroadcastMoves ==
  ASSUME run \in Goroutines, Broadcast PROVE run' \in Goroutines /\ RunsQuiet
<1>1. ASSUME NEW r \in Runs
      PROVE  run'[r] = IF run[r].pc = "waiting" THEN [run[r] EXCEPT !.pc = "next"] ELSE run[r]
  BY DEF Broadcast, Waiting
<1>2. \A r \in Runs : run[r] \in [pc : WorkerPC, ctx : {0}, task : Tasks \cup {NoTask}]
  BY DEF Goroutines
<1>3. \A r \in Runs : /\ run'[r] \in [pc : WorkerPC, ctx : {0}, task : Tasks \cup {NoTask}]
                      /\ run'[r].task = run[r].task
                      /\ run'[r].pc = "executing" <=> run[r].pc = "executing"
  BY <1>1, <1>2 DEF WorkerPC
<1>4. run' \in Goroutines BY <1>3 DEF Broadcast, Goroutines
<1> QED BY <1>3, <1>4 DEF RunsQuiet
-----------------------------------------------------------------------------
(***************************************************************************)
(* The tasks of the channel, as a predicate of the sequence.               *)
(***************************************************************************)
Among(q, t) == \E i \in 1..Len(q) : q[i] = t
Distinct(q) == \A i, j \in 1..Len(q) : q[i] = q[j] => i = j

LEMMA AppendAmong ==
  ASSUME NEW S, NEW q \in Seq(S), NEW x \in S, Distinct(q), ~Among(q, x)
  PROVE  /\ Append(q, x) \in Seq(S)
         /\ Distinct(Append(q, x))
         /\ \A t : Among(Append(q, x), t) <=> Among(q, t) \/ t = x
<1>1. /\ Len(q) \in Nat /\ Len(Append(q, x)) = Len(q) + 1
      /\ \A i \in 1..Len(q) : Append(q, x)[i] = q[i]
      /\ Append(q, x)[Len(q) + 1] = x
  OBVIOUS
<1>2. 1..Len(Append(q, x)) = 1..Len(q) \cup {Len(q) + 1} BY <1>1
<1>3. Append(q, x) \in Seq(S) OBVIOUS
<1> QED BY <1>1, <1>2, <1>3 DEF Among, Distinct

LEMMA TailAmong ==
  ASSUME NEW S, NEW q \in Seq(S), q # <<>>, Distinct(q)
  PROVE  /\ Head(q) \in S /\ Among(q, Head(q))
         /\ Tail(q) \in Seq(S) /\ Distinct(Tail(q))
         /\ \A t : Among(Tail(q), t) <=> Among(q, t) /\ t # Head(q)
<1>1. /\ Len(q) \in Nat \ {0} /\ Len(Tail(q)) = Len(q) - 1 /\ Tail(q) \in Seq(S)
      /\ \A i \in 1..(Len(q) - 1) : Tail(q)[i] = q[i + 1]
      /\ Head(q) = q[1] /\ q[1] \in S
  OBVIOUS
<1>2. Distinct(Tail(q)) BY <1>1 DEF Distinct
<1>3. Among(q, Head(q)) BY <1>1 DEF Among
<1>4. ASSUME NEW t, Among(Tail(q), t) PROVE Among(q, t) /\ t # Head(q)
  <2>1. PICK i \in 1..(Len(q) - 1) : Tail(q)[i] = t BY <1>1, <1>4 DEF Among
  <2>2. i + 1 \in 1..Len(q) /\ q[i + 1] = t /\ i + 1 # 1 /\ 1 \in 1..Len(q)
    BY <1>1, <2>1
  <2> QED BY <1>1, <2>2 DEF Among, Distinct
<1>5. ASSUME NEW t, Among(q, t), t # Head(q) PROVE Among(Tail(q), t)
  <2>1. PICK i \in 1..Len(q) : q[i] = t BY <1>5 DEF Among
  <2>2. i - 1 \in 1..Len(Tail(q)) /\ Tail(q)[i - 1] = t BY <1>1, <1>5, <2>1
  <2> QED BY <2>2 DEF Among
<1> QED BY <1>1, <1>2, <1>3, <1>4, <1>5

\* A submission that is accepted puts its task on the channel.
LEMMA SendKeeps ==
  ASSUME IInv, NEW t \in Tasks, InFlight(t), Send(t),
         UNCHANGED <<pq, executed, sched, run>>
  PROVE  HandsInv' /\ InOnePlace' /\ queue' \in Seq(Tasks) /\ sub' \in [Tasks -> SubPC]
<1> USE DEF IInv, TypeInv
<1>1. queue' = Append(queue, t) /\ sub' = [sub EXCEPT ![t] = "accepted"]
  BY DEF Send, Becomes
<1>2. ~Accepted(t) BY DEF InFlight, Accepted
<1>3. /\ ~Among(queue, t) /\ Distinct(queue)
      /\ ~Scheduled(t) /\ t \notin pq /\ ~Held(t) /\ executed[t] = 0
  BY <1>2 DEF InOnePlace, InQueue, Among, Distinct
<1>4. /\ queue' \in Seq(Tasks) /\ Distinct(queue')
      /\ \A u \in Tasks : InQueue(u)' <=> InQueue(u) \/ u = t
  BY <1>1, <1>3, AppendAmong DEF InQueue, Among
<1>5. /\ sub' \in [Tasks -> SubPC]
      /\ \A u \in Tasks : Accepted(u)' <=> Accepted(u) \/ u = t
  BY <1>1 DEF Accepted, SubPC
<1>6. \A u \in Tasks : (Scheduled(u)' <=> Scheduled(u)) /\ (Held(u)' <=> Held(u))
  BY DEF Scheduled, Held, Holds
<1>7. InOnePlace' BY <1>3, <1>4, <1>5, <1>6 DEF InOnePlace, Holds, Distinct
<1> QED BY <1>4, <1>5, <1>7 DEF HandsInv

\* The scheduler takes the head of the channel.
LEMMA TakeKeeps ==
  ASSUME IInv, NEW g \in Gens, SchedReceive(g) PROVE HandsInv' /\ InOnePlace'
<1> USE DEF IInv, TypeInv
<1> DEFINE h == Head(queue)
<1>1. /\ queue # <<>> /\ queue' = Tail(queue) /\ sched[g].pc = "select"
      /\ UNCHANGED <<pq, executed, run, sub>>
  BY DEF SchedReceive, workerVars, submitVars
<1>2. /\ h \in Tasks /\ InQueue(h) /\ Distinct(queue')
      /\ \A u \in Tasks : InQueue(u)' <=> InQueue(u) /\ u # h
  <2>1. Distinct(queue) BY DEF InOnePlace, Distinct
  <2>2. /\ h \in Tasks /\ Among(queue, h) /\ Distinct(queue')
        /\ \A u : Among(queue', u) <=> Among(queue, u) /\ u # h
    BY <1>1, <2>1, TailAmong
  <2> QED BY <2>2 DEF InQueue, Among
<1>3. /\ sched'[g].task = h /\ sched'[g].pc = "enqueue" /\ sched[g].task = NoTask
      /\ \A i \in Gens \ {g} : sched'[i] = sched[i]
  <2> HIDE DEF h
  <2>1. sched' = [sched EXCEPT ![g].pc = "enqueue", ![g].task = h] BY DEF SchedReceive, h
  <2> QED BY <1>1, <2>1 DEF Schedulers, HandsInv
<1> HIDE DEF h
<1>4. h # NoTask /\ ~Scheduled(h) /\ h \notin pq /\ ~Held(h) /\ executed[h] = 0
  BY <1>2, WorkerAssumption DEF InOnePlace
<1>5. ASSUME NEW u \in Tasks PROVE Scheduled(u)' <=> Scheduled(u) \/ u = h
  <2>1. u # NoTask BY WorkerAssumption
  <2> QED BY <1>3, <2>1 DEF Scheduled
<1>6. \A u \in Tasks : (Held(u)' <=> Held(u)) /\ (Accepted(u)' <=> Accepted(u))
  BY <1>1 DEF Held, Holds, Accepted
<1>7. \A i, j \in Gens, u \in Tasks : sched'[i].task = u /\ sched'[j].task = u => i = j
  BY <1>3, <1>4 DEF InOnePlace, Scheduled
<1>8. HandsInv' BY <1>1, <1>3, <1>4 DEF HandsInv
<1>9. InOnePlace'
  BY <1>1, <1>2, <1>4, <1>5, <1>6, <1>7 DEF InOnePlace, Distinct, Holds
<1> QED BY <1>8, <1>9

\* The scheduler puts its task into the priority queue.
LEMMA EnqueueKeeps ==
  ASSUME IInv, NEW g \in Gens, SchedEnqueue(g) PROVE HandsInv' /\ InOnePlace'
<1> USE DEF IInv, TypeInv
<1> DEFINE h == sched[g].task
<1>1. /\ pq' = pq \cup {h} /\ sched[g].pc = "enqueue"
      /\ UNCHANGED <<queue, executed, run, sub>>
  BY DEF SchedEnqueue, chanVars, workerVars, submitVars
<1>2. h \in Tasks /\ h # NoTask /\ Scheduled(h)
  BY <1>1 DEF HandsInv, Schedulers, Scheduled
<1>3. /\ sched'[g].task = NoTask /\ sched'[g].pc = "signal"
      /\ \A i \in Gens \ {g} : sched'[i] = sched[i]
  BY DEF SchedEnqueue, Schedulers
<1>4. \A i \in Gens \ {g} : sched[i].task # h BY <1>2 DEF InOnePlace
<1> HIDE DEF h
<1>5. ~InQueue(h) /\ h \notin pq /\ ~Held(h) /\ executed[h] = 0
  BY <1>2 DEF InOnePlace
<1>6. ASSUME NEW u \in Tasks PROVE Scheduled(u)' <=> Scheduled(u) /\ u # h
  <2>1. u # NoTask BY WorkerAssumption
  <2>2. sched[g].task = h BY DEF h
  <2> QED BY <1>3, <1>4, <2>1, <2>2 DEF Scheduled
<1>7. \A u \in Tasks : /\ InQueue(u)' <=> InQueue(u)
                       /\ Held(u)' <=> Held(u)
                       /\ Accepted(u)' <=> Accepted(u)
  BY <1>1 DEF InQueue, Held, Holds, Accepted
<1>8. \A i, j \in Gens, u \in Tasks : sched'[i].task = u /\ sched'[j].task = u => i = j
  BY <1>3, WorkerAssumption DEF InOnePlace
<1>9. HandsInv' BY <1>1, <1>3 DEF HandsInv
<1>10. InOnePlace'
  BY <1>1, <1>2, <1>5, <1>6, <1>7, <1>8 DEF InOnePlace, Holds
<1> QED BY <1>9, <1>10

\* A worker takes a task from the priority queue.
LEMMA DequeueKeeps ==
  ASSUME IInv, NEW r \in Runs, NEW t \in pq, run[r].pc = "next", pq' = pq \ {t},
         run' = [run EXCEPT ![r].pc = "executing", ![r].task = t],
         UNCHANGED <<queue, executed, sched, sub>>
  PROVE  HandsInv' /\ InOnePlace' /\ run' \in Goroutines
<1> USE DEF IInv, TypeInv
<1>1. t \in Tasks /\ t # NoTask BY WorkerAssumption
<1>2. /\ run'[r].task = t /\ run'[r].pc = "executing" /\ run[r].task = NoTask
      /\ \A s \in Runs \ {r} : run'[s] = run[s]
      /\ run' \in Goroutines
  BY <1>1 DEF Goroutines, HandsInv, WorkerPC
<1>3. ~InQueue(t) /\ ~Scheduled(t) /\ ~Held(t) /\ executed[t] = 0
  BY <1>1 DEF InOnePlace
<1>4. ASSUME NEW u \in Tasks PROVE Held(u)' <=> Held(u) \/ u = t
  <2>1. u # NoTask BY WorkerAssumption
  <2> QED BY <1>2, <2>1 DEF Held, Holds
<1>5. \A u \in Tasks : /\ InQueue(u)' <=> InQueue(u)
                       /\ Scheduled(u)' <=> Scheduled(u)
                       /\ Accepted(u)' <=> Accepted(u)
  BY DEF InQueue, Scheduled, Accepted
<1>6. ASSUME NEW s \in Runs, NEW q \in Runs, NEW u \in Tasks, Holds(s, u)', Holds(q, u)'
      PROVE  s = q
  <2>1. CASE u = t BY <1>2, <1>3, <1>6, <2>1 DEF Held, Holds
  <2>2. CASE u # t
    <3>1. Holds(s, u) /\ Holds(q, u) BY <1>2, <1>6, <2>2 DEF Holds
    <3> QED BY <3>1 DEF InOnePlace
  <2> QED BY <2>1, <2>2
<1>7. HandsInv' BY <1>1, <1>2 DEF HandsInv
<1>8. InOnePlace' BY <1>1, <1>3, <1>4, <1>5, <1>6 DEF InOnePlace
<1> QED BY <1>2, <1>7, <1>8

\* A task ends, with a result or a panic.
LEMMA ExecuteKeeps ==
  ASSUME IInv, NEW r \in Runs, RunTask(r)
  PROVE  HandsInv' /\ InOnePlace' /\ run' \in Goroutines /\ executed' \in [Tasks -> Nat]
<1> USE DEF IInv, TypeInv
<1> DEFINE h == run[r].task
<1>1. /\ run[r].pc = "executing" /\ executed' = [executed EXCEPT ![h] = @ + 1]
      /\ UNCHANGED <<queue, pq, sched, sub>>
  BY DEF RunTask, chanVars, submitVars
<1>2. h \in Tasks /\ h # NoTask /\ Held(h)
  BY <1>1 DEF HandsInv, Goroutines, Held, Holds
<1>3. /\ run'[r].task = NoTask /\ run'[r].pc # "executing"
      /\ \A s \in Runs \ {r} : run'[s] = run[s]
      /\ run' \in Goroutines
  <2>1. PICK pc \in {"select", "exiting"} :
          run' = [run EXCEPT ![r].pc = pc, ![r].task = NoTask]
    BY DEF RunTask
  <2> QED BY <2>1 DEF Goroutines, WorkerPC
<1>4. \A s \in Runs \ {r} : run[s].task # h BY <1>2 DEF InOnePlace, Holds
<1>5. ~InQueue(h) /\ ~Scheduled(h) /\ h \notin pq /\ executed[h] = 0
  BY <1>2 DEF InOnePlace
<1>6. ASSUME NEW u \in Tasks PROVE Held(u)' <=> Held(u) /\ u # h
  <2>1. u # NoTask BY WorkerAssumption
  <2> HIDE DEF h
  <2>2. run[r].task = h BY DEF h
  <2> QED BY <1>3, <1>4, <2>1, <2>2 DEF Held, Holds
<1> HIDE DEF h
<1>7. /\ executed'[h] = 1 /\ executed' \in [Tasks -> Nat]
      /\ \A u \in Tasks \ {h} : executed'[u] = executed[u]
  BY <1>1, <1>2, <1>5
<1>8. \A u \in Tasks : /\ InQueue(u)' <=> InQueue(u)
                       /\ Scheduled(u)' <=> Scheduled(u)
                       /\ Accepted(u)' <=> Accepted(u)
  BY <1>1 DEF InQueue, Scheduled, Accepted
<1>9. \A s, q \in Runs, u \in Tasks : Holds(s, u)' /\ Holds(q, u)' => s = q
  BY <1>3, WorkerAssumption DEF InOnePlace, Holds
<1>10. HandsInv' BY <1>1, <1>3 DEF HandsInv
<1>11. InOnePlace' BY <1>1, <1>2, <1>5, <1>6, <1>7, <1>8, <1>9 DEF InOnePlace
<1> QED BY <1>3, <1>7, <1>10, <1>11
-----------------------------------------------------------------------------
(***************************************************************************)
(* Every actor keeps the invariant.                                        *)
(***************************************************************************)
\* What a step leaves alone for the calls and the schedulers to stay fresh.
LEMMA LifeKeeps ==
  ASSUME FreshInv, starts \in 0..MaxStarts, UNCHANGED <<starts, call>>,
         \A g \in Gens : sched'[g].pc = "none" <=> sched[g].pc = "none"
  PROVE  FreshInv'
  BY FreshKeeps

LEMMA SchedKeeps ==
  ASSUME IInv, NEW g \in Gens, SchedStep(g) PROVE IInv'
<1> USE DEF IInv
<1>1. UNCHANGED <<call, starts, stops, ctx, executed, sub>>
  BY DEF SchedStep, SchedArm, SchedReceive, SchedStop, SchedEnqueue, SchedSignal,
         workerVars, poolVars, submitVars, lifeVars
<1>2. sched[g].pc # "none"
  BY DEF SchedStep, SchedArm, SchedReceive, SchedStop, SchedEnqueue, SchedSignal
<1>3. CASE SchedReceive(g)
  <2>1. queue' \in Seq(Tasks) /\ Head(queue) \in Tasks
    BY <1>3 DEF SchedReceive, TypeInv
  <2>2. sched' \in Schedulers /\ sched'[g].pc # "none" /\ \A i \in Gens \ {g} : sched'[i] = sched[i]
    <3> DEFINE h == Head(queue)
    <3>1. sched' = [sched EXCEPT ![g].pc = "enqueue", ![g].task = h] BY <1>3 DEF SchedReceive
    <3> HIDE DEF h
    <3> QED BY <2>1, <3>1 DEF TypeInv, Schedulers, SchedPC, h
  <2>3. UNCHANGED <<pq, run>> BY <1>3 DEF SchedReceive, workerVars
  <2>4. TypeInv' BY <1>1, <2>1, <2>2, <2>3 DEF TypeInv
  <2>5. FreshInv' BY <1>1, <1>2, <2>2, LifeKeeps DEF TypeInv
  <2> QED BY <1>3, <2>4, <2>5, TakeKeeps
<1>4. CASE SchedEnqueue(g)
  <2>1. /\ sched' \in Schedulers /\ sched'[g].pc # "none"
        /\ \A i \in Gens \ {g} : sched'[i] = sched[i]
    BY <1>4 DEF SchedEnqueue, TypeInv, Schedulers, SchedPC
  <2>2. sched[g].task \in Tasks
    BY <1>4 DEF SchedEnqueue, HandsInv, TypeInv, Schedulers
  <2>3. pq' \in SUBSET Tasks /\ UNCHANGED <<queue, run>>
    BY <1>4, <2>2 DEF SchedEnqueue, TypeInv, chanVars, workerVars
  <2>4. TypeInv' BY <1>1, <2>1, <2>3 DEF TypeInv
  <2>5. FreshInv' BY <1>1, <1>2, <2>1, LifeKeeps DEF TypeInv
  <2> QED BY <1>4, <2>4, <2>5, EnqueueKeeps
<1>5. CASE SchedArm(g) \/ SchedStop(g) \/ SchedSignal(g)
  <2>1. UNCHANGED <<queue, pq>> BY <1>5 DEF SchedArm, SchedStop, SchedSignal, chanVars
  <2>2. run' \in Goroutines /\ RunsQuiet
    <3>1. CASE UNCHANGED run BY <3>1 DEF RunsQuiet, TypeInv
    <3>2. CASE SchedSignal(g) BY <3>2, SignalMoves DEF SchedSignal, TypeInv
    <3> QED BY <1>5, <3>1, <3>2 DEF SchedArm, SchedStop, workerVars
  <2>3. PICK pc \in {"arm", "select", "exited"} :
          /\ sched' \in Schedulers /\ sched'[g].pc = pc /\ sched'[g].task = sched[g].task
          /\ \A i \in Gens \ {g} : sched'[i] = sched[i]
    <3>1. CASE SchedArm(g)
      <4>1. sched' = [sched EXCEPT ![g].pc = "select", ![g].ctx = ctx] BY <3>1 DEF SchedArm
      <4>2. sched \in Schedulers /\ ctx \in Nat /\ "select" \in SchedPC
        BY DEF TypeInv, SchedPC
      <4>3. /\ sched' \in Schedulers /\ sched'[g].pc = "select"
            /\ sched'[g].task = sched[g].task
            /\ \A i \in Gens \ {g} : sched'[i] = sched[i]
        BY <4>1, <4>2 DEF Schedulers
      <4> QED BY <4>3
    <3>2. CASE SchedStop(g)
      BY <3>2 DEF SchedStop, TypeInv, Schedulers, SchedPC
    <3>3. CASE SchedSignal(g)
      BY <3>3 DEF SchedSignal, TypeInv, Schedulers, SchedPC
    <3> QED BY <1>5, <3>1, <3>2, <3>3
  <2>5. SchedsQuiet
    <3>1. sched[g].pc # "enqueue" BY <1>5 DEF SchedArm, SchedStop, SchedSignal
    <3> QED BY <2>3, <3>1 DEF SchedsQuiet
  <2>6. TypeInv' BY <1>1, <2>1, <2>2, <2>3 DEF TypeInv
  <2>7. FreshInv' BY <1>1, <1>2, <2>3, LifeKeeps DEF TypeInv
  <2>8. \A t \in Tasks : Accepted(t)' <=> Accepted(t) BY <1>1 DEF Accepted
  <2> QED BY <1>1, <2>1, <2>2, <2>5, <2>6, <2>7, <2>8, QuietKeeps
<1> QED BY <1>3, <1>4, <1>5 DEF SchedStep

LEMMA WorkerKeeps ==
  ASSUME IInv, NEW r \in Runs, PriorityWorkerStep(r) PROVE IInv'
<1> USE DEF IInv
<1>1. UNCHANGED <<queue, sub, ctx, sched, call, starts, stops>>
  BY DEF PriorityWorkerStep, RunCheck, RunDequeue, RunTest, RunWait, RunEmpty, RunTask,
         RunExit, RunClose, chanVars, poolVars, submitVars, lifeVars
<1>2. FreshInv' BY <1>1, LifeKeeps DEF TypeInv
<1>3. CASE RunTask(r)
  <2>1. UNCHANGED pq BY <1>3 DEF RunTask
  <2>2. TypeInv' BY <1>1, <1>3, <2>1, ExecuteKeeps DEF TypeInv
  <2> QED BY <1>2, <1>3, <2>2, ExecuteKeeps
<1>4. CASE RunDequeue(r) /\ pq # {}
  <2>1. PICK t \in pq : /\ pq' = pq \ {t}
                        /\ run' = [run EXCEPT ![r].pc = "executing", ![r].task = t]
    BY <1>4 DEF RunDequeue
  <2>2. run[r].pc = "next" /\ UNCHANGED executed BY <1>4 DEF RunDequeue
  <2>3. HandsInv' /\ InOnePlace' /\ run' \in Goroutines
    BY <1>1, <2>1, <2>2, DequeueKeeps
  <2>4. TypeInv' BY <1>1, <2>1, <2>2, <2>3 DEF TypeInv
  <2> QED BY <1>2, <2>3, <2>4
<1>5. CASE PriorityWorkerStep(r) /\ ~RunTask(r) /\ ~(RunDequeue(r) /\ pq # {})
  <2>1. UNCHANGED <<pq, executed>>
    BY <1>5 DEF PriorityWorkerStep, RunCheck, RunDequeue, RunTest, RunWait, RunEmpty,
                RunExit, RunClose
  <2>2. run[r].pc # "executing" /\ \E pc \in WorkerPC \ {"executing"} : RunGoto(r, pc)
    BY <1>5 DEF PriorityWorkerStep, RunCheck, RunDequeue, RunTest, RunWait, RunEmpty,
                RunExit, RunClose, WorkerPC
  <2>3. run' \in Goroutines /\ RunsQuiet BY <2>2, RunMoves DEF TypeInv
  <2>4. TypeInv' BY <1>1, <2>1, <2>3 DEF TypeInv
  <2>5. SchedsQuiet /\ \A t \in Tasks : Accepted(t)' <=> Accepted(t)
    BY <1>1 DEF SchedsQuiet, Accepted
  <2> QED BY <1>1, <1>2, <2>1, <2>3, <2>4, <2>5, QuietKeeps
<1> QED BY <1>3, <1>4, <1>5

LEMMA SubmitKeeps ==
  ASSUME IInv, NEW t \in Tasks, SubmitWithPriorityAndTimeout(t) PROVE IInv'
<1> USE DEF IInv
<1> USE DEF SubmitWithPriorityAndTimeout, SubmitStep
<1>1. UNCHANGED <<pq, executed, ctx, sched, run, call, starts, stops>>
  BY DEF SubmitCheck, SubmitNow, SubmitArm, SubmitSend, SubmitTimeout, SubmitCancelled,
         workerVars, poolVars, lifeVars
<1>2. FreshInv' BY <1>1, LifeKeeps DEF TypeInv
<1>3. CASE Send(t)
  <2>1. InFlight(t)
    <3>1. sub[t] # "accepted" /\ sub' = [sub EXCEPT ![t] = "accepted"] /\ queue' = Append(queue, t)
      <4>1. sub' = [sub EXCEPT ![t] = "accepted"] /\ queue' = Append(queue, t)
        BY <1>3 DEF Send, Becomes
      <4> QED BY <4>1 DEF SubmitCheck, SubmitNow, SubmitArm, SubmitSend,
                          SubmitTimeout, SubmitCancelled
    <3>2. sub'[t] = "accepted" BY <3>1 DEF TypeInv
    <3>3. ~SubmitCheck(t)
      BY <3>1, <3>2 DEF SubmitCheck, Becomes, TypeInv
    <3> QED BY <3>3 DEF SubmitNow, SubmitArm, SubmitSend, SubmitTimeout,
                        SubmitCancelled, InFlight
  <2>2. HandsInv' /\ InOnePlace' /\ queue' \in Seq(Tasks) /\ sub' \in [Tasks -> SubPC]
    BY <1>1, <1>3, <2>1, SendKeeps
  <2>3. TypeInv' BY <1>1, <2>2 DEF TypeInv
  <2> QED BY <1>2, <2>2, <2>3
<1>4. CASE ~Send(t)
  <2>1. UNCHANGED queue
    BY <1>4 DEF SubmitCheck, SubmitNow, SubmitArm, SubmitSend, SubmitTimeout,
                SubmitCancelled, chanVars
  <2>2. \/ UNCHANGED sub
        \/ /\ sub[t] # "accepted"
           /\ \E pc \in SubPC \ {"accepted"} : sub' = [sub EXCEPT ![t] = pc]
    BY <1>4 DEF SubmitCheck, SubmitNow, SubmitArm, SubmitSend, SubmitTimeout,
                SubmitCancelled, Becomes, SubPC, submitVars
  <2>3. sub' \in [Tasks -> SubPC] /\ \A u \in Tasks : Accepted(u)' <=> Accepted(u)
    BY <2>2 DEF Accepted, TypeInv
  <2>4. TypeInv' BY <1>1, <2>1, <2>3 DEF TypeInv
  <2>5. RunsQuiet /\ SchedsQuiet BY <1>1 DEF RunsQuiet, SchedsQuiet
  <2> QED BY <1>1, <1>2, <2>1, <2>3, <2>4, <2>5, QuietKeeps
<1> QED BY <1>3, <1>4

LEMMA CallKeeps ==
  ASSUME IInv, NEW c \in Callers, CallBegin(c) \/ CallStep(c) PROVE IInv'
<1> USE DEF IInv
<1>1. UNCHANGED <<queue, pq, executed, sub>>
  BY DEF CallBegin, CallStep, StartCas, Stop, StopCas, StopLoad, StopResult, CloseEnter,
         CloseOnce, StartContext, StartCancel,
         StartScheduler, StartSpawn, StartReturn, StopCancel, StopWake, StopLaunch, StopWait,
         CloseStop, CloseState, CloseChannel, chanVars, workerVars, submitVars
<1>2. \A t \in Tasks : Accepted(t)' <=> Accepted(t) BY <1>1 DEF Accepted
<1>t. starts \in Nat /\ stops \in Nat /\ ctx \in Nat /\ MaxStarts \in Nat
  BY BoundType DEF TypeInv
<1>3. CASE StartCas(c)
  <2> DEFINE f == [op |-> "start", pc |-> "start_ctx", id |-> starts + 1, todo |-> Workers]
  <2>1. /\ call' = [call EXCEPT ![c] = f] /\ starts' = starts + 1 /\ starts < MaxStarts
        /\ UNCHANGED <<sched, run, ctx, stops>>
    BY <1>3 DEF StartCas, Enter, workerVars
  <2>2. f.id = starts + 1 /\ f.id \in Nat /\ f \in [op : {"none", "start", "stop", "close"},
                                                    pc : CallPC, id : Nat, todo : SUBSET Workers]
    BY <1>t DEF CallPC
  <2> HIDE DEF f
  <2>3. call' \in Calls /\ \A d \in Callers : call'[d] = IF d = c THEN f ELSE call[d]
    BY <2>1, <2>2 DEF TypeInv, Calls
  <2>4. starts' \in 0..MaxStarts BY <1>t, <2>1
  <2>5. TypeInv' BY <1>1, <2>1, <2>3, <2>4 DEF TypeInv
  <2>6. f.id \in Gens /\ f.id > starts /\ f.id \in 1..starts'
        /\ \A n \in 1..starts : n \in 1..starts' /\ n # f.id
    BY <1>t, <2>1, <2>2 DEF Gens
  <2>7. \A g \in Gens : g > starts' => g > starts BY <1>t, <2>1 DEF Gens
  <2>8. FreshInv' BY <2>1, <2>3, <2>6, <2>7 DEF FreshInv
  <2>9. RunsQuiet /\ SchedsQuiet BY <2>1 DEF RunsQuiet, SchedsQuiet
  <2> QED BY <1>1, <1>2, <2>5, <2>8, <2>9, QuietKeeps
<1>4. CASE StartScheduler(c)
  <2> DEFINE g == call[c].id
  <2>1. /\ call[c].pc = "start_sched"
        /\ sched' = [sched EXCEPT ![g].pc = "arm"]
        /\ call' = [call EXCEPT ![c].pc = "start_spawn"]
        /\ UNCHANGED <<starts, run, ctx, stops>>
    BY <1>4 DEF StartScheduler, Goto, workerVars, poolVars
  <2>2. g \in 1..starts /\ sched[g].pc = "none" BY <2>1 DEF FreshInv, Starting
  <2>3. g \in Gens BY <1>t, <2>2 DEF Gens, TypeInv
  <2>4. call' \in Calls /\ \A d \in Callers : /\ call'[d].id = call[d].id
                                              /\ call'[d].pc = IF d = c THEN "start_spawn"
                                                               ELSE call[d].pc
    BY <2>1 DEF TypeInv, Calls, CallPC
  <2>5. \A d \in Callers \ {c} : call[d].pc \in Starting => call[d].id # g
    BY <2>1 DEF FreshInv, Starting
  <2> HIDE DEF g
  <2>6. /\ sched' \in Schedulers /\ sched'[g].pc = "arm" /\ sched'[g].task = sched[g].task
        /\ \A i \in Gens \ {g} : sched'[i] = sched[i]
    BY <2>1, <2>3 DEF TypeInv, Schedulers, SchedPC
  <2>7. TypeInv' BY <1>1, <2>1, <2>4, <2>6 DEF TypeInv
  <2>8. 1..starts \subseteq Gens BY <1>t DEF Gens, TypeInv
  <2>9. ~(g > starts) BY <1>t, <2>2
  <2>10. FreshInv'
    <3>1. ASSUME NEW d \in Callers, call'[d].pc \in Starting
          PROVE  call'[d].id \in 1..starts' /\ sched'[call'[d].id].pc = "none"
      <4>1. d # c /\ call[d].pc \in Starting BY <2>4, <3>1 DEF Starting
      <4> QED BY <2>1, <2>4, <2>5, <2>6, <2>8, <4>1 DEF FreshInv
    <3>2. \A d, e \in Callers : call'[d].pc \in Starting /\ call'[e].pc \in Starting
                                /\ call'[d].id = call'[e].id => d = e
      BY <2>4 DEF FreshInv, Starting
    <3>3. \A i \in Gens : i > starts' => sched'[i].pc = "none"
      BY <2>1, <2>6, <2>9 DEF FreshInv
    <3> QED BY <3>1, <3>2, <3>3 DEF FreshInv
  <2>11. RunsQuiet /\ SchedsQuiet
    BY <2>1, <2>2, <2>6 DEF RunsQuiet, SchedsQuiet
  <2> QED BY <1>1, <1>2, <2>7, <2>10, <2>11, QuietKeeps
<1>5. CASE ~StartCas(c) /\ ~StartScheduler(c)
  <2>1. UNCHANGED <<sched, starts>>
    BY <1>5 DEF CallBegin, CallStep, Stop, StopCas, StopLoad, StopResult, CloseEnter,
         CloseOnce, StartContext, StartCancel,
         StartSpawn, StartReturn, StopCancel, StopWake, StopLaunch, StopWait,
         CloseStop, CloseState, CloseChannel
  <2>2. stops' \in Nat
    <3>1. stops' = stops \/ stops' = stops + 1
      BY <1>5 DEF CallBegin, CallStep, Stop, StopCas, StopLoad, StopResult, CloseEnter,
         CloseOnce, StartContext, StartCancel,
         StartSpawn, StartReturn, StopCancel, StopWake, StopLaunch, StopWait,
         CloseStop, CloseState, CloseChannel
    <3> QED BY <1>t, <3>1
  <2>3. ctx' \in Nat
    <3>1. ctx' = ctx \/ ctx' = call[c].id
      BY <1>5 DEF CallBegin, CallStep, Stop, StopCas, StopLoad, StopResult, CloseEnter,
         CloseOnce, StartContext, StartCancel,
         StartSpawn, StartReturn, StopCancel, StopWake, StopLaunch, StopWait,
         CloseStop, CloseState, CloseChannel, poolVars
    <3>2. call[c].id \in Nat BY DEF TypeInv, Calls
    <3> QED BY <1>t, <3>1, <3>2
  <2>4. run' \in Goroutines /\ RunsQuiet
    <3>1. CASE UNCHANGED run BY <3>1 DEF RunsQuiet, TypeInv
    <3>2. CASE StopWake(c) BY <3>2, BroadcastMoves DEF StopWake, TypeInv
    <3>3. CASE StartSpawn(c)
      <4>1. PICK w \in call[c].todo, s \in 1..MaxRuns :
              /\ run[<<w, s>>].pc = "none"
              /\ run' = [run EXCEPT ![<<w, s>>] =
                           [pc |-> "select", ctx |-> 0, task |-> NoTask]]
        BY <3>3 DEF StartSpawn, Spawn
      <4>2. <<w, s>> \in Runs BY DEF TypeInv, Calls, Runs
      <4>3. run[<<w, s>>].task = NoTask BY <4>1, <4>2 DEF HandsInv
      <4> QED BY <4>1, <4>2, <4>3 DEF TypeInv, Goroutines, RunsQuiet, WorkerPC
    <3> QED BY <1>5, <3>1, <3>2, <3>3
      DEF CallBegin, CallStep, Stop, StopCas, StopLoad, StopResult, CloseEnter,
         CloseOnce, StartContext, StartCancel,
         StartReturn, StopCancel, StopLaunch, StopWait,
         CloseStop, CloseState, CloseChannel, workerVars
  <2>5. /\ call' \in Calls
        /\ \A d \in Callers : call'[d].pc \in Starting =>
                                call[d].pc \in Starting /\ call'[d].id = call[d].id
    <3>1. CASE call' = [call EXCEPT ![c] = Idle]
      BY <3>1 DEF TypeInv, Calls, Idle, CallPC, Starting
    <3>2. CASE call[c].pc = "start_ctx" /\ call' = [call EXCEPT ![c].pc = "start_cancel"]
      BY <3>2 DEF TypeInv, Calls, CallPC, Starting
    <3>c. CASE call[c].pc = "start_cancel" /\ call' = [call EXCEPT ![c].pc = "start_sched"]
      BY <3>c DEF TypeInv, Calls, CallPC, Starting
    <3>3. CASE \E pc \in CallPC \ Starting : call' = [call EXCEPT ![c].pc = pc]
      BY <3>3 DEF TypeInv, Calls, Starting
    <3>4. CASE call[c].pc = "start_spawn" /\
               \E w : call' = [call EXCEPT ![c].todo = call[c].todo \ {w}]
      <4>1. PICK w : call' = [call EXCEPT ![c].todo = call[c].todo \ {w}] BY <3>4
      <4> DEFINE s == call[c].todo \ {w}
      <4>2. s \in SUBSET Workers /\ call' = [call EXCEPT ![c].todo = s]
        BY <4>1 DEF TypeInv, Calls
      <4> HIDE DEF s
      <4> QED BY <4>2 DEF TypeInv, Calls
    <3>5. CASE \E op \in {"none", "start", "stop", "close"}, pc \in CallPC \ Starting,
                  id \in Nat :
                 call' = [call EXCEPT ![c] = [op |-> op, pc |-> pc, id |-> id, todo |-> {}]]
      <4>1. PICK op \in {"none", "start", "stop", "close"}, pc \in CallPC \ Starting,
                 id \in Nat :
                call' = [call EXCEPT ![c] = [op |-> op, pc |-> pc, id |-> id, todo |-> {}]]
        BY <3>5
      <4> DEFINE f == [op |-> op, pc |-> pc, id |-> id, todo |-> {}]
      <4>2. f.pc \notin Starting
            /\ f \in [op : {"none", "start", "stop", "close"}, pc : CallPC,
                     id : Nat, todo : SUBSET Workers]
        OBVIOUS
      <4>3. call' = [call EXCEPT ![c] = f] BY <4>1
      <4> HIDE DEF f
      <4> QED BY <4>2, <4>3 DEF TypeInv, Calls
    <3>o. call[c].op \in {"none", "start", "stop", "close"} /\ stops + 1 \in Nat
      BY <1>t DEF TypeInv, Calls
    <3>6. CASE CloseEnter(c)
      BY <3>6, <3>5 DEF CloseEnter, Enter, CallPC, Starting
    <3>7. CASE StopLaunch(c)
      BY <3>7, <3>5, <3>o DEF StopLaunch, Enter, CallPC, Starting
    <3>8. ASSUME NEW op \in {"none", "start", "stop", "close"}, NEW b \in BOOLEAN,
                 StopResult(c, op, b)
          PROVE  \/ call' = [call EXCEPT ![c] = Idle]
                 \/ \E o \in {"none", "start", "stop", "close"}, pc \in CallPC \ Starting,
                       id \in Nat :
                      call' = [call EXCEPT ![c] = [op |-> o, pc |-> pc, id |-> id, todo |-> {}]]
      BY <3>8 DEF StopResult, Enter, Return, CallPC, Starting
    <3>9. CASE StopWait(c) BY <3>9, <3>8, <3>o, <3>1, <3>5 DEF StopWait
    <3>l. CASE StopLoad(c)
      <4>1. (state # 0) \in BOOLEAN /\ StopResult(c, call[c].op, state # 0)
        BY <3>l DEF StopLoad
      <4> QED BY <4>1, <3>8, <3>o, <3>1, <3>5
    <3>10. CASE Stop(c) \/ CloseStop(c)
      <4>1. PICK op \in {"stop", "close"} : StopCas(c, op) BY <3>10 DEF Stop, CloseStop
      <4>2. \E pc \in {"stop_cancel", "stop_load"} : Enter(c, op, pc, 0, {})
        BY <4>1 DEF StopCas
      <4> QED BY <4>2, <3>5 DEF Enter, CallPC, Starting
    <3>11. CASE StartContext(c) BY <3>2, <3>11 DEF StartContext, Goto
    <3>d. CASE StartCancel(c) BY <3>c, <3>d DEF StartCancel, Goto
    <3>e. CASE CloseOnce(c)
      BY <3>e, <3>1, <3>3 DEF CloseOnce, Goto, Return, CallPC, Starting
    <3>12. CASE StartSpawn(c) BY <3>4, <3>12 DEF StartSpawn
    <3>13. CASE StartReturn(c) \/ CloseChannel(c)
      BY <3>1, <3>13 DEF StartReturn, CloseChannel, Return
    <3>14. CASE StopCancel(c) \/ StopWake(c) \/ CloseState(c)
      BY <3>3, <3>14 DEF StopCancel, StopWake, CloseState, Goto, CallPC, Starting
    <3> QED BY <1>5, <3>6, <3>7, <3>9, <3>10, <3>11, <3>12, <3>13, <3>14,
              <3>d, <3>e, <3>l
        DEF CallBegin, CallStep
  <2>6. TypeInv' BY <1>1, <2>1, <2>2, <2>3, <2>4, <2>5 DEF TypeInv
  <2>7. FreshInv' BY <2>1, <2>5, FreshKeeps DEF TypeInv
  <2>8. SchedsQuiet BY <2>1 DEF SchedsQuiet
  <2> QED BY <1>1, <1>2, <2>4, <2>6, <2>7, <2>8, QuietKeeps
<1> QED BY <1>3, <1>4, <1>5

\* Rounds of Worker.Stop and cancelled contexts move nothing.
LEMMA OthersKeep ==
  ASSUME IInv, UNCHANGED <<queue, pq, executed, sub, sched, run, call, ctx, starts, stops>>
  PROVE  IInv'
  BY DEF IInv, TypeInv, FreshInv, HandsInv, InOnePlace, Accepted, InQueue, Scheduled, Held, Holds
-----------------------------------------------------------------------------
LEMMA StepIInv == IInv /\ [Next]_vars => IInv'
<1> SUFFICES ASSUME IInv, [Next]_vars PROVE IInv' OBVIOUS
<1>1. ASSUME NEW k \in Stops, NEW w \in Workers, StopperStep(k, w) PROVE IInv'
  BY <1>1, OthersKeep
  DEF StopperStep, StopStep, StopCheckQuit, StopCloseQuit, StopWaitDone, StopTimeout,
      chanVars, workerVars, poolVars, submitVars, lifeVars
<1>2. ASSUME NEW g \in Gens, CancelParent(g) PROVE IInv'
  BY <1>2, OthersKeep
  DEF CancelParent, chanVars, workerVars, poolVars, submitVars, lifeVars
<1>3. CASE UNCHANGED vars
  BY <1>3, OthersKeep DEF vars, chanVars, workerVars, poolVars, submitVars, lifeVars
<1>4. CASE Next
  <2>1. Step BY <1>4 DEF Next
  <2> QED BY <1>1, <1>2, <2>1, CallKeeps, SubmitKeeps, WorkerKeeps, SchedKeeps DEF Step
<1> QED BY <1>3, <1>4

\* No task is lost or repeated between the channel, the scheduler, the priority
\* queue and the workers, whoever stops, restarts or closes the pool and
\* however many schedulers are alive (taskScheduler, getNextTask,
\* runPriorityWorker).
THEOREM InOnePlaceHolds == Spec => []InOnePlace
<1>1. Spec => []IInv BY InitIInv, StepIInv, PTL DEF Spec
<1> QED BY <1>1, PTL DEF IInv
-----------------------------------------------------------------------------
(***************************************************************************)
(* PriorityQueue: the binary heap of container/heap.                       *)
(***************************************************************************)
\* The half of a position is its parent, and the halves of 2i and 2i+1 are i.
LEMMA Parents ==
  ASSUME NEW j \in Nat, j >= 2
  PROVE  /\ j \div 2 \in Nat /\ j \div 2 >= 1 /\ j \div 2 < j
         /\ j = 2 * (j \div 2) \/ j = 2 * (j \div 2) + 1
  OBVIOUS

Items == [PriorityTasks -> [priority : Int, submit : Int, boost : Int]]

\* Less is a strict order in which the tasks neither of which is before the
\* other are alike.
LEMMA LessOrder ==
  ASSUME NEW it \in Items
  PROVE  /\ \A a, b \in PriorityTasks : Less(it, a, b) => ~Less(it, b, a)
         /\ \A a, b, c \in PriorityTasks : ~Less(it, a, b) /\ ~Less(it, b, c) => ~Less(it, a, c)
<1> SUFFICES ASSUME NEW a \in PriorityTasks, NEW b \in PriorityTasks, NEW c \in PriorityTasks
             PROVE  /\ Less(it, a, b) => ~Less(it, b, a)
                    /\ ~Less(it, a, b) /\ ~Less(it, b, c) => ~Less(it, a, c)
  OBVIOUS
<1>1. \A t \in PriorityTasks : it[t].priority \in Int /\ it[t].submit \in Int /\ it[t].boost \in Int
  BY DEF Items
<1> QED BY <1>1 DEF Less

LEMMA SwapIs ==
  ASSUME NEW n \in Nat, NEW s \in Heaps(n), NEW i \in 1..n, NEW j \in 1..n
  PROVE  /\ Swap(s, i, j) \in Heaps(n)
         /\ \A x \in 1..n :
              Swap(s, i, j)[x] = IF x = j THEN s[i] ELSE IF x = i THEN s[j] ELSE s[x]
  BY DEF Swap, Heaps

NoneTwice(s, n) == \A x, y \in 1..n : s[x] = s[y] => x = y

\* r holds the tasks that s holds, in another order.
Rearranged(s, r, n) ==
  /\ r \in Heaps(n)
  /\ \A x \in 1..n : \E y \in 1..n : r[x] = s[y]
  /\ \A x \in 1..n : \E y \in 1..n : s[x] = r[y]
  /\ NoneTwice(s, n) => NoneTwice(r, n)

LEMMA SwapRearranges ==
  ASSUME NEW n \in Nat, NEW s \in Heaps(n), NEW i \in 1..n, NEW j \in 1..n
  PROVE  Rearranged(s, Swap(s, i, j), n)
<1> DEFINE r == Swap(s, i, j)
<1>1. r \in Heaps(n) /\ \A x \in 1..n : r[x] = IF x = j THEN s[i] ELSE IF x = i THEN s[j] ELSE s[x]
  BY SwapIs
<1> HIDE DEF r
<1>2. \A x \in 1..n : \E y \in 1..n : r[x] = s[y] BY <1>1
<1>3. \A x \in 1..n : \E y \in 1..n : s[x] = r[y] BY <1>1
<1>4. NoneTwice(s, n) => NoneTwice(r, n) BY <1>1 DEF NoneTwice
<1>5. Rearranged(s, r, n) BY <1>1, <1>2, <1>3, <1>4 DEF Rearranged
<1> QED BY <1>5 DEF r

LEMMA RearrangedTwice ==
  ASSUME NEW n \in Nat, NEW s, NEW r, NEW q, Rearranged(s, r, n), Rearranged(r, q, n)
  PROVE  Rearranged(s, q, n)
<1>1. q \in Heaps(n) /\ (NoneTwice(s, n) => NoneTwice(q, n)) BY DEF Rearranged
<1>2. ASSUME NEW x \in 1..n PROVE \E y \in 1..n : q[x] = s[y]
  <2>1. PICK z \in 1..n : q[x] = r[z] BY DEF Rearranged
  <2>2. PICK y \in 1..n : r[z] = s[y] BY DEF Rearranged
  <2> QED BY <2>1, <2>2
<1>3. ASSUME NEW x \in 1..n PROVE \E y \in 1..n : s[x] = q[y]
  <2>1. PICK z \in 1..n : s[x] = r[z] BY DEF Rearranged
  <2>2. PICK y \in 1..n : r[z] = q[y] BY DEF Rearranged
  <2> QED BY <2>1, <2>2
<1> QED BY <1>1, <1>2, <1>3 DEF Rearranged

LEMMA RearrangedSame ==
  ASSUME NEW n \in Nat, NEW s \in Heaps(n) PROVE Rearranged(s, s, n)
  BY DEF Rearranged

\* Of the first n tasks none at or below m is before its parent.
OrderedFrom(it, s, n, m) == \A j \in 2..n : j \div 2 >= m => ~Less(it, s[j], s[j \div 2])
-----------------------------------------------------------------------------
\* All are in order but i and its parent, and the children of i come after that parent too.
OrderedButUp(it, s, n, i) ==
  /\ \A j \in 2..n : j # i => ~Less(it, s[j], s[j \div 2])
  /\ \A j \in 2..n : j \div 2 = i /\ i > 1 => ~Less(it, s[j], s[i \div 2])

LEMMA UpTurn ==
  ASSUME NEW it \in Items, NEW n \in Nat, NEW s \in Heaps(n), NEW i \in 1..n,
         i > 1, Less(it, s[i], s[i \div 2]), OrderedButUp(it, s, n, i)
  PROVE  OrderedButUp(it, Swap(s, i, i \div 2), n, i \div 2)
<1>p. PICK p : p = i \div 2 OBVIOUS
<1> DEFINE r == Swap(s, i, p)
<1>0. p \in 1..n /\ p < i BY Parents, <1>p
<1>1. \A x \in 1..n : r[x] = IF x = p THEN s[i] ELSE IF x = i THEN s[p] ELSE s[x]
  <2>1. p \in 1..n BY <1>0

  <2> QED BY ONLY <2>1, SwapIs, n \in Nat, s \in Heaps(n), i \in 1..n
<1>2. \A j \in 2..n : j \div 2 \in 1..n /\ j \div 2 < j BY Parents
<1>3. \A x \in 1..n : s[x] \in PriorityTasks BY DEF Heaps
<1>4. Less(it, s[i], s[p]) BY <1>p
<1>5. /\ \A j \in 2..n : j # i => ~Less(it, s[j], s[j \div 2])
      /\ \A j \in 2..n : j \div 2 = i => ~Less(it, s[j], s[p])
  BY <1>p DEF OrderedButUp
<1>6. ASSUME NEW j \in 2..n, j # p PROVE ~Less(it, r[j], r[j \div 2])
  <2>1. CASE j = i
    <3>1. r[j] = s[p] /\ r[j \div 2] = s[i] BY <2>1, <1>p, <1>0, <1>1
    <3> QED BY <3>1, <1>0, <1>3, <1>4, LessOrder
  <2>2. CASE j # i /\ j \div 2 = p
    <3>1. r[j] = s[j] /\ r[j \div 2] = s[i] BY <2>2, <1>0, <1>1, <1>6
    <3>2. ~Less(it, s[j], s[p]) BY <2>2, <1>5
    <3>3. ~Less(it, s[p], s[i]) BY <1>0, <1>3, <1>4, LessOrder
    <3> QED BY <3>1, <3>2, <3>3, <1>0, <1>3, LessOrder
  <2>3. CASE j \div 2 = i
    <3>1. r[j] = s[j] /\ r[j \div 2] = s[p] BY <2>3, <1>0, <1>1, <1>2, <1>6
    <3> QED BY <3>1, <2>3, <1>5
  <2>4. CASE j # i /\ j \div 2 # p /\ j \div 2 # i
    <3>1. r[j] = s[j] /\ r[j \div 2] = s[j \div 2] BY <2>4, <1>0, <1>1, <1>2, <1>6
    <3> QED BY <3>1, <2>4, <1>5
  <2> QED BY <2>1, <2>2, <2>3, <2>4
<1>7. ASSUME NEW j \in 2..n, j \div 2 = p, p > 1 PROVE ~Less(it, r[j], r[p \div 2])
  <2>1. p \div 2 \in 1..n /\ p \div 2 # p /\ p \div 2 # i BY <1>0, <1>7, Parents
  <2>2. r[p \div 2] = s[p \div 2] BY <2>1, <1>1
  <2>3. ~Less(it, s[p], s[p \div 2]) BY <1>0, <1>5, <1>7
  <2>4. CASE j = i BY <2>2, <2>3, <2>4, <1>0, <1>1
  <2>5. CASE j # i
    <3>1. r[j] = s[j] BY <2>5, <1>1, <1>2, <1>7
    <3>2. ~Less(it, s[j], s[p]) BY <2>5, <1>5, <1>7
    <3> QED BY <3>1, <3>2, <2>1, <2>2, <2>3, <1>0, <1>3, LessOrder
  <2> QED BY <2>4, <2>5
<1> HIDE DEF r
<1>8. OrderedButUp(it, r, n, p) BY <1>6, <1>7 DEF OrderedButUp
<1> QED BY <1>8, <1>p DEF r
-----------------------------------------------------------------------------
UpLoops(g, it, n) ==
  g = [i \in 1..n |-> [s \in Heaps(n) |->
         IF i > 1 /\ Less(it, s[i], s[i \div 2]) THEN g[i \div 2][Swap(s, i, i \div 2)] ELSE s]]

UpLoop(it, n) == CHOOSE g : UpLoops(g, it, n)

LEMMA UpIs ==
  ASSUME NEW it, NEW h, NEW k PROVE Up(it, h, k) = UpLoop(it, Len(h))[k][h]
  BY DEF Up, UpLoop, UpLoops

LEMMA UpLoopExists ==
  ASSUME NEW it, NEW n \in Nat PROVE UpLoops(UpLoop(it, n), it, n)
<1> DEFINE more == [i \in 1..n |-> {s \in Heaps(n) : i > 1 /\ Less(it, s[i], s[i \div 2])}]
           next == [i \in 1..n |-> [s \in Heaps(n) |-> i \div 2]]
           do   == [i \in 1..n |-> [s \in Heaps(n) |-> Swap(s, i, i \div 2)]]
           m    == [i \in 1..n |-> i]
<1>1. \A i \in 1..n : m[i] \in Nat /\ m[i] <= n OBVIOUS
<1>2. ASSUME NEW i \in 1..n, NEW s \in Heaps(n), s \in more[i]
      PROVE  next[i][s] \in 1..n /\ do[i][s] \in Heaps(n) /\ m[next[i][s]] < m[i]
  <2>1. i > 1 BY <1>2
  <2>2. i \div 2 \in 1..n /\ i \div 2 < i BY <2>1, Parents
  <2>3. Swap(s, i, i \div 2) \in Heaps(n)
    <3>1. PICK p : p = i \div 2 OBVIOUS
    <3>2. p \in 1..n BY <3>1, <2>2
    <3>3. Swap(s, i, p) \in Heaps(n) BY ONLY <3>2, SwapIs, n \in Nat, i \in 1..n, s \in Heaps(n)
    <3> QED BY <3>1, <3>3
  <2> QED BY <2>2, <2>3
<1>3. \A g : Loops(g, 1..n, Heaps(n), more, next, do) => UpLoops(g, it, n)
  <2> SUFFICES ASSUME NEW g, Loops(g, 1..n, Heaps(n), more, next, do) PROVE UpLoops(g, it, n)
    OBVIOUS
  <2>1. \A i \in 1..n : \A s \in Heaps(n) :
          /\ s \in more[i] <=> i > 1 /\ Less(it, s[i], s[i \div 2])
          /\ next[i][s] = i \div 2 /\ do[i][s] = Swap(s, i, i \div 2)
    OBVIOUS
  <2>2. g = [i \in 1..n |-> [s \in Heaps(n) |->
               IF s \in more[i] THEN g[next[i][s]][do[i][s]] ELSE s]]
    BY DEF Loops
  <2> HIDE DEF more, next, do
  <2>3. \A i \in 1..n : [s \in Heaps(n) |-> IF s \in more[i] THEN g[next[i][s]][do[i][s]] ELSE s]
          = [s \in Heaps(n) |->
               IF i > 1 /\ Less(it, s[i], s[i \div 2]) THEN g[i \div 2][Swap(s, i, i \div 2)] ELSE s]
    BY <2>1
  <2> QED BY <2>2, <2>3 DEF UpLoops
<1>4. \E g : Loops(g, 1..n, Heaps(n), more, next, do)
  <2> HIDE DEF more, next, do, m
  <2> QED BY <1>1, <1>2, LoopExists
<1> QED BY <1>3, <1>4 DEF UpLoop

\* container/heap's up keeps the tasks, and puts the one at k where it belongs.
LEMMA UpOrders ==
  ASSUME NEW it \in Items, NEW n \in Nat, NEW h \in Heaps(n), Len(h) = n, NEW k \in 1..n
  PROVE  /\ Rearranged(h, Up(it, h, k), n)
         /\ OrderedButUp(it, h, n, k) => OrderedFrom(it, Up(it, h, k), n, 1)
<1>1. PICK g : g = UpLoop(it, n) OBVIOUS
<1>2. UpLoops(g, it, n) BY <1>1, UpLoopExists
<1>3. Up(it, h, k) = g[k][h] BY <1>1, UpIs
<1> DEFINE Fine(i, s) == /\ Rearranged(s, g[i][s], n)
                         /\ OrderedButUp(it, s, n, i) => OrderedFrom(it, g[i][s], n, 1)
           A == {i \in 1..n : \A s \in Heaps(n) : Fine(i, s)}
           m == [i \in 1..n |-> i]
<1>4. ASSUME NEW i \in 1..n, \A j \in 1..n : m[j] < m[i] => j \in A PROVE i \in A
  <2> SUFFICES ASSUME NEW s \in Heaps(n) PROVE Fine(i, s) OBVIOUS
  <2>1. CASE i > 1 /\ Less(it, s[i], s[i \div 2])
    <3>1. PICK p : p = i \div 2 OBVIOUS
    <3>2. p \in 1..n /\ p < i BY <2>1, <3>1, Parents
    <3>3. PICK r : r = Swap(s, i, p) OBVIOUS
    <3>4. Rearranged(s, r, n)
      BY ONLY <3>2, <3>3, SwapRearranges, n \in Nat, i \in 1..n, s \in Heaps(n)
    <3>5. r \in Heaps(n) BY <3>4 DEF Rearranged
    <3>6. g[i][s] = g[p][r] BY <1>2, <2>1, <3>1, <3>3 DEF UpLoops
    <3>7. Fine(p, r) BY <1>4, <3>2, <3>5
    <3>8. OrderedButUp(it, s, n, i) => OrderedButUp(it, r, n, p)
      BY <2>1, <3>1, <3>3, UpTurn
    <3>9. Rearranged(s, g[p][r], n)
      BY ONLY <3>4, <3>7, RearrangedTwice, n \in Nat DEF Fine
    <3> QED BY <3>6, <3>7, <3>8, <3>9
  <2>2. CASE ~(i > 1 /\ Less(it, s[i], s[i \div 2]))
    <3>1. g[i][s] = s BY <1>2, <2>2 DEF UpLoops
    <3>2. ASSUME OrderedButUp(it, s, n, i) PROVE OrderedFrom(it, s, n, 1)
      <4>1. ASSUME NEW j \in 2..n PROVE ~Less(it, s[j], s[j \div 2])
        BY <2>2, <3>2 DEF OrderedButUp
      <4> QED BY <4>1 DEF OrderedFrom
    <3> QED BY <3>1, <3>2, RearrangedSame
  <2> QED BY <2>1, <2>2
<1>5. k \in A
  <2>1. \A i \in 1..n : m[i] \in Nat OBVIOUS
  <2>2. \A i \in 1..n : (\A j \in 1..n : m[j] < m[i] => j \in A) => i \in A BY <1>4
  <2> HIDE DEF A, m
  <2>3. PICK K : K = 1..n OBVIOUS
  <2>4. /\ \A i \in K : m[i] \in Nat
        /\ \A i \in K : (\A j \in K : m[j] < m[i] => j \in A) => i \in A
    BY <2>1, <2>2, <2>3
  <2>5. \A i \in K : i \in A BY ONLY <2>4, MeasureInduction
  <2> QED BY <2>3, <2>5
<1> QED BY <1>3, <1>5
-----------------------------------------------------------------------------
LEMMA BestIs ==
  ASSUME NEW it, NEW s, NEW n \in Nat, NEW i \in Nat, i >= 1, 2*i <= n
  PROVE  /\ Best(it, s, i, n) \in i + 1..n
         /\ Best(it, s, i, n) \div 2 = i
         /\ Best(it, s, i, n) \in {2*i, 2*i + 1}
         /\ 2*i + 1 <= n /\ Best(it, s, i, n) = 2*i => ~Less(it, s[2*i + 1], s[2*i])
         /\ Best(it, s, i, n) = 2*i + 1 => Less(it, s[2*i + 1], s[2*i])
  BY DEF Best

\* From m on all are in order but the children of i, which come after the parent of i.
OrderedButDown(it, s, n, m, i) ==
  /\ \A j \in 2..n : j \div 2 >= m /\ j \div 2 # i => ~Less(it, s[j], s[j \div 2])
  /\ \A j \in 2..n : j \div 2 = i /\ i > 1 /\ i \div 2 >= m => ~Less(it, s[j], s[i \div 2])

LEMMA DownTurn ==
  ASSUME NEW it \in Items, NEW l \in Nat, NEW s \in Heaps(l), NEW n \in Nat, n <= l,
         NEW m \in Nat, NEW i \in 1..l, i >= m, 2*i <= n,
         NEW b, b = Best(it, s, i, n), Less(it, s[b], s[i]),
         OrderedButDown(it, s, n, m, i)
  PROVE  OrderedButDown(it, Swap(s, i, b), n, m, b)
<1> DEFINE r == Swap(s, i, b)
<1>0. /\ b \in 1..l /\ b > i /\ b <= n /\ b \div 2 = i /\ b \in {2*i, 2*i + 1}
      /\ 2*i + 1 <= n /\ b = 2*i => ~Less(it, s[2*i + 1], s[2*i])
      /\ b = 2*i + 1 => Less(it, s[2*i + 1], s[2*i])
  <2>1. i \in Nat /\ i >= 1 OBVIOUS
  <2> QED BY <2>1, BestIs
<1>1. \A x \in 1..l : r[x] = IF x = b THEN s[i] ELSE IF x = i THEN s[b] ELSE s[x]
  <2>1. b \in 1..l BY <1>0
  <2> QED BY ONLY <2>1, SwapIs, l \in Nat, s \in Heaps(l), i \in 1..l
<1>2. \A j \in 2..n : j \in 1..l /\ j \div 2 \in 1..l /\ j \div 2 < j BY Parents
<1>3. \A x \in 1..l : s[x] \in PriorityTasks BY DEF Heaps
<1>4. Less(it, s[b], s[i]) /\ ~Less(it, s[i], s[b]) BY <1>0, <1>3, LessOrder
<1>5. /\ \A j \in 2..n : j \div 2 >= m /\ j \div 2 # i => ~Less(it, s[j], s[j \div 2])
      /\ \A j \in 2..n : j \div 2 = i /\ i > 1 /\ i \div 2 >= m => ~Less(it, s[j], s[i \div 2])
  BY DEF OrderedButDown
<1>6. ASSUME NEW j \in 2..n, j \div 2 >= m, j \div 2 # b PROVE ~Less(it, r[j], r[j \div 2])
  <2>1. CASE j = b
    <3>1. r[j] = s[i] /\ r[j \div 2] = s[b] BY <2>1, <1>0, <1>1
    <3> QED BY <3>1, <1>4
  <2>2. CASE j # b /\ j \div 2 = i
    <3>1. r[j] = s[j] /\ r[j \div 2] = s[b] BY <2>2, <1>0, <1>1, <1>2
    <3>2. j = 2*i \/ j = 2*i + 1 BY <2>2, Parents
    <3>3. CASE j = 2*i
      <4>1. b = 2*i + 1 BY <3>3, <2>2, <1>0
      <4>2. Less(it, s[b], s[j]) BY <4>1, <3>3, <1>0
      <4> QED BY <4>2, <3>1, <1>0, <1>2, <1>3, LessOrder
    <3>4. CASE j = 2*i + 1
      <4>1. b = 2*i BY <3>4, <2>2, <1>0
      <4> QED BY <4>1, <3>1, <3>4, <1>0
    <3> QED BY <3>2, <3>3, <3>4
  <2>3. CASE j = i
    <3>1. r[j] = s[b] /\ r[j \div 2] = s[i \div 2] BY <2>3, <1>0, <1>1, <1>2
    <3>2. b \in 2..n /\ i > 1 BY <1>0, <2>3
    <3> QED BY <3>1, <3>2, <2>3, <1>0, <1>5, <1>6
  <2>4. CASE j # b /\ j # i /\ j \div 2 # i
    <3>1. r[j] = s[j] /\ r[j \div 2] = s[j \div 2] BY <2>4, <1>1, <1>2, <1>6
    <3> QED BY <3>1, <2>4, <1>5, <1>6
  <2> QED BY <2>1, <2>2, <2>3, <2>4
<1>7. ASSUME NEW j \in 2..n, j \div 2 = b PROVE ~Less(it, r[j], r[b \div 2])
  <2>1. j # b /\ j # i BY <1>0, <1>2, <1>7
  <2>2. r[j] = s[j] /\ r[b \div 2] = s[b] BY <2>1, <1>0, <1>1, <1>2
  <2>3. j \div 2 >= m /\ j \div 2 # i BY <1>0, <1>7
  <2> QED BY <2>2, <2>3, <1>5, <1>7
<1> HIDE DEF r
<1>8. OrderedButDown(it, r, n, m, b) BY <1>6, <1>7 DEF OrderedButDown
<1> QED BY <1>8 DEF r
-----------------------------------------------------------------------------
DownLoops(g, it, l, n) ==
  g = [i \in 1..l |-> [s \in Heaps(l) |->
         IF 2*i <= n /\ Less(it, s[Best(it, s, i, n)], s[i])
         THEN g[Best(it, s, i, n)][Swap(s, i, Best(it, s, i, n))]
         ELSE s]]

DownLoop(it, l, n) == CHOOSE g : DownLoops(g, it, l, n)

LEMMA DownIs ==
  ASSUME NEW it, NEW h, NEW k, NEW n
  PROVE  Down(it, h, k, n) = DownLoop(it, Len(h), n)[k][h]
  BY DEF Down, DownLoop, DownLoops

LEMMA DownLoopExists ==
  ASSUME NEW it, NEW l \in Nat, NEW n \in Nat, n <= l
  PROVE  DownLoops(DownLoop(it, l, n), it, l, n)
<1> DEFINE more == [i \in 1..l |-> {s \in Heaps(l) : 2*i <= n /\ Less(it, s[Best(it, s, i, n)], s[i])}]
           next == [i \in 1..l |-> [s \in Heaps(l) |-> Best(it, s, i, n)]]
           do   == [i \in 1..l |-> [s \in Heaps(l) |-> Swap(s, i, Best(it, s, i, n))]]
           m    == [i \in 1..l |-> l - i]
<1>1. \A i \in 1..l : m[i] \in Nat /\ m[i] <= l OBVIOUS
<1>2. ASSUME NEW i \in 1..l, NEW s \in Heaps(l), s \in more[i]
      PROVE  next[i][s] \in 1..l /\ do[i][s] \in Heaps(l) /\ m[next[i][s]] < m[i]
  <2>1. 2*i <= n BY <1>2
  <2>2. PICK b : b = Best(it, s, i, n) OBVIOUS
  <2>3. b \in 1..l /\ b > i
    <3>1. i \in Nat /\ i >= 1 OBVIOUS
    <3>2. b \in i + 1..n BY <2>1, <2>2, <3>1, BestIs
    <3> QED BY <3>2
  <2>4. Swap(s, i, b) \in Heaps(l) BY ONLY <2>3, SwapIs, l \in Nat, i \in 1..l, s \in Heaps(l)
  <2> QED BY <2>2, <2>3, <2>4
<1>3. \A g : Loops(g, 1..l, Heaps(l), more, next, do) => DownLoops(g, it, l, n)
  <2> SUFFICES ASSUME NEW g, Loops(g, 1..l, Heaps(l), more, next, do) PROVE DownLoops(g, it, l, n)
    OBVIOUS
  <2>1. \A i \in 1..l : \A s \in Heaps(l) :
          /\ s \in more[i] <=> 2*i <= n /\ Less(it, s[Best(it, s, i, n)], s[i])
          /\ next[i][s] = Best(it, s, i, n) /\ do[i][s] = Swap(s, i, Best(it, s, i, n))
    OBVIOUS
  <2>2. g = [i \in 1..l |-> [s \in Heaps(l) |->
               IF s \in more[i] THEN g[next[i][s]][do[i][s]] ELSE s]]
    BY DEF Loops
  <2> HIDE DEF more, next, do
  <2>3. \A i \in 1..l : [s \in Heaps(l) |-> IF s \in more[i] THEN g[next[i][s]][do[i][s]] ELSE s]
          = [s \in Heaps(l) |->
               IF 2*i <= n /\ Less(it, s[Best(it, s, i, n)], s[i])
               THEN g[Best(it, s, i, n)][Swap(s, i, Best(it, s, i, n))]
               ELSE s]
    BY <2>1
  <2> QED BY <2>2, <2>3 DEF DownLoops
<1>4. \E g : Loops(g, 1..l, Heaps(l), more, next, do)
  <2> HIDE DEF more, next, do, m
  <2> QED BY <1>1, <1>2, LoopExists
<1> QED BY <1>3, <1>4 DEF DownLoop

\* Where down stops, no child of i is before it.
LEMMA DownStops ==
  ASSUME NEW it \in Items, NEW l \in Nat, NEW s \in Heaps(l), NEW n \in Nat, n <= l,
         NEW m \in Nat, NEW i \in 1..l,
         ~(2*i <= n /\ Less(it, s[Best(it, s, i, n)], s[i])), OrderedButDown(it, s, n, m, i)
  PROVE  OrderedFrom(it, s, n, m)
<1> SUFFICES ASSUME NEW j \in 2..n, j \div 2 >= m PROVE ~Less(it, s[j], s[j \div 2])
  BY DEF OrderedFrom
<1>1. CASE j \div 2 # i BY <1>1 DEF OrderedButDown
<1>2. CASE j \div 2 = i
  <2>1. j \in {2*i, 2*i + 1} /\ 2*i <= n BY <1>2, Parents
  <2>2. PICK b : b = Best(it, s, i, n) OBVIOUS
  <2>3. /\ b \in {2*i, 2*i + 1} /\ b \in 1..n
        /\ 2*i + 1 <= n /\ b = 2*i => ~Less(it, s[2*i + 1], s[2*i])
        /\ b = 2*i + 1 => Less(it, s[2*i + 1], s[2*i])
    <3>1. i \in Nat /\ i >= 1 OBVIOUS
    <3> QED BY <2>1, <2>2, <3>1, BestIs
  <2>4. ~Less(it, s[b], s[i]) BY <2>1, <2>2
  <2>5. s[i] \in PriorityTasks /\ s[j] \in PriorityTasks /\ s[b] \in PriorityTasks
    <3>1. j \in 1..l /\ b \in 1..l BY <2>3
    <3> QED BY <3>1 DEF Heaps
  <2>6. CASE j = b BY <1>2, <2>4, <2>6
  <2>7. CASE j # b
    <3>1. ~Less(it, s[j], s[b])
      <4>1. CASE b = 2*i
        <5>1. j = 2*i + 1 BY <2>1, <2>7, <4>1
        <5> QED BY <5>1, <4>1, <2>3
      <4>2. CASE b = 2*i + 1
        <5>1. j = 2*i BY <2>1, <2>7, <4>2
        <5>2. Less(it, s[b], s[j]) BY <5>1, <4>2, <2>3
        <5> QED BY <5>2, <2>5, LessOrder
      <4> QED BY <4>1, <4>2, <2>3
    <3> QED BY <3>1, <2>4, <2>5, <1>2, LessOrder
  <2> QED BY <2>6, <2>7
<1> QED BY <1>1, <1>2

\* container/heap's down keeps the tasks, touches the first n, and puts the
\* one at k where it belongs.
LEMMA DownOrders ==
  ASSUME NEW it \in Items, NEW l \in Nat, NEW h \in Heaps(l), Len(h) = l, NEW k \in 1..l,
         NEW n \in Nat, n <= l
  PROVE  /\ Rearranged(h, Down(it, h, k, n), l)
         /\ \A x \in n + 1..l : Down(it, h, k, n)[x] = h[x]
         /\ \A m \in Nat : k >= m /\ OrderedButDown(it, h, n, m, k)
              => OrderedFrom(it, Down(it, h, k, n), n, m)
<1>1. PICK g : g = DownLoop(it, l, n) OBVIOUS
<1>2. DownLoops(g, it, l, n) BY <1>1, DownLoopExists
<1>3. Down(it, h, k, n) = g[k][h] BY <1>1, DownIs
<1> DEFINE Fine(i, s) == /\ Rearranged(s, g[i][s], l)
                         /\ \A x \in n + 1..l : g[i][s][x] = s[x]
                         /\ \A m \in Nat : i >= m /\ OrderedButDown(it, s, n, m, i)
                              => OrderedFrom(it, g[i][s], n, m)
           A == {i \in 1..l : \A s \in Heaps(l) : Fine(i, s)}
           M == [i \in 1..l |-> l - i]
<1>4. ASSUME NEW i \in 1..l, \A j \in 1..l : M[j] < M[i] => j \in A PROVE i \in A
  <2> SUFFICES ASSUME NEW s \in Heaps(l) PROVE Fine(i, s) OBVIOUS
  <2>1. CASE 2*i <= n /\ Less(it, s[Best(it, s, i, n)], s[i])
    <3>1. PICK b : b = Best(it, s, i, n) OBVIOUS
    <3>2. b \in 1..l /\ b > i /\ b <= n
      <4>1. i \in Nat /\ i >= 1 OBVIOUS
      <4>2. b \in i + 1..n BY <2>1, <3>1, <4>1, BestIs
      <4> QED BY <4>2
    <3>3. PICK r : r = Swap(s, i, b) OBVIOUS
    <3>4. /\ Rearranged(s, r, l)
          /\ \A x \in 1..l : r[x] = IF x = b THEN s[i] ELSE IF x = i THEN s[b] ELSE s[x]
      BY ONLY <3>2, <3>3, SwapRearranges, SwapIs, l \in Nat, i \in 1..l, s \in Heaps(l)
    <3>5. r \in Heaps(l) BY <3>4 DEF Rearranged
    <3>6. g[i][s] = g[b][r] BY <1>2, <2>1, <3>1, <3>3 DEF DownLoops
    <3>7. Fine(b, r)
      <4>1. M[b] < M[i] BY <3>2
      <4>2. b \in A BY <1>4, <3>2, <4>1
      <4> QED BY <4>2, <3>5
    <3>8. ASSUME NEW m \in Nat, i >= m, OrderedButDown(it, s, n, m, i)
          PROVE  OrderedButDown(it, r, n, m, b)
      BY <2>1, <3>1, <3>3, <3>8, DownTurn
    <3>9. Rearranged(s, g[b][r], l)
      BY ONLY <3>4, <3>7, RearrangedTwice, l \in Nat DEF Fine
    <3>10. ASSUME NEW x \in n + 1..l PROVE g[b][r][x] = s[x]
      <4>1. x \in 1..l /\ x # b /\ x # i BY <3>2
      <4> QED BY <4>1, <3>4, <3>7
    <3>11. ASSUME NEW m \in Nat, i >= m, OrderedButDown(it, s, n, m, i)
           PROVE  OrderedFrom(it, g[b][r], n, m)
      <4>1. b >= m BY <3>2, <3>11
      <4>2. OrderedButDown(it, r, n, m, b) BY <3>8, <3>11
      <4> QED BY <4>1, <4>2, <3>7
    <3> QED BY <3>6, <3>9, <3>10, <3>11
  <2>2. CASE ~(2*i <= n /\ Less(it, s[Best(it, s, i, n)], s[i]))
    <3>1. g[i][s] = s BY <1>2, <2>2 DEF DownLoops
    <3>2. ASSUME NEW m \in Nat, i >= m, OrderedButDown(it, s, n, m, i)
          PROVE  OrderedFrom(it, s, n, m)
      BY <2>2, <3>2, DownStops
    <3> QED BY <3>1, <3>2, RearrangedSame
  <2> QED BY <2>1, <2>2
<1>5. k \in A
  <2>1. \A i \in 1..l : M[i] \in Nat OBVIOUS
  <2>2. \A i \in 1..l : (\A j \in 1..l : M[j] < M[i] => j \in A) => i \in A BY <1>4
  <2> HIDE DEF A, M
  <2>3. PICK K : K = 1..l OBVIOUS
  <2>4. /\ \A i \in K : M[i] \in Nat
        /\ \A i \in K : (\A j \in K : M[j] < M[i] => j \in A) => i \in A
    BY <2>1, <2>2, <2>3
  <2>5. \A i \in K : i \in A BY ONLY <2>4, MeasureInduction
  <2> QED BY <2>3, <2>5
<1> QED BY <1>3, <1>5
-----------------------------------------------------------------------------
InitLoops(g, it, n) ==
  g = [i \in 0..n |-> [s \in Heaps(n) |-> IF i = 0 THEN s ELSE g[i - 1][Down(it, s, i, n)]]]

InitLoop(it, n) == CHOOSE g : InitLoops(g, it, n)

LEMMA HeapInitIs ==
  ASSUME NEW it, NEW h PROVE HeapInit(it, h) = InitLoop(it, Len(h))[Len(h) \div 2][h]
  BY DEF HeapInit, InitLoop, InitLoops

LEMMA HeapLen == ASSUME NEW n \in Nat, NEW s \in Heaps(n) PROVE s \in Seq(PriorityTasks) /\ Len(s) = n
<1>1. s \in Seq(PriorityTasks) BY SeqDef DEF Heaps
<1>2. DOMAIN s = 1..n BY DEF Heaps
<1>3. DOMAIN s = 1..Len(s) /\ Len(s) \in Nat BY <1>1, LenProperties
<1>4. Len(s) = n BY <1>2, <1>3
<1> QED BY <1>1, <1>4

LEMMA InitLoopExists ==
  ASSUME NEW it \in Items, NEW n \in Nat PROVE InitLoops(InitLoop(it, n), it, n)
<1> DEFINE more == [i \in 0..n |-> {s \in Heaps(n) : i # 0}]
           next == [i \in 0..n |-> [s \in Heaps(n) |-> i - 1]]
           do   == [i \in 0..n |-> [s \in Heaps(n) |-> Down(it, s, i, n)]]
           m    == [i \in 0..n |-> i]
<1>1. \A i \in 0..n : m[i] \in Nat /\ m[i] <= n OBVIOUS
<1>2. ASSUME NEW i \in 0..n, NEW s \in Heaps(n), s \in more[i]
      PROVE  next[i][s] \in 0..n /\ do[i][s] \in Heaps(n) /\ m[next[i][s]] < m[i]
  <2>1. i \in 1..n /\ i - 1 \in 0..n BY <1>2
  <2>2. Len(s) = n BY HeapLen
  <2>3. Down(it, s, i, n) \in Heaps(n)
    <3>1. n <= n OBVIOUS
    <3>2. Rearranged(s, Down(it, s, i, n), n)
      BY ONLY <2>1, <2>2, <3>1, DownOrders, it \in Items, n \in Nat, s \in Heaps(n)
    <3> QED BY <3>2 DEF Rearranged
  <2> QED BY <2>1, <2>3
<1>3. \A g : Loops(g, 0..n, Heaps(n), more, next, do) => InitLoops(g, it, n)
  <2> SUFFICES ASSUME NEW g, Loops(g, 0..n, Heaps(n), more, next, do) PROVE InitLoops(g, it, n)
    OBVIOUS
  <2>1. \A i \in 0..n : \A s \in Heaps(n) :
          /\ s \in more[i] <=> i # 0
          /\ next[i][s] = i - 1 /\ do[i][s] = Down(it, s, i, n)
    OBVIOUS
  <2>2. g = [i \in 0..n |-> [s \in Heaps(n) |->
               IF s \in more[i] THEN g[next[i][s]][do[i][s]] ELSE s]]
    BY DEF Loops
  <2> HIDE DEF more, next, do
  <2>3. \A i \in 0..n : [s \in Heaps(n) |-> IF s \in more[i] THEN g[next[i][s]][do[i][s]] ELSE s]
          = [s \in Heaps(n) |-> IF i = 0 THEN s ELSE g[i - 1][Down(it, s, i, n)]]
    BY <2>1
  <2> QED BY <2>2, <2>3 DEF InitLoops
<1>4. \E g : Loops(g, 0..n, Heaps(n), more, next, do)
  <2> HIDE DEF more, next, do, m
  <2> QED BY <1>1, <1>2, LoopExists
<1> QED BY <1>3, <1>4 DEF InitLoop

\* One turn of heap.Init puts in order what is below one more task.
LEMMA InitTurn ==
  ASSUME NEW it, NEW n \in Nat, NEW i \in 1..n, NEW s, OrderedFrom(it, s, n, i + 1)
  PROVE  OrderedButDown(it, s, n, i, i)
<1>1. ASSUME NEW j \in 2..n, j \div 2 >= i, j \div 2 # i PROVE ~Less(it, s[j], s[j \div 2])
  <2>1. j \div 2 >= i + 1 BY <1>1, Parents
  <2> QED BY <2>1 DEF OrderedFrom
<1>2. ASSUME NEW j \in 2..n, i > 1, i \div 2 >= i PROVE FALSE
  <2>1. i \in Nat /\ i >= 2 BY <1>2
  <2> QED BY <2>1, <1>2, Parents
<1> QED BY <1>1, <1>2 DEF OrderedButDown

\* heap.Init keeps the tasks and puts all of them in order.
LEMMA HeapInitOrders ==
  ASSUME NEW it \in Items, NEW n \in Nat, NEW h \in Heaps(n)
  PROVE  Rearranged(h, HeapInit(it, h), n) /\ OrderedFrom(it, HeapInit(it, h), n, 1)
<1>0. Len(h) = n BY HeapLen
<1>1. PICK g : g = InitLoop(it, n) OBVIOUS
<1>2. InitLoops(g, it, n) BY <1>1, InitLoopExists
<1>3. HeapInit(it, h) = g[n \div 2][h] BY <1>0, <1>1, HeapInitIs
<1> DEFINE Fine(i, s) == /\ Rearranged(s, g[i][s], n)
                         /\ OrderedFrom(it, s, n, i + 1) => OrderedFrom(it, g[i][s], n, 1)
           A == {i \in 0..n : \A s \in Heaps(n) : Fine(i, s)}
           M == [i \in 0..n |-> i]
<1>4. ASSUME NEW i \in 0..n, \A j \in 0..n : M[j] < M[i] => j \in A PROVE i \in A
  <2> SUFFICES ASSUME NEW s \in Heaps(n) PROVE Fine(i, s) OBVIOUS
  <2>1. CASE i # 0
    <3>1. i \in 1..n /\ i - 1 \in 0..n /\ i - 1 + 1 = i /\ i >= i /\ i \in Nat BY <2>1
    <3>2. PICK r : r = Down(it, s, i, n) OBVIOUS
    <3>3. /\ Rearranged(s, r, n)
          /\ OrderedButDown(it, s, n, i, i) => OrderedFrom(it, r, n, i)
      <4>1. n <= n /\ Len(s) = n BY HeapLen
      <4> QED BY ONLY <3>1, <3>2, <4>1, DownOrders, it \in Items, n \in Nat, s \in Heaps(n)
    <3>4. r \in Heaps(n) BY <3>3 DEF Rearranged
    <3>5. g[i][s] = g[i - 1][r]
      <4>1. g[i] = [q \in Heaps(n) |-> IF i = 0 THEN q ELSE g[i - 1][Down(it, q, i, n)]]
        BY ONLY <1>2, i \in 0..n DEF InitLoops
      <4> QED BY ONLY <4>1, <2>1, <3>2, s \in Heaps(n)
    <3>6. Fine(i - 1, r)
      <4>1. i - 1 \in A BY <1>4, <3>1
      <4> QED BY <4>1, <3>4
    <3>7. Rearranged(s, g[i - 1][r], n)
      BY ONLY <3>3, <3>6, RearrangedTwice, n \in Nat DEF Fine
    <3>8. ASSUME OrderedFrom(it, s, n, i + 1) PROVE OrderedFrom(it, g[i - 1][r], n, 1)
      <4>1. OrderedButDown(it, s, n, i, i) BY <3>1, <3>8, InitTurn
      <4>2. OrderedFrom(it, r, n, i - 1 + 1) BY <4>1, <3>1, <3>3
      <4> QED BY <4>2, <3>6
    <3> QED BY <3>5, <3>7, <3>8
  <2>2. CASE i = 0
    <3>1. g[i][s] = s BY <1>2, <2>2 DEF InitLoops
    <3>2. i + 1 = 1 BY <2>2
    <3> QED BY <3>1, <3>2, RearrangedSame
  <2> QED BY <2>1, <2>2
<1>5. n \div 2 \in A
  <2>1. \A i \in 0..n : M[i] \in Nat OBVIOUS
  <2>2. \A i \in 0..n : (\A j \in 0..n : M[j] < M[i] => j \in A) => i \in A BY <1>4
  <2> HIDE DEF A, M
  <2>3. PICK K : K = 0..n OBVIOUS
  <2>4. /\ \A i \in K : M[i] \in Nat
        /\ \A i \in K : (\A j \in K : M[j] < M[i] => j \in A) => i \in A
    BY <2>1, <2>2, <2>3
  <2>5. \A i \in K : i \in A BY ONLY <2>4, MeasureInduction
  <2>6. n \div 2 \in 0..n OBVIOUS
  <2> QED BY <2>3, <2>5, <2>6
<1>6. OrderedFrom(it, h, n, n \div 2 + 1) BY DEF OrderedFrom
<1> QED BY <1>3, <1>5, <1>6
-----------------------------------------------------------------------------
Has(h, t) == \E i \in 1..Len(h) : h[i] = t
Once(h)   == NoneTwice(h, Len(h))
InOrder(it, h) == OrderedFrom(it, h, Len(h), 1)

LEMMA SeqIsHeap ==
  ASSUME NEW h \in Seq(PriorityTasks) PROVE Len(h) \in Nat /\ h \in Heaps(Len(h))
  BY LenProperties DEF Heaps

LEMMA RearrangedHas ==
  ASSUME NEW n \in Nat, NEW s \in Heaps(n), NEW r, Rearranged(s, r, n)
  PROVE  /\ r \in Seq(PriorityTasks) /\ Len(r) = n /\ Len(s) = n
         /\ \A t : Has(r, t) <=> Has(s, t)
<1>1. r \in Heaps(n) BY DEF Rearranged
<1>2. Len(s) = n /\ Len(r) = n /\ r \in Seq(PriorityTasks) BY <1>1, HeapLen
<1>3. ASSUME NEW t, Has(r, t) PROVE Has(s, t)
  <2>1. PICK x \in 1..n : r[x] = t BY <1>2, <1>3 DEF Has
  <2>2. PICK y \in 1..n : r[x] = s[y] BY DEF Rearranged
  <2> QED BY <2>1, <2>2, <1>2 DEF Has
<1>4. ASSUME NEW t, Has(s, t) PROVE Has(r, t)
  <2>1. PICK x \in 1..n : s[x] = t BY <1>2, <1>4 DEF Has
  <2>2. PICK y \in 1..n : s[x] = r[y] BY DEF Rearranged
  <2> QED BY <2>1, <2>2, <1>2 DEF Has
<1> QED BY <1>2, <1>3, <1>4

\* heap.Init keeps the tasks and orders them, whatever order they were in.
LEMMA InitKeeps ==
  ASSUME NEW it \in Items, NEW h \in Seq(PriorityTasks)
  PROVE  /\ HeapInit(it, h) \in Seq(PriorityTasks) /\ Len(HeapInit(it, h)) = Len(h)
         /\ \A t : Has(HeapInit(it, h), t) <=> Has(h, t)
         /\ Once(h) => Once(HeapInit(it, h))
         /\ InOrder(it, HeapInit(it, h))
<1>1. PICK n : n = Len(h) OBVIOUS
<1>2. n \in Nat /\ h \in Heaps(n) BY <1>1, SeqIsHeap
<1>3. PICK r : r = HeapInit(it, h) OBVIOUS
<1>4. Rearranged(h, r, n) /\ OrderedFrom(it, r, n, 1)
  BY ONLY <1>2, <1>3, HeapInitOrders, it \in Items
<1>5. r \in Seq(PriorityTasks) /\ Len(r) = n /\ \A t : Has(r, t) <=> Has(h, t)
  BY ONLY <1>2, <1>4, RearrangedHas
<1>6. NoneTwice(h, n) => NoneTwice(r, n) BY <1>4 DEF Rearranged
<1> QED BY <1>1, <1>3, <1>4, <1>5, <1>6 DEF Once, InOrder

\* heap.Push adds the task and keeps the order.
LEMMA PushKeeps ==
  ASSUME NEW it \in Items, NEW h \in Seq(PriorityTasks), NEW t \in PriorityTasks
  PROVE  /\ HeapPush(it, h, t) \in Seq(PriorityTasks) /\ Len(HeapPush(it, h, t)) = Len(h) + 1
         /\ \A u : Has(HeapPush(it, h, t), u) <=> u = t \/ Has(h, u)
         /\ Once(h) /\ ~Has(h, t) => Once(HeapPush(it, h, t))
         /\ InOrder(it, h) => InOrder(it, HeapPush(it, h, t))
<1>1. PICK n : n = Len(h) OBVIOUS
<1>2. n \in Nat BY <1>1, SeqIsHeap
<1>3. PICK q : q = Append(h, t) OBVIOUS
<1>4. /\ q \in Seq(PriorityTasks) /\ Len(q) = n + 1
      /\ \A i \in 1..n : q[i] = h[i]
      /\ q[n + 1] = t
  BY <1>1, <1>3, AppendProperties
<1>5. PICK k : k = n + 1 OBVIOUS
<1>6. k \in Nat /\ k \in 1..k /\ q \in Heaps(k) /\ Len(q) = k BY <1>2, <1>4, <1>5, SeqIsHeap
<1>7. PICK r : r = Up(it, q, k) OBVIOUS
<1>8. HeapPush(it, h, t) = r BY <1>1, <1>3, <1>5, <1>7 DEF HeapPush
<1>9. Rearranged(q, r, k) /\ (OrderedButUp(it, q, k, k) => OrderedFrom(it, r, k, 1))
  BY ONLY <1>6, <1>7, UpOrders, it \in Items
<1>10. r \in Seq(PriorityTasks) /\ Len(r) = k /\ \A u : Has(r, u) <=> Has(q, u)
  BY ONLY <1>6, <1>9, RearrangedHas
<1>11. ASSUME NEW u PROVE Has(q, u) <=> u = t \/ Has(h, u)
  <2>1. Has(q, u) <=> \E i \in 1..n + 1 : q[i] = u BY <1>4 DEF Has
  <2>2. Has(h, u) <=> \E i \in 1..n : h[i] = u BY <1>1 DEF Has
  <2> QED BY <2>1, <2>2, <1>2, <1>4
<1>12. ASSUME Once(h), ~Has(h, t) PROVE Once(r)
  <2>1. \A x, y \in 1..n : h[x] = h[y] => x = y BY <1>1, <1>12 DEF Once, NoneTwice
  <2>2. \A x \in 1..n : h[x] # t BY <1>1, <1>12 DEF Has
  <2>3. ASSUME NEW x \in 1..k, NEW y \in 1..k, q[x] = q[y] PROVE x = y
    BY <2>1, <2>2, <2>3, <1>2, <1>4, <1>5
  <2>4. NoneTwice(q, k) BY <2>3 DEF NoneTwice
  <2> QED BY <2>4, <1>9, <1>10 DEF Once, Rearranged
<1>13. ASSUME InOrder(it, h) PROVE InOrder(it, r)
  <2>1. \A j \in 2..n : ~Less(it, h[j], h[j \div 2])
    <3>1. \A j \in 2..n : j \div 2 >= 1 BY <1>2, Parents
    <3> QED BY <3>1, <1>1, <1>13 DEF InOrder, OrderedFrom
  <2>2. ASSUME NEW j \in 2..k, j # k PROVE ~Less(it, q[j], q[j \div 2])
    <3>1. j \in 2..n /\ j \in 1..n /\ j \div 2 \in 1..n BY <2>2, <1>2, <1>5, Parents
    <3>2. q[j] = h[j] /\ q[j \div 2] = h[j \div 2] BY <3>1, <1>4
    <3> QED BY <2>1, <3>1, <3>2
  <2>3. \A j \in 2..k : j \div 2 # k
    <3>1. \A j \in 2..k : j \div 2 < j /\ j <= k BY <1>6, Parents
    <3> QED BY <3>1
  <2>4. OrderedButUp(it, q, k, k) BY <2>2, <2>3 DEF OrderedButUp
  <2> QED BY <2>4, <1>9, <1>10 DEF InOrder
<1> QED BY <1>1, <1>5, <1>8, <1>10, <1>11, <1>12, <1>13

\* heap.Pop removes the root and keeps the order of the others.
LEMMA PopKeeps ==
  ASSUME NEW it \in Items, NEW h \in Seq(PriorityTasks), h # <<>>, Once(h), InOrder(it, h)
  PROVE  /\ HeapPop(it, h) \in Seq(PriorityTasks) /\ Len(HeapPop(it, h)) = Len(h) - 1
         /\ Len(h) >= 1 /\ Has(h, h[1]) /\ h[1] \in PriorityTasks
         /\ \A u : Has(HeapPop(it, h), u) <=> u # h[1] /\ Has(h, u)
         /\ Once(HeapPop(it, h))
         /\ InOrder(it, HeapPop(it, h))
<1>1. PICK n : n = Len(h) OBVIOUS
<1>2. n \in Nat /\ h \in Heaps(n) /\ n >= 1 BY <1>1, SeqIsHeap, EmptySeq
<1>3. PICK s : s = Swap(h, 1, n) OBVIOUS
<1>4. /\ s \in Heaps(n) /\ Rearranged(h, s, n)
      /\ \A x \in 1..n : s[x] = IF x = n THEN h[1] ELSE IF x = 1 THEN h[n] ELSE h[x]
  <2>1. 1 \in 1..n /\ n \in 1..n BY <1>2
  <2> QED BY ONLY <2>1, <1>2, <1>3, SwapIs, SwapRearranges
<1>5. PICK l : l = n - 1 OBVIOUS
<1>6. l \in Nat /\ l <= n /\ l + 1 = n /\ Len(s) = n /\ 1 \in 1..n BY <1>2, <1>4, <1>5, HeapLen
<1>7. PICK q : q = Down(it, s, 1, l) OBVIOUS
<1>8. /\ Rearranged(s, q, n)
      /\ \A x \in l + 1..n : q[x] = s[x]
      /\ \A m \in Nat : 1 >= m /\ OrderedButDown(it, s, l, m, 1) => OrderedFrom(it, q, l, m)
  BY ONLY <1>2, <1>4, <1>6, <1>7, DownOrders, it \in Items
<1>9. Rearranged(h, q, n) BY ONLY <1>2, <1>4, <1>8, RearrangedTwice
<1>10. q \in Seq(PriorityTasks) /\ Len(q) = n /\ (\A u : Has(q, u) <=> Has(h, u))
  BY ONLY <1>2, <1>9, RearrangedHas
<1>11. PICK r : r = SubSeq(q, 1, l) OBVIOUS
<1>12. HeapPop(it, h) = r
  BY <1>1, <1>3, <1>5, <1>7, <1>11 DEF HeapPop
<1>13. r \in Seq(PriorityTasks) /\ Len(r) = l /\ \A x \in 1..l : r[x] = q[x]
  <2>1. \A x \in 1..l : q[x] \in PriorityTasks
    <3>1. \A x \in 1..n : q[x] \in PriorityTasks BY <1>10, ElementOfSeq
    <3> QED BY <3>1, <1>6
  <2>2. 1 \in Int /\ l \in Int BY <1>6
  <2>3. r \in Seq(PriorityTasks) /\ Len(r) = IF 1 <= l THEN l - 1 + 1 ELSE 0
    BY ONLY <2>1, <2>2, <1>11, SubSeqProperties
  <2>4. \A x \in 1..l - 1 + 1 : r[x] = q[1 + x - 1]
    BY ONLY <2>1, <2>2, <1>11, SubSeqProperties
  <2> QED BY <2>3, <2>4, <1>6
<1>14. q[n] = h[1] BY <1>4, <1>6, <1>8
<1>15. \A x, y \in 1..n : q[x] = q[y] => x = y BY <1>1, <1>9 DEF Once, Rearranged, NoneTwice
<1>16. ASSUME NEW u PROVE Has(r, u) <=> u # h[1] /\ Has(h, u)
  <2>1. Has(r, u) <=> \E x \in 1..l : q[x] = u BY <1>13 DEF Has
  <2>2. Has(h, u) <=> \E x \in 1..n : q[x] = u BY <1>10 DEF Has
  <2> QED BY <2>1, <2>2, <1>6, <1>14, <1>15
<1>17. Once(r)
  <2>1. \A x, y \in 1..l : r[x] = r[y] => x = y BY <1>6, <1>13, <1>15
  <2> QED BY <2>1, <1>13 DEF Once, NoneTwice
<1>18. InOrder(it, r)
  <2>1. OrderedButDown(it, s, l, 1, 1)
    <3>1. ASSUME NEW j \in 2..l, j \div 2 # 1 PROVE ~Less(it, s[j], s[j \div 2])
      <4>1. j \in 2..n /\ j \in 1..n /\ j # 1 /\ j # n BY <1>6
      <4>2. j \div 2 \in 1..n /\ j \div 2 # n /\ j \div 2 >= 1 BY <4>1, <1>6, Parents
      <4>3. s[j] = h[j] /\ s[j \div 2] = h[j \div 2] BY <3>1, <4>1, <4>2, <1>4
      <4>4. ~Less(it, h[j], h[j \div 2]) BY <4>1, <4>2, <1>1 DEF InOrder, OrderedFrom
      <4> QED BY <4>3, <4>4
    <3> QED BY <3>1 DEF OrderedButDown
  <2>2. OrderedFrom(it, q, l, 1) BY <2>1, <1>8
  <2>3. ASSUME NEW j \in 2..l, j \div 2 >= 1 PROVE ~Less(it, r[j], r[j \div 2])
    <3>1. j \in 1..l /\ j \div 2 \in 1..l BY <1>6, Parents
    <3>2. r[j] = q[j] /\ r[j \div 2] = q[j \div 2] BY <3>1, <1>13
    <3> QED BY <3>2, <2>2, <2>3 DEF OrderedFrom
  <2> QED BY <2>3, <1>13 DEF InOrder, OrderedFrom
<1>19. h[1] \in PriorityTasks /\ Has(h, h[1])
  BY <1>1, <1>2, <1>6 DEF Heaps, Has
<1> QED BY <1>1, <1>2, <1>5, <1>12, <1>13, <1>16, <1>17, <1>18, <1>19

\* In a heap in order nothing is before the root.
LEMMA RootIsFirst ==
  ASSUME NEW it \in Items, NEW h \in Seq(PriorityTasks), InOrder(it, h)
  PROVE  \A t : Has(h, t) => ~Less(it, t, h[1])
<1>1. PICK n : n = Len(h) OBVIOUS
<1>2. n \in Nat /\ h \in Heaps(n) BY <1>1, SeqIsHeap
<1> DEFINE A == {i \in 1..n : ~Less(it, h[i], h[1])}
           m == [i \in 1..n |-> i]
<1>3. \A i \in 1..n : h[i] \in PriorityTasks BY <1>2 DEF Heaps
<1>4. ASSUME NEW i \in 1..n, \A j \in 1..n : m[j] < m[i] => j \in A PROVE i \in A
  <2>0. 1 \in 1..n BY <1>2
  <2>1. CASE i = 1
    <3>1. h[1] \in PriorityTasks BY <2>0, <1>3
    <3>2. ~Less(it, h[1], h[1]) BY <3>1, LessOrder
    <3> QED BY <2>1, <3>2
  <2>2. CASE i # 1
    <3>1. PICK p : p = i \div 2 OBVIOUS
    <3>2. i \in 2..n /\ p \in 1..n /\ p < i /\ p >= 1 BY <2>2, <3>1, <1>2, Parents
    <3>3. ~Less(it, h[i], h[p]) BY <3>1, <3>2, <1>1 DEF InOrder, OrderedFrom
    <3>4. p \in A BY <3>2, <1>4
    <3>5. ~Less(it, h[p], h[1]) BY <3>4
    <3>6. h[i] \in PriorityTasks /\ h[p] \in PriorityTasks /\ h[1] \in PriorityTasks
      BY <3>2, <2>0, <1>3
    <3>7. ~Less(it, h[i], h[1]) BY <3>3, <3>5, <3>6, LessOrder
    <3> QED BY <3>7
  <2> QED BY <2>1, <2>2
<1>5. \A i \in 1..n : i \in A
  <2>1. \A i \in 1..n : m[i] \in Nat OBVIOUS
  <2>2. \A i \in 1..n : (\A j \in 1..n : m[j] < m[i] => j \in A) => i \in A BY <1>4
  <2> HIDE DEF A, m
  <2>3. PICK K : K = 1..n OBVIOUS
  <2>4. /\ \A i \in K : m[i] \in Nat
        /\ \A i \in K : (\A j \in K : m[j] < m[i] => j \in A) => i \in A
    BY <2>1, <2>2, <2>3
  <2>5. \A i \in K : i \in A BY ONLY <2>4, MeasureInduction
  <2> QED BY <2>3, <2>5
<1> QED BY <1>1, <1>5 DEF Has
-----------------------------------------------------------------------------
(***************************************************************************)
(* The steps of PriorityQueue.                                             *)
(***************************************************************************)
Places == {"none", "made", "queued", "taken"}
Counters == [totalEnqueued : Nat, totalDequeued : Nat, currentSize : Int,
             agePromotions : Nat, totalWaitTime : Nat, maxWaitTime : Nat]

QueueTypes ==
  /\ heap \in Seq(PriorityTasks)
  /\ item \in [PriorityTasks -> [priority : Priorities, submit : 0..MaxTime, boost : Nat]]
  /\ place \in [PriorityTasks -> Places] /\ entered \in [PriorityTasks -> Nat]
  /\ stats \in Counters
  /\ clock \in 0..MaxTime /\ guard \in {"running", "told", "gone"}

\* The heap holds the tasks that are queued, once, and is in order.
HeapInv ==
  /\ \A t \in PriorityTasks : Has(heap, t) <=> place[t] = "queued"
  /\ Once(heap) /\ InOrder(item, heap)

\* The counters of what came, left and waits.
CountersInv ==
  /\ stats.totalEnqueued = Cardinality(In({"queued", "taken"}))
  /\ stats.totalDequeued = Cardinality(In({"taken"}))
  /\ stats.currentSize = Len(heap)

\* The waits add up to no more than the longest one for each task that left.
WaitsInv ==
  /\ stats.totalWaitTime <= stats.totalDequeued * stats.maxWaitTime
  /\ stats.maxWaitTime <= clock
  /\ \A t \in PriorityTasks : item[t].submit <= clock

\* Boosts come in whole steps, to tasks that were queued.
BoostsInv ==
  /\ \A t \in PriorityTasks :
       /\ \E k \in Nat : item[t].boost = k * PriorityBoostAmount
       /\ place[t] \in {"none", "made"} => item[t].boost = 0
  /\ stats.agePromotions * PriorityBoostAmount = TotalOf(Boosts, PriorityTasks)

\* Nothing has a number that is still to be given.
SeniorInv ==
  /\ \A t \in PriorityTasks : entered[t] <= stats.totalEnqueued
  /\ OlderIsBoostedMore

QueueInv == QueueTypes /\ HeapInv /\ CountersInv /\ WaitsInv /\ BoostsInv /\ SeniorInv

LEMMA ItemsTyped ==
  ASSUME NEW it \in [PriorityTasks -> [priority : Priorities, submit : 0..MaxTime, boost : Nat]]
  PROVE  /\ it \in Items
         /\ \A t \in PriorityTasks : it[t].priority \in Priorities /\ it[t].priority \in Int
              /\ it[t].submit \in 0..MaxTime /\ it[t].submit \in Nat /\ it[t].boost \in Nat
<1>1. Priorities \subseteq Int /\ MaxTime \in Nat BY PriorityQueueAssumption
<1>2. ASSUME NEW t \in PriorityTasks
      PROVE  /\ it[t] \in [priority : Int, submit : Int, boost : Int]
             /\ it[t].priority \in Priorities /\ it[t].priority \in Int
             /\ it[t].submit \in 0..MaxTime /\ it[t].submit \in Nat /\ it[t].boost \in Nat
  <2>1. it[t] \in [priority : Priorities, submit : 0..MaxTime, boost : Nat] OBVIOUS
  <2>2. it[t].priority \in Priorities /\ it[t].submit \in 0..MaxTime /\ it[t].boost \in Nat
    BY <2>1
  <2>3. Priorities \subseteq Int /\ 0..MaxTime \subseteq Nat /\ 0..MaxTime \subseteq Int BY <1>1
  <2>4. it[t] \in [priority : Int, submit : Int, boost : Int]
    BY ONLY <2>1, <2>3, Nat \subseteq Int
  <2> QED BY <2>2, <2>3, <2>4
<1> QED BY <1>2 DEF Items
-----------------------------------------------------------------------------
(***************************************************************************)
(* What each action does to the tasks and the counters, field by field.    *)
(***************************************************************************)
LEMMA NewTaskDoes ==
  ASSUME QueueTypes, NEW t \in PriorityTasks, NewTask(t)
  PROVE  /\ item' \in [PriorityTasks -> [priority : Priorities, submit : 0..MaxTime, boost : Nat]]
         /\ \A u \in PriorityTasks :
              /\ item'[u].priority = item[u].priority /\ item'[u].boost = item[u].boost
              /\ item'[u].submit = IF u = t THEN clock ELSE item[u].submit
         /\ place[t] = "none" /\ place' = [place EXCEPT ![t] = "made"]
         /\ UNCHANGED <<heap, entered, stats, clock, guard>>
<1>1. item' = [item EXCEPT ![t].submit = clock] BY DEF NewTask
<1>2. item[t] \in [priority : Priorities, submit : 0..MaxTime, boost : Nat] BY DEF QueueTypes
<1>3. [item[t] EXCEPT !.submit = clock] \in [priority : Priorities, submit : 0..MaxTime, boost : Nat]
  BY <1>2 DEF QueueTypes
<1>4. item' = [item EXCEPT ![t] = [item[t] EXCEPT !.submit = clock]] BY <1>1 DEF QueueTypes
<1>5. item' \in [PriorityTasks -> [priority : Priorities, submit : 0..MaxTime, boost : Nat]]
  BY <1>3, <1>4 DEF QueueTypes
<1>6. \A u \in PriorityTasks : item'[u] = IF u = t THEN [item[t] EXCEPT !.submit = clock] ELSE item[u]
  BY <1>4 DEF QueueTypes
<1>7. [item[t] EXCEPT !.submit = clock].submit = clock
      /\ [item[t] EXCEPT !.submit = clock].priority = item[t].priority
      /\ [item[t] EXCEPT !.submit = clock].boost = item[t].boost
  BY <1>2
<1> QED BY <1>5, <1>6, <1>7 DEF NewTask

LEMMA UpdateDoes ==
  ASSUME QueueTypes, NEW t \in PriorityTasks, NEW p \in Priorities, UpdateTaskPriority(t, p)
  PROVE  /\ item' \in [PriorityTasks -> [priority : Priorities, submit : 0..MaxTime, boost : Nat]]
         /\ \A u \in PriorityTasks :
              item'[u].submit = item[u].submit /\ item'[u].boost = item[u].boost
         /\ heap' = HeapInit(item', heap)
         /\ UNCHANGED <<place, entered, stats, clock, guard>>
<1>1. item' = [item EXCEPT ![t].priority = p] BY DEF UpdateTaskPriority
<1>2. item[t] \in [priority : Priorities, submit : 0..MaxTime, boost : Nat] BY DEF QueueTypes
<1>3. [item[t] EXCEPT !.priority = p] \in [priority : Priorities, submit : 0..MaxTime, boost : Nat]
  BY <1>2
<1>4. item' = [item EXCEPT ![t] = [item[t] EXCEPT !.priority = p]] BY <1>1 DEF QueueTypes
<1>5. item' \in [PriorityTasks -> [priority : Priorities, submit : 0..MaxTime, boost : Nat]]
  BY <1>3, <1>4 DEF QueueTypes
<1>6. \A u \in PriorityTasks : item'[u] = IF u = t THEN [item[t] EXCEPT !.priority = p] ELSE item[u]
  BY <1>4 DEF QueueTypes
<1>7. [item[t] EXCEPT !.priority = p].submit = item[t].submit
      /\ [item[t] EXCEPT !.priority = p].boost = item[t].boost
  BY <1>2
<1> QED BY <1>5, <1>6, <1>7 DEF UpdateTaskPriority

Promoted == {t \in PriorityTasks : Starved(t)}

LEMMA PromoteDoes ==
  ASSUME QueueTypes, Promote
  PROVE  /\ item' \in [PriorityTasks -> [priority : Priorities, submit : 0..MaxTime, boost : Nat]]
         /\ \A u \in PriorityTasks :
              /\ item'[u].priority = item[u].priority /\ item'[u].submit = item[u].submit
              /\ item'[u].boost = IF u \in Promoted THEN item[u].boost + PriorityBoostAmount
                                  ELSE item[u].boost
         /\ heap' = IF Promoted # {} THEN HeapInit(item', heap) ELSE heap
         /\ stats' \in Counters
         /\ stats'.totalEnqueued = stats.totalEnqueued /\ stats'.totalDequeued = stats.totalDequeued
         /\ stats'.currentSize = stats.currentSize /\ stats'.totalWaitTime = stats.totalWaitTime
         /\ stats'.maxWaitTime = stats.maxWaitTime
         /\ stats'.agePromotions = stats.agePromotions + Cardinality(Promoted)
         /\ Cardinality(Promoted) \in Nat
         /\ UNCHANGED <<place, entered, clock, guard>>
<1>0. Boosted(Promoted) BY DEF Promote, Promoted
<1>1. \A u \in PriorityTasks : item[u] \in [priority : Priorities, submit : 0..MaxTime, boost : Nat]
  BY DEF QueueTypes
<1>2. PriorityBoostAmount \in Nat BY PriorityQueueAssumption
<1>3. ASSUME NEW u \in PriorityTasks
      PROVE  LET b == [item[u] EXCEPT !.boost = @ + PriorityBoostAmount]
             IN  /\ b \in [priority : Priorities, submit : 0..MaxTime, boost : Nat]
                 /\ b.priority = item[u].priority /\ b.submit = item[u].submit
                 /\ b.boost = item[u].boost + PriorityBoostAmount
  BY <1>1, <1>2
<1>4. item' = [u \in PriorityTasks |-> IF u \in Promoted
                 THEN [item[u] EXCEPT !.boost = @ + PriorityBoostAmount] ELSE item[u]]
  BY <1>0 DEF Boosted
<1>5. IsFiniteSet(Promoted) /\ Cardinality(Promoted) \in Nat
  <2>1. Promoted \subseteq PriorityTasks BY DEF Promoted
  <2> QED BY <2>1, PriorityQueueAssumption, FS_Subset, FS_CardinalityType
<1>6. stats' = [stats EXCEPT !.agePromotions = @ + Cardinality(Promoted)] BY <1>0 DEF Boosted
<1>7. /\ stats' \in Counters
      /\ stats'.totalEnqueued = stats.totalEnqueued /\ stats'.totalDequeued = stats.totalDequeued
      /\ stats'.currentSize = stats.currentSize /\ stats'.totalWaitTime = stats.totalWaitTime
      /\ stats'.maxWaitTime = stats.maxWaitTime
      /\ stats'.agePromotions = stats.agePromotions + Cardinality(Promoted)
  <2>1. stats \in Counters BY DEF QueueTypes
  <2> QED BY <2>1, <1>5, <1>6 DEF Counters
<1>8. heap' = IF Promoted # {} THEN HeapInit(item', heap) ELSE heap BY <1>0 DEF Boosted
<1>9. UNCHANGED <<place, entered, clock, guard>> BY DEF Promote
<1>10. item' \in [PriorityTasks -> [priority : Priorities, submit : 0..MaxTime, boost : Nat]]
  BY <1>1, <1>3, <1>4
<1>11. ASSUME NEW u \in PriorityTasks
       PROVE  /\ item'[u].priority = item[u].priority /\ item'[u].submit = item[u].submit
              /\ item'[u].boost = IF u \in Promoted THEN item[u].boost + PriorityBoostAmount
                                  ELSE item[u].boost
  <2>1. item'[u] = IF u \in Promoted
          THEN [item[u] EXCEPT !.boost = @ + PriorityBoostAmount] ELSE item[u]
    BY <1>4
  <2> QED BY <2>1, <1>3
<1> QED BY <1>5, <1>7, <1>8, <1>9, <1>10, <1>11

LEMMA EnqueueDoes ==
  ASSUME QueueTypes, NEW t \in PriorityTasks, Enqueue(t)
  PROVE  /\ place[t] = "made" /\ place' = [place EXCEPT ![t] = "queued"]
         /\ heap' = HeapPush(item, heap, t)
         /\ stats' \in Counters
         /\ stats'.totalEnqueued = stats.totalEnqueued + 1
         /\ stats'.currentSize = stats.currentSize + 1
         /\ stats'.totalDequeued = stats.totalDequeued /\ stats'.totalWaitTime = stats.totalWaitTime
         /\ stats'.maxWaitTime = stats.maxWaitTime /\ stats'.agePromotions = stats.agePromotions
         /\ entered' = [entered EXCEPT ![t] = stats.totalEnqueued + 1]
         /\ UNCHANGED <<item, clock, guard>>
<1>1. stats \in Counters BY DEF QueueTypes
<1>2. stats' = [stats EXCEPT !.totalEnqueued = @ + 1, !.currentSize = @ + 1] BY DEF Enqueue
<1>3. /\ stats' \in Counters
      /\ stats'.totalEnqueued = stats.totalEnqueued + 1
      /\ stats'.currentSize = stats.currentSize + 1
      /\ stats'.totalDequeued = stats.totalDequeued /\ stats'.totalWaitTime = stats.totalWaitTime
      /\ stats'.maxWaitTime = stats.maxWaitTime /\ stats'.agePromotions = stats.agePromotions
  <2>1. PICK s : s = [stats EXCEPT !.totalEnqueued = @ + 1] OBVIOUS
  <2>2. stats' = [s EXCEPT !.currentSize = @ + 1] BY <1>1, <1>2, <2>1 DEF Counters
  <2>3. s \in Counters BY <1>1, <2>1 DEF Counters
  <2>4. stats' \in Counters BY <2>2, <2>3 DEF Counters
  <2> QED BY <1>1, <2>1, <2>2, <2>3, <2>4 DEF Counters
<1> QED BY <1>3 DEF Enqueue

LEMMA DequeueDoes ==
  ASSUME QueueTypes, HeapInv, WaitsInv, Dequeue
  PROVE  /\ heap # <<>> /\ heap[1] \in PriorityTasks /\ place[heap[1]] = "queued"
         /\ place' = [place EXCEPT ![heap[1]] = "taken"]
         /\ heap' = HeapPop(item, heap)
         /\ stats' \in Counters
         /\ stats'.totalDequeued = stats.totalDequeued + 1
         /\ stats'.currentSize = stats.currentSize - 1
         /\ stats'.totalEnqueued = stats.totalEnqueued /\ stats'.agePromotions = stats.agePromotions
         /\ \E wait \in Nat :
              /\ wait <= clock
              /\ stats'.totalWaitTime = stats.totalWaitTime + wait
              /\ stats'.maxWaitTime = IF wait <= stats.maxWaitTime THEN stats.maxWaitTime ELSE wait
         /\ UNCHANGED <<item, entered, clock, guard>>
<1>1. stats \in Counters BY DEF QueueTypes
<1>2. item \in Items BY ItemsTyped DEF QueueTypes
<1>3. heap # <<>> BY DEF Dequeue
<1>4. heap[1] \in PriorityTasks /\ Has(heap, heap[1])
  BY <1>2, <1>3, PopKeeps DEF QueueTypes, HeapInv
<1>5. PICK wait : wait = clock - item[heap[1]].submit OBVIOUS
<1>6. wait \in Nat /\ wait <= clock
  <2>1. item[heap[1]].submit \in Nat BY <1>4, ItemsTyped DEF QueueTypes
  <2>2. item[heap[1]].submit <= clock BY <1>4 DEF WaitsInv
  <2>3. clock \in Nat BY PriorityQueueAssumption DEF QueueTypes
  <2> QED BY <2>1, <2>2, <2>3, <1>5
<1>7. stats' = [stats EXCEPT !.totalDequeued = @ + 1, !.currentSize = @ - 1,
                             !.totalWaitTime = @ + wait,
                             !.maxWaitTime = IF wait <= @ THEN @ ELSE wait]
  BY <1>5 DEF Dequeue, RecordWait, Peek
<1>8. /\ stats' \in Counters
      /\ stats'.totalDequeued = stats.totalDequeued + 1
      /\ stats'.currentSize = stats.currentSize - 1
      /\ stats'.totalEnqueued = stats.totalEnqueued /\ stats'.agePromotions = stats.agePromotions
      /\ stats'.totalWaitTime = stats.totalWaitTime + wait
      /\ stats'.maxWaitTime = IF wait <= stats.maxWaitTime THEN stats.maxWaitTime ELSE wait
  <2>1. PICK s : s = [stats EXCEPT !.totalDequeued = @ + 1] OBVIOUS
  <2>2. PICK r : r = [s EXCEPT !.currentSize = @ - 1] OBVIOUS
  <2>3. PICK q : q = [r EXCEPT !.totalWaitTime = @ + wait] OBVIOUS
  <2>4. stats' = [q EXCEPT !.maxWaitTime = IF wait <= @ THEN @ ELSE wait]
    BY <1>1, <1>7, <2>1, <2>2, <2>3 DEF Counters
  <2>5. s \in Counters BY <1>1, <2>1 DEF Counters
  <2>6. r \in Counters BY <2>2, <2>5 DEF Counters
  <2>7. q \in Counters BY <1>6, <2>3, <2>6 DEF Counters
  <2>8. stats' \in Counters BY <1>6, <2>4, <2>7 DEF Counters
  <2> QED BY <1>1, <1>6, <2>1, <2>2, <2>3, <2>4, <2>5, <2>6, <2>7, <2>8 DEF Counters
<1> QED BY <1>3, <1>4, <1>6, <1>8 DEF Dequeue, Peek, HeapInv
-----------------------------------------------------------------------------
TaskStep == \E t \in PriorityTasks : NewTask(t) \/ Enqueue(t)

\* The order of tasks that are not in the heap, and their other data, do not matter.
LEMMA OrderKept ==
  ASSUME NEW h \in Seq(PriorityTasks), NEW it \in Items, NEW jt \in Items,
         \A u \in PriorityTasks : Has(h, u) =>
           /\ jt[u].priority = it[u].priority /\ jt[u].boost = it[u].boost
           /\ jt[u].submit = it[u].submit,
         InOrder(it, h)
  PROVE  InOrder(jt, h)
<1>1. PICK n : n = Len(h) OBVIOUS
<1>2. n \in Nat /\ h \in Heaps(n) BY <1>1, SeqIsHeap
<1>3. \A i \in 1..n : h[i] \in PriorityTasks /\ Has(h, h[i]) BY <1>1, <1>2 DEF Heaps, Has
<1>4. ASSUME NEW j \in 2..n, j \div 2 >= 1 PROVE ~Less(jt, h[j], h[j \div 2])
  <2>1. j \in 1..n /\ j \div 2 \in 1..n BY <1>2, Parents
  <2>2. PICK a : a = h[j] OBVIOUS
  <2>3. PICK b : b = h[j \div 2] OBVIOUS
  <2>4. a \in PriorityTasks /\ Has(h, a) /\ b \in PriorityTasks /\ Has(h, b)
    BY <2>1, <2>2, <2>3, <1>3
  <2>5. ~Less(it, a, b) BY <1>1, <1>4, <2>2, <2>3 DEF InOrder, OrderedFrom
  <2>6. ~Less(jt, a, b) BY <2>4, <2>5 DEF Less
  <2> QED BY <2>2, <2>3, <2>6
<1> QED BY <1>1, <1>4 DEF InOrder, OrderedFrom

LEMMA TypesKept == ASSUME QueueInv, QueueNext PROVE QueueTypes'
<1> USE DEF QueueTypes
<1>0. QueueTypes /\ HeapInv /\ WaitsInv /\ item \in Items BY ItemsTyped DEF QueueInv
<1>1. ASSUME NEW t \in PriorityTasks, NewTask(t) PROVE QueueTypes'
  BY <1>0, <1>1, NewTaskDoes DEF Places
<1>2. ASSUME NEW t \in PriorityTasks, Enqueue(t) PROVE QueueTypes'
  <2>0. heap' = HeapPush(item, heap, t) /\ entered' = [entered EXCEPT ![t] = stats.totalEnqueued + 1]
    BY <1>2 DEF Enqueue
  <2>1. heap' \in Seq(PriorityTasks)
    <3>1. heap \in Seq(PriorityTasks) BY <1>0
    <3> QED BY ONLY <3>1, <2>0, <1>0, t \in PriorityTasks, PushKeeps
  <2>2. stats.totalEnqueued + 1 \in Nat /\ entered \in [PriorityTasks -> Nat]
    BY <1>0 DEF Counters
  <2>3. entered' \in [PriorityTasks -> Nat] BY ONLY <2>0, <2>2
  <2>4. place' \in [PriorityTasks -> Places] BY <1>0, <1>2, EnqueueDoes DEF Places
  <2> QED BY <1>0, <1>2, <2>1, <2>3, <2>4, EnqueueDoes
<1>3. ASSUME NEW t \in PriorityTasks, NEW p \in Priorities, UpdateTaskPriority(t, p)
      PROVE  QueueTypes'
  <2>1. item' \in Items BY <1>0, <1>3, UpdateDoes, ItemsTyped
  <2>2. heap' \in Seq(PriorityTasks) BY <1>0, <1>3, <2>1, UpdateDoes, InitKeeps
  <2> QED BY <1>0, <1>3, <2>2, UpdateDoes
<1>4. ASSUME Dequeue PROVE QueueTypes'
  <2>1. heap' \in Seq(PriorityTasks) BY <1>0, <1>4, DequeueDoes, PopKeeps DEF HeapInv
  <2>2. place' \in [PriorityTasks -> Places] BY <1>0, <1>4, DequeueDoes DEF Places
  <2> QED BY <1>0, <1>4, <2>1, <2>2, DequeueDoes
<1>5. ASSUME Promote PROVE QueueTypes'
  <2>1. item' \in Items BY <1>0, <1>5, PromoteDoes, ItemsTyped
  <2>2. heap' \in Seq(PriorityTasks) BY <1>0, <1>5, <2>1, PromoteDoes, InitKeeps
  <2> QED BY <1>0, <1>5, <2>2, PromoteDoes
<1>6. ASSUME Close \/ GuardStop PROVE QueueTypes' BY <1>0, <1>6 DEF Close, GuardStop
<1>7. ASSUME Tick PROVE QueueTypes' BY <1>0, <1>7, PriorityQueueAssumption DEF Tick
<1> QED BY <1>1, <1>2, <1>3, <1>4, <1>5, <1>6, <1>7 DEF QueueNext

LEMMA HeapKept == ASSUME QueueInv, QueueNext PROVE HeapInv'
<1>0. /\ QueueTypes /\ HeapInv /\ WaitsInv /\ item \in Items /\ heap \in Seq(PriorityTasks)
      /\ place \in [PriorityTasks -> Places]
  BY ItemsTyped DEF QueueInv, QueueTypes
<1>h. /\ \A t \in PriorityTasks : Has(heap, t) <=> place[t] = "queued"
      /\ Once(heap) /\ InOrder(item, heap)
  BY <1>0 DEF HeapInv
<1>1. ASSUME NEW t \in PriorityTasks, NewTask(t) PROVE HeapInv'
  <2>1. item' \in Items BY <1>0, <1>1, NewTaskDoes, ItemsTyped
  <2>2. heap' = heap /\ place[t] = "none" /\ place' = [place EXCEPT ![t] = "made"]
    BY <1>0, <1>1, NewTaskDoes
  <2>3. ~Has(heap, t) BY <1>h, <2>2
  <2>4. InOrder(item', heap) BY <1>0, <1>1, <1>h, <2>1, <2>3, NewTaskDoes, OrderKept
  <2>5. \A u \in PriorityTasks : Has(heap, u) <=> place'[u] = "queued" BY <1>0, <1>h, <2>2
  <2> QED BY <1>h, <2>2, <2>4, <2>5 DEF HeapInv
<1>2. ASSUME NEW t \in PriorityTasks, Enqueue(t) PROVE HeapInv'
  <2>1. /\ heap' = HeapPush(item, heap, t) /\ item' = item
        /\ place[t] = "made" /\ place' = [place EXCEPT ![t] = "queued"]
    BY <1>0, <1>2, EnqueueDoes
  <2>2. ~Has(heap, t) BY <1>h, <2>1
  <2>3. /\ \A u : Has(heap', u) <=> u = t \/ Has(heap, u)
        /\ Once(heap') /\ InOrder(item, heap')
    BY <1>0, <1>h, <2>1, <2>2, PushKeeps
  <2>4. \A u \in PriorityTasks : Has(heap', u) <=> place'[u] = "queued" BY <1>0, <1>h, <2>1, <2>3
  <2> QED BY <2>1, <2>3, <2>4 DEF HeapInv
<1>3. ASSUME NEW t \in PriorityTasks, NEW p \in Priorities, UpdateTaskPriority(t, p)
      PROVE  HeapInv'
  <2>1. item' \in Items BY <1>0, <1>3, UpdateDoes, ItemsTyped
  <2>2. heap' = HeapInit(item', heap) /\ place' = place BY <1>0, <1>3, UpdateDoes
  <2>3. /\ \A u : Has(heap', u) <=> Has(heap, u)
        /\ Once(heap') /\ InOrder(item', heap')
    BY <1>0, <1>h, <2>1, <2>2, InitKeeps
  <2> QED BY <1>h, <2>2, <2>3 DEF HeapInv
<1>4. ASSUME Dequeue PROVE HeapInv'
  <2>1. /\ heap' = HeapPop(item, heap) /\ item' = item /\ heap # <<>>
        /\ heap[1] \in PriorityTasks /\ place' = [place EXCEPT ![heap[1]] = "taken"]
    BY <1>0, <1>4, DequeueDoes
  <2>2. /\ \A u : Has(heap', u) <=> u # heap[1] /\ Has(heap, u)
        /\ Once(heap') /\ InOrder(item, heap')
    BY <1>0, <1>h, <2>1, PopKeeps
  <2>3. \A u \in PriorityTasks : Has(heap', u) <=> place'[u] = "queued" BY <1>0, <1>h, <2>1, <2>2
  <2> QED BY <2>1, <2>2, <2>3 DEF HeapInv
<1>5. ASSUME Promote PROVE HeapInv'
  <2>1. item' \in Items BY <1>0, <1>5, PromoteDoes, ItemsTyped
  <2>2. place' = place BY <1>0, <1>5, PromoteDoes
  <2>3. CASE Promoted = {}
    <3>1. heap' = heap BY <1>0, <1>5, <2>3, PromoteDoes
    <3>2. \A u \in PriorityTasks : /\ item'[u].priority = item[u].priority
                                   /\ item'[u].boost = item[u].boost
                                   /\ item'[u].submit = item[u].submit
      BY <1>0, <1>5, <2>3, PromoteDoes
    <3>3. InOrder(item', heap) BY <1>0, <1>h, <2>1, <3>2, OrderKept
    <3> QED BY <1>h, <2>2, <3>1, <3>3 DEF HeapInv
  <2>4. CASE Promoted # {}
    <3>1. heap' = HeapInit(item', heap) BY <1>0, <1>5, <2>4, PromoteDoes
    <3>2. /\ \A u : Has(heap', u) <=> Has(heap, u)
          /\ Once(heap') /\ InOrder(item', heap')
      BY <1>0, <1>h, <2>1, <3>1, InitKeeps
    <3> QED BY <1>h, <2>2, <3>2 DEF HeapInv
  <2> QED BY <2>3, <2>4
<1>6. ASSUME Close \/ GuardStop \/ Tick PROVE HeapInv'
  BY <1>6, <1>h DEF Close, GuardStop, Tick, HeapInv
<1> QED BY <1>1, <1>2, <1>3, <1>4, <1>5, <1>6 DEF QueueNext
-----------------------------------------------------------------------------
LEMMA InFinite ==
  ASSUME NEW places PROVE IsFiniteSet(In(places)) /\ Cardinality(In(places)) \in Nat
<1>1. In(places) \subseteq PriorityTasks BY DEF In
<1> QED BY <1>1, PriorityQueueAssumption, FS_Subset, FS_CardinalityType

\* A task that goes from a place to another is one more in the latter.
LEMMA InMoved ==
  ASSUME QueueTypes, NEW t \in PriorityTasks, NEW p, NEW places,
         place' = [place EXCEPT ![t] = p], place[t] \notin places, p \in places
  PROVE  Cardinality(In(places)') = Cardinality(In(places)) + 1
<1>1. In(places)' = In(places) \cup {t} BY DEF In, QueueTypes
<1>2. t \notin In(places) BY DEF In
<1> QED BY <1>1, <1>2, InFinite, FS_AddElement

LEMMA InUnmoved ==
  ASSUME QueueTypes, NEW t \in PriorityTasks, NEW p, NEW places,
         place' = [place EXCEPT ![t] = p], place[t] \in places <=> p \in places
  PROVE  In(places)' = In(places)
  BY DEF In, QueueTypes

LEMMA CountersKept == ASSUME QueueInv, QueueNext PROVE CountersInv'
<1>0. /\ QueueTypes /\ HeapInv /\ WaitsInv /\ item \in Items /\ heap \in Seq(PriorityTasks)
      /\ stats.currentSize = Len(heap)
      /\ stats.totalEnqueued = Cardinality(In({"queued", "taken"}))
      /\ stats.totalDequeued = Cardinality(In({"taken"}))
  BY ItemsTyped DEF QueueInv, QueueTypes, CountersInv
<1>h. Once(heap) /\ InOrder(item, heap) BY <1>0 DEF HeapInv
<1>1. ASSUME NEW t \in PriorityTasks, NewTask(t) PROVE CountersInv'
  <2>1. /\ heap' = heap /\ stats' = stats
        /\ place[t] = "none" /\ place' = [place EXCEPT ![t] = "made"]
    BY <1>0, <1>1, NewTaskDoes
  <2>2. In({"queued", "taken"})' = In({"queued", "taken"}) BY ONLY <1>0, <2>1, InUnmoved, t \in PriorityTasks
  <2>3. In({"taken"})' = In({"taken"}) BY ONLY <1>0, <2>1, InUnmoved, t \in PriorityTasks
  <2> QED BY <1>0, <2>1, <2>2, <2>3 DEF CountersInv
<1>2. ASSUME NEW t \in PriorityTasks, Enqueue(t) PROVE CountersInv'
  <2>1. /\ heap' = HeapPush(item, heap, t)
        /\ place[t] = "made" /\ place' = [place EXCEPT ![t] = "queued"]
        /\ stats'.totalEnqueued = stats.totalEnqueued + 1
        /\ stats'.currentSize = stats.currentSize + 1
        /\ stats'.totalDequeued = stats.totalDequeued
    BY <1>0, <1>2, EnqueueDoes
  <2>2. Len(heap') = Len(heap) + 1 BY ONLY <1>0, <2>1, PushKeeps, t \in PriorityTasks
  <2>3. Cardinality(In({"queued", "taken"})') = Cardinality(In({"queued", "taken"})) + 1
    BY ONLY <1>0, <2>1, InMoved, t \in PriorityTasks
  <2>4. In({"taken"})' = In({"taken"}) BY ONLY <1>0, <2>1, InUnmoved, t \in PriorityTasks
  <2> QED BY <1>0, <2>1, <2>2, <2>3, <2>4 DEF CountersInv
<1>3. ASSUME NEW t \in PriorityTasks, NEW p \in Priorities, UpdateTaskPriority(t, p)
      PROVE  CountersInv'
  <2>1. item' \in Items BY <1>0, <1>3, UpdateDoes, ItemsTyped
  <2>2. heap' = HeapInit(item', heap) /\ place' = place /\ stats' = stats BY <1>0, <1>3, UpdateDoes
  <2>3. Len(heap') = Len(heap) BY ONLY <1>0, <2>1, <2>2, InitKeeps
  <2> QED BY <1>0, <2>2, <2>3 DEF CountersInv, In
<1>4. ASSUME Dequeue PROVE CountersInv'
  <2>1. PICK t : t = heap[1] OBVIOUS
  <2>2. /\ heap' = HeapPop(item, heap) /\ heap # <<>>
        /\ t \in PriorityTasks /\ place[t] = "queued" /\ place' = [place EXCEPT ![t] = "taken"]
        /\ stats'.totalDequeued = stats.totalDequeued + 1
        /\ stats'.currentSize = stats.currentSize - 1
        /\ stats'.totalEnqueued = stats.totalEnqueued
    BY <1>0, <1>4, <2>1, DequeueDoes
  <2>3. Len(heap') = Len(heap) - 1 BY ONLY <1>0, <1>h, <2>2, PopKeeps
  <2>4. Cardinality(In({"taken"})') = Cardinality(In({"taken"})) + 1
    BY ONLY <1>0, <2>2, InMoved
  <2>5. In({"queued", "taken"})' = In({"queued", "taken"}) BY ONLY <1>0, <2>2, InUnmoved
  <2> QED BY <1>0, <2>2, <2>3, <2>4, <2>5 DEF CountersInv
<1>5. ASSUME Promote PROVE CountersInv'
  <2>1. item' \in Items BY <1>0, <1>5, PromoteDoes, ItemsTyped
  <2>2. /\ place' = place
        /\ stats'.totalEnqueued = stats.totalEnqueued /\ stats'.totalDequeued = stats.totalDequeued
        /\ stats'.currentSize = stats.currentSize
        /\ heap' = IF Promoted # {} THEN HeapInit(item', heap) ELSE heap
    BY <1>0, <1>5, PromoteDoes
  <2>3. Len(heap') = Len(heap) BY ONLY <1>0, <2>1, <2>2, InitKeeps
  <2> QED BY <1>0, <2>2, <2>3 DEF CountersInv, In
<1>6. ASSUME Close \/ GuardStop \/ Tick PROVE CountersInv'
  BY <1>6, <1>0 DEF Close, GuardStop, Tick, CountersInv, In
<1> QED BY <1>1, <1>2, <1>3, <1>4, <1>5, <1>6 DEF QueueNext
-----------------------------------------------------------------------------
\* One wait more, and the longest of them.
LEMMA WaitAdded ==
  ASSUME NEW sum \in Nat, NEW n \in Nat, NEW max \in Nat, NEW wait \in Nat, sum <= n * max
  PROVE  sum + wait <= (n + 1) * (IF wait <= max THEN max ELSE wait)
<1>1. PICK m \in Nat : m = (IF wait <= max THEN max ELSE wait) OBVIOUS
<1>2. max <= m /\ wait <= m BY <1>1
<1>3. PICK d \in Nat : m = max + d
  <2>1. m - max \in Nat /\ m = max + (m - max) BY <1>2
  <2> QED BY <2>1
<1>4. n * m = n * max + n * d BY <1>3
<1>5. n * d \in Nat /\ n * max \in Nat OBVIOUS
<1>6. (n + 1) * m = n * m + m OBVIOUS
<1>7. sum + wait <= n * m + m BY <1>2, <1>4, <1>5
<1> QED BY <1>1, <1>6, <1>7

LEMMA WaitsKept == ASSUME QueueInv, QueueNext PROVE WaitsInv'
<1>0. /\ QueueTypes /\ HeapInv /\ WaitsInv /\ clock \in Nat /\ stats \in Counters
      /\ stats.totalWaitTime \in Nat /\ stats.totalDequeued \in Nat /\ stats.maxWaitTime \in Nat
      /\ \A t \in PriorityTasks : item[t].submit \in Nat
  BY PriorityQueueAssumption, ItemsTyped DEF QueueInv, QueueTypes, Counters
<1>w. /\ stats.totalWaitTime <= stats.totalDequeued * stats.maxWaitTime
      /\ stats.maxWaitTime <= clock /\ \A t \in PriorityTasks : item[t].submit <= clock
  BY <1>0 DEF WaitsInv
<1>1. ASSUME NEW t \in PriorityTasks, NewTask(t) PROVE WaitsInv'
  <2>1. stats' = stats /\ clock' = clock BY <1>0, <1>1, NewTaskDoes
  <2>2. \A u \in PriorityTasks : item'[u].submit = IF u = t THEN clock ELSE item[u].submit
    BY <1>0, <1>1, NewTaskDoes
  <2>3. \A u \in PriorityTasks : item'[u].submit <= clock BY <1>0, <1>w, <2>2
  <2> QED BY <1>w, <2>1, <2>3 DEF WaitsInv
<1>2. ASSUME NEW t \in PriorityTasks, Enqueue(t) PROVE WaitsInv'
  <2>1. /\ stats'.totalDequeued = stats.totalDequeued /\ stats'.totalWaitTime = stats.totalWaitTime
        /\ stats'.maxWaitTime = stats.maxWaitTime /\ item' = item /\ clock' = clock
    BY <1>0, <1>2, EnqueueDoes
  <2> QED BY <1>w, <2>1 DEF WaitsInv
<1>3. ASSUME NEW t \in PriorityTasks, NEW p \in Priorities, UpdateTaskPriority(t, p)
      PROVE  WaitsInv'
  <2>1. /\ stats' = stats /\ clock' = clock
        /\ \A u \in PriorityTasks : item'[u].submit = item[u].submit
    BY <1>0, <1>3, UpdateDoes
  <2> QED BY <1>w, <2>1 DEF WaitsInv
<1>4. ASSUME Dequeue PROVE WaitsInv'
  <2>1. /\ stats'.totalDequeued = stats.totalDequeued + 1 /\ item' = item /\ clock' = clock
        /\ \E wait \in Nat :
             /\ wait <= clock
             /\ stats'.totalWaitTime = stats.totalWaitTime + wait
             /\ stats'.maxWaitTime = IF wait <= stats.maxWaitTime THEN stats.maxWaitTime ELSE wait
    BY <1>0, <1>4, DequeueDoes
  <2>2. PICK wait \in Nat :
          /\ wait <= clock
          /\ stats'.totalWaitTime = stats.totalWaitTime + wait
          /\ stats'.maxWaitTime = IF wait <= stats.maxWaitTime THEN stats.maxWaitTime ELSE wait
    BY <2>1
  <2>3. stats.totalWaitTime + wait
          <= (stats.totalDequeued + 1) * (IF wait <= stats.maxWaitTime THEN stats.maxWaitTime ELSE wait)
    BY ONLY <1>0, <1>w, WaitAdded, wait \in Nat
  <2>4. stats'.maxWaitTime <= clock BY <2>2, <1>w
  <2> QED BY <1>w, <2>1, <2>2, <2>3, <2>4 DEF WaitsInv
<1>5. ASSUME Promote PROVE WaitsInv'
  <2>1. /\ stats'.totalDequeued = stats.totalDequeued /\ stats'.totalWaitTime = stats.totalWaitTime
        /\ stats'.maxWaitTime = stats.maxWaitTime /\ clock' = clock
        /\ \A u \in PriorityTasks : item'[u].submit = item[u].submit
    BY <1>0, <1>5, PromoteDoes
  <2> QED BY <1>w, <2>1 DEF WaitsInv
<1>6. ASSUME Close \/ GuardStop PROVE WaitsInv'
  BY <1>6, <1>w DEF Close, GuardStop, WaitsInv
<1>7. ASSUME Tick PROVE WaitsInv'
  <2>1. stats' = stats /\ item' = item /\ clock' = clock + 1 BY <1>7 DEF Tick
  <2>2. stats.maxWaitTime <= clock + 1 BY <1>0, <1>w
  <2>3. \A t \in PriorityTasks : item[t].submit <= clock + 1 BY <1>0, <1>w
  <2> QED BY <1>w, <2>1, <2>2, <2>3 DEF WaitsInv
<1> QED BY <1>1, <1>2, <1>3, <1>4, <1>5, <1>6, <1>7 DEF QueueNext
-----------------------------------------------------------------------------
LEMMA BoostsTyped ==
  ASSUME QueueTypes
  PROVE  /\ \A t \in PriorityTasks : Boosts[t] = item[t].boost /\ Boosts[t] \in Nat
         /\ TotalOf(Boosts, PriorityTasks) \in Nat
<1>1. \A t \in PriorityTasks : Boosts[t] = item[t].boost /\ Boosts[t] \in Nat
  BY ItemsTyped DEF Boosts, QueueTypes
<1>2. PICK f : f = Boosts OBVIOUS
<1>3. TotalOf(f, PriorityTasks) \in Nat BY <1>1, <1>2, PriorityQueueAssumption, TotalType
<1> QED BY <1>1, <1>2, <1>3

\* Steps that leave the boosts and the places of the boosted alone.
LEMMA BoostsSame ==
  ASSUME BoostsInv, stats'.agePromotions = stats.agePromotions,
         \A u \in PriorityTasks :
           /\ item'[u].boost = item[u].boost
           /\ place'[u] \in {"none", "made"} => place[u] \in {"none", "made"}
  PROVE  BoostsInv'
<1>1. Boosts' = Boosts BY DEF Boosts
<1>2. TotalOf(Boosts, PriorityTasks)' = TotalOf(Boosts, PriorityTasks)
  BY <1>1 DEF TotalOf, MapThenSumSet, MapThenFoldSet
<1> QED BY <1>2 DEF BoostsInv

LEMMA PromotedBoosts ==
  ASSUME QueueInv, Promote
  PROVE  TotalOf(Boosts, PriorityTasks)'
           = TotalOf(Boosts, PriorityTasks) + Cardinality(Promoted) * PriorityBoostAmount
<1>0. QueueTypes BY DEF QueueInv
<1>1. PICK f : f = Boosts OBVIOUS
<1>2. PICK h : h = Boosts' OBVIOUS
<1>3. PICK P : P = Promoted OBVIOUS
<1>4. \A t \in PriorityTasks : h[t] = IF t \in P THEN f[t] + PriorityBoostAmount ELSE f[t]
  BY <1>0, <1>1, <1>2, <1>3, PromoteDoes DEF Boosts
<1>5. \A t \in PriorityTasks : f[t] \in Nat BY <1>0, <1>1, BoostsTyped
<1>6. P \in SUBSET PriorityTasks BY <1>3 DEF Promoted
<1>7. PriorityBoostAmount \in Nat /\ IsFiniteSet(PriorityTasks) BY PriorityQueueAssumption
<1>8. TotalOf(h, PriorityTasks) = TotalOf(f, PriorityTasks) + Cardinality(P) * PriorityBoostAmount
  BY ONLY <1>4, <1>5, <1>6, <1>7, TotalGrows
<1>9. TotalOf(Boosts, PriorityTasks)' = TotalOf(h, PriorityTasks)
  BY <1>2 DEF TotalOf, MapThenSumSet, MapThenFoldSet
<1> QED BY <1>1, <1>3, <1>8, <1>9

LEMMA BoostsKept == ASSUME QueueInv, QueueNext PROVE BoostsInv'
<1>0. QueueTypes /\ HeapInv /\ WaitsInv /\ BoostsInv /\ place \in [PriorityTasks -> Places]
  BY DEF QueueInv, QueueTypes
<1>1. ASSUME NEW t \in PriorityTasks, NewTask(t) PROVE BoostsInv'
  BY <1>0, <1>1, NewTaskDoes, BoostsSame
<1>2. ASSUME NEW t \in PriorityTasks, Enqueue(t) PROVE BoostsInv'
  BY <1>0, <1>2, EnqueueDoes, BoostsSame
<1>3. ASSUME NEW t \in PriorityTasks, NEW p \in Priorities, UpdateTaskPriority(t, p)
      PROVE  BoostsInv'
  BY <1>0, <1>3, UpdateDoes, BoostsSame
<1>4. ASSUME Dequeue PROVE BoostsInv'
  BY <1>0, <1>4, DequeueDoes, BoostsSame
<1>5. ASSUME Promote PROVE BoostsInv'
  <2>1. /\ place' = place /\ Cardinality(Promoted) \in Nat
        /\ stats'.agePromotions = stats.agePromotions + Cardinality(Promoted)
        /\ \A u \in PriorityTasks :
             item'[u].boost = IF u \in Promoted THEN item[u].boost + PriorityBoostAmount
                              ELSE item[u].boost
    BY <1>0, <1>5, PromoteDoes
  <2>2. PriorityBoostAmount \in Nat BY PriorityQueueAssumption
  <2>3. ASSUME NEW u \in Promoted
        PROVE  u \in PriorityTasks /\ place[u] = "queued"
    BY <1>0 DEF Promoted, Starved, InHeap, Has, HeapInv
  <2>4. ASSUME NEW u \in PriorityTasks
        PROVE  /\ \E k \in Nat : item'[u].boost = k * PriorityBoostAmount
               /\ place'[u] \in {"none", "made"} => item'[u].boost = 0
    <3>1. /\ \E k \in Nat : item[u].boost = k * PriorityBoostAmount
          /\ place[u] \in {"none", "made"} => item[u].boost = 0
          /\ item[u].boost \in Nat
      BY <1>0, ItemsTyped DEF BoostsInv, QueueTypes
    <3>2. CASE u \in Promoted
      <4>1. PICK k \in Nat : item[u].boost = k * PriorityBoostAmount BY <3>1
      <4>2. item'[u].boost = item[u].boost + PriorityBoostAmount BY <2>1, <3>2
      <4>3. item'[u].boost = (k + 1) * PriorityBoostAmount BY <4>1, <4>2, <2>2
      <4>4. k + 1 \in Nat OBVIOUS
      <4> QED BY <4>3, <4>4, <2>1, <2>3, <3>2
    <3>3. CASE u \notin Promoted BY <3>1, <3>3, <2>1
    <3> QED BY <3>2, <3>3
  <2>5. (stats.agePromotions + Cardinality(Promoted)) * PriorityBoostAmount
          = stats.agePromotions * PriorityBoostAmount + Cardinality(Promoted) * PriorityBoostAmount
    <3>1. stats.agePromotions \in Nat BY <1>0 DEF QueueTypes, Counters
    <3> QED BY ONLY <3>1, <2>1, <2>2
  <2>6. stats'.agePromotions * PriorityBoostAmount = TotalOf(Boosts, PriorityTasks)'
    BY <1>0, <1>5, <2>1, <2>5, PromotedBoosts DEF BoostsInv
  <2> QED BY <2>4, <2>6 DEF BoostsInv
<1>6. ASSUME Close \/ GuardStop \/ Tick PROVE BoostsInv'
  BY <1>0, <1>6, BoostsSame DEF Close, GuardStop, Tick
<1> QED BY <1>1, <1>2, <1>3, <1>4, <1>5, <1>6 DEF QueueNext
-----------------------------------------------------------------------------
\* Of two boosts the larger one is larger by a whole step.
LEMMA WholeSteps ==
  ASSUME NEW j \in Nat, NEW k \in Nat, NEW p \in Nat, j * p > k * p
  PROVE  j * p >= k * p + p
<1>1. j >= k + 1
  <2>1. SUFFICES ASSUME j <= k PROVE FALSE OBVIOUS
  <2>2. PICK d \in Nat : k = j + d
    <3>1. k - j \in Nat /\ k = j + (k - j) BY <2>1
    <3> QED BY <3>1
  <2>3. k * p = j * p + d * p BY <2>2
  <2>4. d * p \in Nat /\ j * p \in Nat OBVIOUS
  <2> QED BY <2>3, <2>4
<1>2. PICK d \in Nat : j = k + 1 + d
  <2>1. j - k - 1 \in Nat /\ j = k + 1 + (j - k - 1) BY <1>1
  <2> QED BY <2>1
<1>3. j * p = k * p + p + d * p BY <1>2
<1>4. d * p \in Nat /\ k * p \in Nat OBVIOUS
<1> QED BY <1>3, <1>4

\* A step that only takes tasks out of the heap and changes nothing else of them.
LEMMA SeniorSame ==
  ASSUME SeniorInv, entered' = entered, stats'.totalEnqueued = stats.totalEnqueued,
         \A u \in PriorityTasks : InHeap(u)' => InHeap(u),
         \A u \in PriorityTasks : InHeap(u) =>
           item'[u].boost = item[u].boost /\ item'[u].submit = item[u].submit
  PROVE  SeniorInv'
<1>1. ASSUME NEW a \in PriorityTasks, NEW b \in PriorityTasks, InHeap(a)', InHeap(b)',
             item'[a].submit <= item'[b].submit, entered'[a] < entered'[b]
      PROVE  item'[a].boost >= item'[b].boost
  <2>1. InHeap(a) /\ InHeap(b) BY <1>1
  <2>2. /\ item'[a].boost = item[a].boost /\ item'[a].submit = item[a].submit
        /\ item'[b].boost = item[b].boost /\ item'[b].submit = item[b].submit
    BY <2>1
  <2>3. item[a].submit <= item[b].submit /\ entered[a] < entered[b] BY <1>1, <2>2
  <2>4. item[a].boost >= item[b].boost BY <2>1, <2>3 DEF SeniorInv, OlderIsBoostedMore
  <2> QED BY <2>2, <2>4
<1>2. OlderIsBoostedMore' BY <1>1 DEF OlderIsBoostedMore
<1> QED BY <1>2 DEF SeniorInv

LEMMA SeniorPromoted == ASSUME QueueInv, Promote, HeapInv' PROVE SeniorInv'
<1>0. QueueTypes /\ HeapInv /\ BoostsInv /\ SeniorInv BY DEF QueueInv
<1>1. /\ place' = place /\ entered' = entered /\ clock' = clock
      /\ stats'.totalEnqueued = stats.totalEnqueued
      /\ \A u \in PriorityTasks :
           /\ item'[u].submit = item[u].submit
           /\ item'[u].boost = IF u \in Promoted THEN item[u].boost + PriorityBoostAmount
                               ELSE item[u].boost
  BY <1>0, PromoteDoes
<1>2. \A u \in PriorityTasks : InHeap(u)' => InHeap(u)
  BY <1>0, <1>1 DEF HeapInv, InHeap, Has
<1>3. /\ PriorityBoostAmount \in Nat /\ MaxPriorityBoost \in Int /\ MaxWaitTime \in Int
      /\ clock \in Nat
  BY <1>0, PriorityQueueAssumption DEF QueueTypes
<1>4. ASSUME NEW a \in PriorityTasks, NEW b \in PriorityTasks, InHeap(a)', InHeap(b)',
             item'[a].submit <= item'[b].submit, entered'[a] < entered'[b]
      PROVE  item'[a].boost >= item'[b].boost
  <2>1. InHeap(a) /\ InHeap(b) /\ item[a].submit <= item[b].submit /\ entered[a] < entered[b]
    BY <1>1, <1>2, <1>4
  <2>2. item[a].boost >= item[b].boost BY <1>0, <2>1 DEF SeniorInv, OlderIsBoostedMore
  <2>3. /\ item[a].boost \in Nat /\ item[b].boost \in Nat
        /\ item[a].submit \in Nat /\ item[b].submit \in Nat
    BY <1>0, ItemsTyped DEF QueueTypes
  <2>4. CASE a \in Promoted \/ b \notin Promoted
    BY <2>2, <2>3, <2>4, <1>1, <1>3
  <2>5. CASE a \notin Promoted /\ b \in Promoted
    <3>1. clock - item[b].submit > MaxWaitTime /\ item[b].boost < MaxPriorityBoost
      BY <2>5 DEF Promoted, Starved
    <3>2. clock - item[a].submit > MaxWaitTime BY <3>1, <2>1, <2>3, <1>3
    <3>3. item[a].boost >= MaxPriorityBoost
      BY <2>1, <2>3, <2>5, <3>2, <1>3 DEF Promoted, Starved
    <3>4. item[a].boost > item[b].boost BY <3>1, <3>3, <2>3, <1>3
    <3>5. PICK j \in Nat : item[a].boost = j * PriorityBoostAmount BY <1>0 DEF BoostsInv
    <3>6. PICK k \in Nat : item[b].boost = k * PriorityBoostAmount BY <1>0 DEF BoostsInv
    <3>7. item[a].boost >= item[b].boost + PriorityBoostAmount
      BY <3>4, <3>5, <3>6, <1>3, WholeSteps
    <3> QED BY <3>7, <2>5, <1>1
  <2> QED BY <2>4, <2>5
<1>5. OlderIsBoostedMore' BY <1>4 DEF OlderIsBoostedMore
<1> QED BY <1>0, <1>1, <1>5 DEF SeniorInv

LEMMA SeniorEnqueued ==
  ASSUME QueueInv, NEW t \in PriorityTasks, Enqueue(t), HeapInv' PROVE SeniorInv'
<1>0. QueueTypes /\ HeapInv /\ BoostsInv /\ SeniorInv BY DEF QueueInv
<1>1. /\ place[t] = "made" /\ place' = [place EXCEPT ![t] = "queued"] /\ item' = item
      /\ stats'.totalEnqueued = stats.totalEnqueued + 1
      /\ entered' = [entered EXCEPT ![t] = stats.totalEnqueued + 1]
  BY <1>0, EnqueueDoes
<1>2. /\ entered \in [PriorityTasks -> Nat] /\ place \in [PriorityTasks -> Places]
      /\ stats.totalEnqueued \in Nat
  BY <1>0 DEF QueueTypes, Counters
<1>3. \A u \in PriorityTasks : entered[u] <= stats.totalEnqueued BY <1>0 DEF SeniorInv
<1>4. \A u \in PriorityTasks : u # t => entered'[u] = entered[u] BY <1>1, <1>2
<1>5. entered'[t] = stats.totalEnqueued + 1 BY <1>1, <1>2
<1>6. \A u \in PriorityTasks : u # t /\ InHeap(u)' => InHeap(u)
  BY <1>0, <1>1, <1>2 DEF HeapInv, InHeap, Has
<1>7. item[t].boost = 0 BY <1>0, <1>1 DEF BoostsInv
<1>8. \A u \in PriorityTasks : item[u].boost \in Nat BY <1>0, ItemsTyped DEF QueueTypes
<1>9. ASSUME NEW a \in PriorityTasks, NEW b \in PriorityTasks, InHeap(a)', InHeap(b)',
             item'[a].submit <= item'[b].submit, entered'[a] < entered'[b]
      PROVE  item'[a].boost >= item'[b].boost
  <2>1. CASE a = t
    <3>1. entered'[b] <= stats.totalEnqueued + 1 BY <1>2, <1>3, <1>4, <1>5
    <3> QED BY <2>1, <3>1, <1>2, <1>4, <1>5, <1>9
  <2>2. CASE a # t /\ b = t BY <2>2, <1>1, <1>7, <1>8
  <2>3. CASE a # t /\ b # t
    <3>1. InHeap(a) /\ InHeap(b) /\ entered[a] < entered[b] BY <2>3, <1>4, <1>6, <1>9
    <3>2. item[a].submit <= item[b].submit BY <1>1, <1>9
    <3>3. item[a].boost >= item[b].boost
      BY <3>1, <3>2, <1>0 DEF SeniorInv, OlderIsBoostedMore
    <3> QED BY <3>3, <1>1
  <2> QED BY <2>1, <2>2, <2>3
<1>10. OlderIsBoostedMore' BY <1>9 DEF OlderIsBoostedMore
<1>11. \A u \in PriorityTasks : entered'[u] <= stats'.totalEnqueued
  BY <1>1, <1>2, <1>3, <1>4, <1>5
<1> QED BY <1>10, <1>11 DEF SeniorInv

LEMMA SeniorKept == ASSUME QueueInv, QueueNext, HeapInv' PROVE SeniorInv'
<1>0. QueueTypes /\ HeapInv /\ WaitsInv /\ BoostsInv /\ SeniorInv BY DEF QueueInv
<1>1. ASSUME NEW t \in PriorityTasks, NewTask(t) PROVE SeniorInv'
  <2>1. ~InHeap(t) BY <1>0, <1>1, NewTaskDoes DEF HeapInv, InHeap, Has
  <2>2. /\ heap' = heap /\ entered' = entered /\ stats' = stats
        /\ \A u \in PriorityTasks : u # t =>
             item'[u].boost = item[u].boost /\ item'[u].submit = item[u].submit
    BY <1>0, <1>1, NewTaskDoes
  <2>3. \A u \in PriorityTasks : InHeap(u)' => InHeap(u) BY <2>2 DEF InHeap
  <2> QED BY <2>1, <2>2, <2>3, <1>0, SeniorSame
<1>2. ASSUME NEW t \in PriorityTasks, Enqueue(t) PROVE SeniorInv' BY <1>2, SeniorEnqueued
<1>3. ASSUME NEW t \in PriorityTasks, NEW p \in Priorities, UpdateTaskPriority(t, p)
      PROVE  SeniorInv'
  <2>1. /\ place' = place /\ entered' = entered /\ stats' = stats
        /\ \A u \in PriorityTasks :
             item'[u].boost = item[u].boost /\ item'[u].submit = item[u].submit
    BY <1>0, <1>3, UpdateDoes
  <2>2. \A u \in PriorityTasks : InHeap(u)' => InHeap(u)
    BY <1>0, <2>1 DEF HeapInv, InHeap, Has
  <2> QED BY <2>1, <2>2, <1>0, SeniorSame
<1>4. ASSUME Dequeue PROVE SeniorInv'
  <2>1. /\ heap[1] \in PriorityTasks /\ place' = [place EXCEPT ![heap[1]] = "taken"]
        /\ entered' = entered /\ stats'.totalEnqueued = stats.totalEnqueued /\ item' = item
    BY <1>0, <1>4, DequeueDoes
  <2>2. place \in [PriorityTasks -> Places] BY <1>0 DEF QueueTypes
  <2>3. \A u \in PriorityTasks : InHeap(u)' => InHeap(u)
    BY <1>0, <2>1, <2>2 DEF HeapInv, InHeap, Has
  <2> QED BY <2>1, <2>3, <1>0, SeniorSame
<1>5. ASSUME Promote PROVE SeniorInv' BY <1>5, SeniorPromoted
<1>6. ASSUME Close \/ GuardStop \/ Tick PROVE SeniorInv'
  BY <1>0, <1>6, SeniorSame DEF Close, GuardStop, Tick, InHeap
<1> QED BY <1>1, <1>2, <1>3, <1>4, <1>5, <1>6 DEF QueueNext
-----------------------------------------------------------------------------
LEMMA InitQueueInv == QueueInit => QueueInv
<1> SUFFICES ASSUME QueueInit PROVE QueueInv OBVIOUS
<1> USE DEF QueueInit
<1>0. /\ MaxTime \in Nat /\ PriorityBoostAmount \in Nat
      /\ IsFiniteSet(PriorityTasks)
  BY PriorityQueueAssumption
<1>1. /\ heap \in Seq(PriorityTasks) /\ Len(heap) = 0 /\ \A t : ~Has(heap, t)
  BY DEF Has
<1>2. ASSUME NEW t \in PriorityTasks PROVE item[t].submit = 0 /\ item[t].boost = 0
  <2>1. item[t] \in [priority : Priorities, submit : {0}, boost : {0}] OBVIOUS
  <2> QED BY <2>1
<1>3. QueueTypes
  <2>1. {0} \subseteq 0..MaxTime /\ {0} \subseteq Nat BY <1>0
  <2>2. item \in [PriorityTasks -> [priority : Priorities, submit : 0..MaxTime, boost : Nat]]
    BY <2>1
  <2>3. stats \in Counters BY DEF NoStats, Counters
  <2> QED BY <1>0, <1>1, <2>2, <2>3 DEF QueueTypes, Places
<1>4. HeapInv BY <1>1 DEF HeapInv, Once, NoneTwice, InOrder, OrderedFrom
<1>5. CountersInv
  <2>1. In({"queued", "taken"}) = {} /\ In({"taken"}) = {} BY DEF In
  <2> QED BY <1>1, <2>1, FS_EmptySet DEF CountersInv, NoStats
<1>6. WaitsInv BY <1>2 DEF WaitsInv, NoStats
<1>7. BoostsInv
  <2>1. ASSUME NEW t \in PriorityTasks
        PROVE  \E k \in Nat : item[t].boost = k * PriorityBoostAmount
    <3>1. item[t].boost = 0 * PriorityBoostAmount BY <1>0, <1>2
    <3> QED BY <3>1, <1>0, <1>2
  <2>2. TotalOf(Boosts, PriorityTasks) = 0
    <3>1. PICK f : f = Boosts OBVIOUS
    <3>2. \A t \in PriorityTasks : f[t] = 0 BY <1>2, <3>1 DEF Boosts
    <3>3. TotalOf(f, PriorityTasks) = 0 BY <1>0, <3>2, TotalOfZeros
    <3> QED BY <3>1, <3>3
  <2>3. stats.agePromotions * PriorityBoostAmount = 0 BY <1>0 DEF NoStats
  <2> QED BY <1>2, <2>1, <2>2, <2>3 DEF BoostsInv
<1>8. SeniorInv BY <1>1 DEF SeniorInv, OlderIsBoostedMore, InHeap, NoStats
<1> QED BY <1>3, <1>4, <1>5, <1>6, <1>7, <1>8 DEF QueueInv

LEMMA NextQueueInv == QueueInv /\ [QueueNext]_queueVars => QueueInv'
<1> SUFFICES ASSUME QueueInv, [QueueNext]_queueVars PROVE QueueInv' OBVIOUS
<1>1. CASE QueueNext
  BY <1>1, TypesKept, HeapKept, CountersKept, WaitsKept, BoostsKept, SeniorKept DEF QueueInv
<1>2. CASE UNCHANGED queueVars
  <2>1. TotalOf(Boosts, PriorityTasks)' = TotalOf(Boosts, PriorityTasks)
    BY <1>2 DEF TotalOf, MapThenSumSet, MapThenFoldSet, Boosts, queueVars
  <2> QED BY <1>2, <2>1
    DEF QueueInv, queueVars, QueueTypes, HeapInv, CountersInv, WaitsInv, BoostsInv, SeniorInv,
        OlderIsBoostedMore, InHeap, In
<1> QED BY <1>1, <1>2

LEMMA QueueInvariant == QueueSpec => []QueueInv
  BY InitQueueInv, NextQueueInv, PTL DEF QueueSpec
-----------------------------------------------------------------------------
\* The average of waits is no more than the longest.
LEMMA AverageIsBelow ==
  ASSUME NEW sum \in Nat, NEW n \in Nat, n # 0, NEW max \in Nat, sum <= n * max
  PROVE  sum \div n <= max
<1>1. PICK q \in Int, r \in 0..n - 1 : sum = n * q + r /\ q = sum \div n
  OBVIOUS
<1>2. SUFFICES ASSUME q > max PROVE FALSE BY <1>1
<1>3. PICK d \in Nat : q = max + 1 + d
  <2>1. q - max - 1 \in Nat /\ q = max + 1 + (q - max - 1) BY <1>2
  <2> QED BY <2>1
<1>4. n * q = n * max + n + n * d BY <1>3
<1>5. n * d \in Nat /\ n * max \in Nat OBVIOUS
<1> QED BY <1>1, <1>4, <1>5

\* The heap of PriorityQueue holds what was enqueued and not dequeued, once, and
\* the counters of GetStats tell the same, for any tasks, priorities and limits.
THEOREM QueueStatsAdd == QueueSpec => []StatsAccountForTasks
<1>1. QueueInv => StatsAccountForTasks
  <2> SUFFICES ASSUME QueueInv PROVE StatsAccountForTasks OBVIOUS
  <2>1. \A t \in PriorityTasks : InHeap(t) <=> place[t] = "queued"
    BY DEF QueueInv, HeapInv, InHeap, Has
  <2>2. \A i, j \in 1..Len(heap) : heap[i] = heap[j] => i = j
    BY DEF QueueInv, HeapInv, Once, NoneTwice
  <2>3. /\ stats.totalEnqueued = Cardinality(In({"queued", "taken"}))
        /\ stats.totalDequeued = Cardinality(In({"taken"}))
        /\ stats.currentSize = Len(heap)
    BY DEF QueueInv, CountersInv
  <2>4. stats.agePromotions * PriorityBoostAmount = MapThenSumSet(LAMBDA t : Boosts[t], PriorityTasks)
    BY DEF QueueInv, BoostsInv, TotalOf, MapThenSumSet, MapThenFoldSet
  <2>5. /\ stats.totalWaitTime \in Nat /\ stats.totalDequeued \in Nat /\ stats.maxWaitTime \in Nat
        /\ stats.totalWaitTime <= stats.totalDequeued * stats.maxWaitTime
        /\ stats.maxWaitTime <= clock
    BY DEF QueueInv, QueueTypes, Counters, WaitsInv
  <2>6. (IF stats.totalDequeued = 0 THEN 0 ELSE stats.totalWaitTime \div stats.totalDequeued)
          <= stats.maxWaitTime
    BY <2>5, AverageIsBelow
  <2> QED BY <2>1, <2>2, <2>3, <2>4, <2>5, <2>6 DEF StatsAccountForTasks, GetStats
<1> QED BY <1>1, QueueInvariant, PTL

\* Dequeue and Peek give a task that no other in the queue is before, however
\* priorities were changed and boosted: container/heap, UpdateTaskPriority and
\* checkAndPromoteStarvedTasks keep the heap in order, whatever its size.
THEOREM DequeueTakesHighest == QueueSpec => []TakesHighest
<1>1. QueueInv => TakesHighest
  <2> SUFFICES ASSUME QueueInv, NEW t \in PriorityTasks, InHeap(t) PROVE ~Less(item, t, Peek)
    BY DEF TakesHighest
  <2>1. /\ item \in Items /\ heap \in Seq(PriorityTasks) /\ InOrder(item, heap) /\ Has(heap, t)
    BY ItemsTyped DEF QueueInv, QueueTypes, HeapInv, InHeap, Has
  <2> QED BY <2>1, RootIsFirst DEF Peek
<1> QED BY <1>1, QueueInvariant, PTL

\* The starvation guard never lets a younger task overtake an older one of its
\* base priority: boosts respect seniority (checkAndPromoteStarvedTasks).
THEOREM SeniorityHolds == QueueSpec => []OlderIsBoostedMore
<1>1. QueueInv => OlderIsBoostedMore BY DEF QueueInv, SeniorInv
<1> QED BY <1>1, QueueInvariant, PTL
=============================================================================
