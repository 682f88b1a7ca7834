---------------------------- MODULE PriorityPool ----------------------------
(***************************************************************************)
(* PriorityWorkerPool (pkg/worker/priority_pool.go).  Submissions put      *)
(* tasks on a channel; the scheduler goroutine moves them to the priority  *)
(* queue and signals a condition variable; the workers take tasks from     *)
(* the priority queue and wait on the condition variable when it is empty. *)
(* In what order the queue yields tasks is the subject of PriorityQueue;   *)
(* here it may yield any, so what is shown holds for every order.          *)
(* The queue of Submission is the task channel, which is buffered          *)
(* (QueueCapacity > 0).  Goroutine run[<<w, s>>] runs runPriorityWorker.   *)
(***************************************************************************)
EXTENDS Submission

CONSTANT Callers    \* the goroutines that call Start, Stop and Close

\* The bounds on goroutines and rounds of Worker.Stop never stop a call.
ASSUME PriorityPoolAssumption == MaxRuns >= MaxStarts /\ MaxStops >= MaxStarts

VARIABLES
  pq,         \* the tasks in p.priorityQueue
  sched,      \* sched[g]: the task scheduler launched by the g-th Start
  once,       \* p.closeOnce
  starts,     \* successful Start calls so far
  stops,      \* rounds of Worker.Stop calls so far
  call        \* the call of each caller

lifeVars == <<once, starts, stops, call>>
vars == <<chanVars, cancelled, workerVars, stopper, panic,
          poolVars, submitVars, pq, sched, lifeVars>>

WorkerPC == {"none", "select", "next", "checking", "parking", "waiting",
             "empty", "executing", "exiting", "closing", "exited"}
CallPC == {"idle", "start_ctx", "start_cancel", "start_sched", "start_spawn",
           "close_once", "close_stop", "stop_load", "stop_cancel", "stop_wake",
           "stop_launch", "stop_wait", "close_state", "close_chan"}

Idle == [op |-> "none", pc |-> "idle", id |-> 0, todo |-> {}]

TypeOK ==
  /\ queue \in Seq(Tasks) /\ Len(queue) <= QueueSize
  /\ cancelled \in SUBSET Gens
  /\ run \in [Runs -> [pc : WorkerPC, ctx : {0}, task : Tasks \cup {NoTask}]]
  /\ quit \in [Workers -> BOOLEAN] /\ done \in [Workers -> BOOLEAN]
  /\ executed \in [Tasks -> Nat]
  /\ stopper \in [Stops -> [Workers -> StopPC]]
  /\ panic \in Panics
  /\ SubmissionTypeOK
  /\ pq \in SUBSET Tasks
  /\ sched \in [Gens -> [pc : {"none", "arm", "select", "enqueue", "signal", "exited"},
                         ctx : Gens \cup {0}, task : Tasks \cup {NoTask}]]
  /\ once \in {"no", "running", "done"}
  /\ starts \in 0..MaxStarts /\ stops \in 0..MaxStops
  /\ call \in [Callers -> [op : {"none", "start", "stop", "close"}, pc : CallPC,
                           id : Nat, todo : SUBSET Workers]]

Init ==
  /\ WorkerInit
  /\ SubmissionInit
  /\ pq = {}
  /\ sched = [g \in Gens |-> NoRun]
  /\ once = "no"
  /\ starts = 0
  /\ stops = 0
  /\ call = [c \in Callers |-> Idle]
-----------------------------------------------------------------------------
(***************************************************************************)
(* The condition variable and its lock p.mu.  A worker holds the lock from *)
(* its failed Dequeue to its Wait, every other section is one step.        *)
(***************************************************************************)
MuFree == \A r \in Runs : run[r].pc \notin {"checking", "parking"}
Waiting == {r \in Runs : run[r].pc = "waiting"}

Signal ==
  IF Waiting = {}
  THEN UNCHANGED run
  ELSE \E r \in Waiting : run' = [run EXCEPT ![r].pc = "next"]

Broadcast == run' = [r \in Runs |-> IF r \in Waiting THEN [run[r] EXCEPT !.pc = "next"] ELSE run[r]]

-----------------------------------------------------------------------------
\* One iteration of taskScheduler: p.ctx.Done() is evaluated on entry to the select.
SchedArm(g) ==
  /\ sched[g].pc = "arm"
  /\ sched' = [sched EXCEPT ![g].pc = "select", ![g].ctx = ctx]
  /\ UNCHANGED <<chanVars, cancelled, workerVars, stopper, panic, poolVars,
                 submitVars, pq, lifeVars>>

SchedReceive(g) ==
  /\ sched[g].pc = "select"
  /\ queue # <<>>
  /\ queue' = Tail(queue)
  /\ sched' = [sched EXCEPT ![g].pc = "enqueue", ![g].task = Head(queue)]
  /\ UNCHANGED <<chanOpen, cancelled, workerVars, stopper, panic, poolVars,
                 submitVars, pq, lifeVars>>

\* The context is cancelled, or the nil task of a closed channel is received.
SchedStop(g) ==
  /\ sched[g].pc = "select"
  /\ sched[g].ctx \in cancelled \/ (~chanOpen /\ queue = <<>>)
  /\ sched' = [sched EXCEPT ![g].pc = "exited"]
  /\ UNCHANGED <<chanVars, cancelled, workerVars, stopper, panic, poolVars,
                 submitVars, pq, lifeVars>>

\* Mutant: a task received when the pool is stopping is not enqueued.
SchedEnqueueDrops(g) ==
  /\ sched[g].pc = "enqueue"
  /\ pq' = IF state = 1 THEN pq \cup {sched[g].task} ELSE pq
  /\ sched' = [sched EXCEPT ![g].pc = "signal", ![g].task = NoTask]
  /\ UNCHANGED <<chanVars, cancelled, workerVars, stopper, panic, poolVars,
                 submitVars, lifeVars>>

\* Enqueue locks the priority queue only, not p.mu.
SchedEnqueue(g) ==
  /\ sched[g].pc = "enqueue"
  /\ pq' = pq \cup {sched[g].task}
  /\ sched' = [sched EXCEPT ![g].pc = "signal", ![g].task = NoTask]
  /\ UNCHANGED <<chanVars, cancelled, workerVars, stopper, panic, poolVars,
                 submitVars, lifeVars>>

\* Mutant: the signal is sent without the lock.
SchedSignalUnlocked(g) ==
  /\ sched[g].pc = "signal"
  /\ Signal
  /\ sched' = [sched EXCEPT ![g].pc = "arm"]
  /\ UNCHANGED <<chanVars, cancelled, wstate, quit, done, processed, failed,
                 executed, stopper, panic, poolVars, submitVars, pq, lifeVars>>

SchedSignal(g) ==
  /\ sched[g].pc = "signal"
  /\ MuFree
  /\ Signal
  /\ sched' = [sched EXCEPT ![g].pc = "arm"]
  /\ UNCHANGED <<chanVars, cancelled, wstate, quit, done, processed, failed,
                 executed, stopper, panic, poolVars, submitVars, pq, lifeVars>>

SchedStep(g) ==
  SchedArm(g) \/ SchedReceive(g) \/ SchedStop(g) \/ SchedEnqueue(g) \/ SchedSignal(g)
-----------------------------------------------------------------------------
RunGoto(r, pc) == run' = [run EXCEPT ![r].pc = pc]

\* The test of p.ctx and of the quit channel at the top of the loop.
RunCheck(r) ==
  /\ run[r].pc = "select"
  /\ RunGoto(r, IF ctx \in cancelled \/ quit[r[1]] THEN "exiting" ELSE "next")
  /\ UNCHANGED <<chanVars, cancelled, wstate, quit, done, processed, failed, executed,
                 stopper, panic, poolVars, submitVars, pq, sched, lifeVars>>

\* getNextTask: lock p.mu and Dequeue; the lock is kept if the queue is empty.
RunDequeue(r) ==
  /\ run[r].pc = "next"
  /\ MuFree
  /\ IF pq = {}
     THEN RunGoto(r, "checking") /\ UNCHANGED pq
     ELSE \E t \in pq :
            /\ pq' = pq \ {t}
            /\ run' = [run EXCEPT ![r].pc = "executing", ![r].task = t]
  /\ UNCHANGED <<chanVars, cancelled, wstate, quit, done, processed, failed, executed,
                 stopper, panic, poolVars, submitVars, sched, lifeVars>>

\* The state and the context are tested, with the lock held.
RunTest(r) ==
  /\ run[r].pc = "checking"
  /\ RunGoto(r, IF state # 1 \/ ctx \in cancelled THEN "empty" ELSE "parking")
  /\ UNCHANGED <<chanVars, cancelled, wstate, quit, done, processed, failed, executed,
                 stopper, panic, poolVars, submitVars, pq, sched, lifeVars>>

\* taskNotify.Wait releases the lock.
RunWait(r) ==
  /\ run[r].pc = "parking"
  /\ RunGoto(r, "waiting")
  /\ UNCHANGED <<chanVars, cancelled, wstate, quit, done, processed, failed, executed,
                 stopper, panic, poolVars, submitVars, pq, sched, lifeVars>>

\* getNextTask returned nil.
RunEmpty(r) ==
  /\ run[r].pc = "empty"
  /\ RunGoto(r, IF state # 1 THEN "exiting" ELSE "select")
  /\ UNCHANGED <<chanVars, cancelled, wstate, quit, done, processed, failed, executed,
                 stopper, panic, poolVars, submitVars, pq, sched, lifeVars>>

\* The task returns, or panics: the recover is outside the loop.
RunTask(r) ==
  /\ run[r].pc = "executing"
  /\ executed' = [executed EXCEPT ![run[r].task] = @ + 1]
  /\ \E pc \in {"select", "exiting"} : run' = [run EXCEPT ![r].pc = pc, ![r].task = NoTask]
  /\ UNCHANGED <<chanVars, cancelled, wstate, quit, done, processed, failed,
                 stopper, panic, poolVars, submitVars, pq, sched, lifeVars>>

\* CloseDone tests done, then closes it.
RunExit(r) ==
  /\ run[r].pc = "exiting"
  /\ RunGoto(r, IF done[r[1]] THEN "exited" ELSE "closing")
  /\ UNCHANGED <<chanVars, cancelled, wstate, quit, done, processed, failed, executed,
                 stopper, panic, poolVars, submitVars, pq, sched, lifeVars>>

RunClose(r) ==
  /\ run[r].pc = "closing"
  /\ RunGoto(r, "exited")
  /\ IF done[r[1]]
     THEN panic' = "close of closed channel" /\ UNCHANGED done
     ELSE done' = [done EXCEPT ![r[1]] = TRUE] /\ UNCHANGED panic
  /\ UNCHANGED <<chanVars, cancelled, wstate, quit, processed, failed, executed,
                 stopper, poolVars, submitVars, pq, sched, lifeVars>>

PriorityWorkerStep(r) ==
  \/ RunCheck(r) \/ RunDequeue(r) \/ RunTest(r) \/ RunWait(r) \/ RunEmpty(r)
  \/ RunTask(r) \/ RunExit(r) \/ RunClose(r)
-----------------------------------------------------------------------------
Enter(c, op, pc, id, todo) ==
  call' = [call EXCEPT ![c] = [op |-> op, pc |-> pc, id |-> id, todo |-> todo]]
Goto(c, pc) == call' = [call EXCEPT ![c].pc = pc]
Return(c) == call' = [call EXCEPT ![c] = Idle]

StartCas(c) ==
  /\ call[c].pc = "idle"
  /\ state = 0
  /\ starts < MaxStarts
  /\ state' = 1
  /\ starts' = starts + 1
  /\ Enter(c, "start", "start_ctx", starts + 1, Workers)
  /\ UNCHANGED <<chanVars, cancelled, workerVars, stopper, panic, ctx, cancel, taskChan,
                 submitVars, pq, sched, once, stops>>

\* p.ctx, p.cancel = context.WithCancel(ctx): two stores.
StartContext(c) ==
  /\ call[c].pc = "start_ctx"
  /\ ctx' = call[c].id
  /\ Goto(c, "start_cancel")
  /\ UNCHANGED <<chanVars, cancelled, workerVars, stopper, panic, state, cancel,
                 taskChan, submitVars, pq, sched, once, starts, stops>>

StartCancel(c) ==
  /\ call[c].pc = "start_cancel"
  /\ cancel' = call[c].id
  /\ Goto(c, "start_sched")
  /\ UNCHANGED <<chanVars, cancelled, workerVars, stopper, panic, state, ctx,
                 taskChan, submitVars, pq, sched, once, starts, stops>>

\* go p.taskScheduler()
StartScheduler(c) ==
  /\ call[c].pc = "start_sched"
  /\ sched' = [sched EXCEPT ![call[c].id].pc = "arm"]
  /\ Goto(c, "start_spawn")
  /\ UNCHANGED <<chanVars, cancelled, workerVars, stopper, panic, poolVars,
                 submitVars, pq, once, starts, stops>>

\* go p.runPriorityWorker(worker)
StartSpawn(c) ==
  /\ call[c].pc = "start_spawn"
  /\ \E w \in call[c].todo : Spawn(w, 0) /\ call' = [call EXCEPT ![c].todo = @ \ {w}]
  /\ UNCHANGED <<chanVars, cancelled, wstate, quit, done, processed, failed, executed,
                 stopper, panic, poolVars, submitVars, pq, sched, once, starts, stops>>

StartReturn(c) ==
  /\ call[c].pc = "start_spawn"
  /\ call[c].todo = {}
  /\ Return(c)
  /\ UNCHANGED <<chanVars, cancelled, workerVars, stopper, panic, poolVars,
                 submitVars, pq, sched, once, starts, stops>>

\* Close ignores that the pool is not running, but not that it is closed.
StopResult(c, op, refused) ==
  IF op = "close" /\ ~refused
  THEN Enter(c, op, "close_state", 0, {}) /\ UNCHANGED once
  ELSE Return(c) /\ once' = IF op = "close" THEN "done" ELSE once

\* The compare-and-swap of Stop, called by itself or by Close.
StopCas(c, op) ==
  /\ IF state = 1
     THEN state' = 0 /\ Enter(c, op, "stop_cancel", 0, {})
     ELSE Enter(c, op, "stop_load", 0, {}) /\ UNCHANGED state
  /\ UNCHANGED <<chanVars, cancelled, workerVars, stopper, panic, ctx, cancel, taskChan,
                 submitVars, pq, sched, once, starts, stops>>

Stop(c) == call[c].pc = "idle" /\ StopCas(c, "stop")

\* The swap failed: another load of the state chooses the error.
StopLoad(c) ==
  /\ call[c].pc = "stop_load"
  /\ StopResult(c, call[c].op, state # 0)
  /\ UNCHANGED <<chanVars, cancelled, workerVars, stopper, panic, poolVars,
                 submitVars, pq, sched, starts, stops>>

StopCancel(c) ==
  /\ call[c].pc = "stop_cancel"
  /\ cancelled' = cancelled \cup ({cancel} \ {0})
  /\ Goto(c, "stop_wake")
  /\ UNCHANGED <<chanVars, workerVars, stopper, panic, poolVars, submitVars,
                 pq, sched, once, starts, stops>>

\* Mutant: the broadcast is sent without the lock.
StopWakeUnlocked(c) ==
  /\ call[c].pc = "stop_wake"
  /\ Broadcast
  /\ Goto(c, "stop_launch")
  /\ UNCHANGED <<chanVars, cancelled, wstate, quit, done, processed, failed, executed,
                 stopper, panic, poolVars, submitVars, pq, sched, once, starts, stops>>

StopWake(c) ==
  /\ call[c].pc = "stop_wake"
  /\ MuFree
  /\ Broadcast
  /\ Goto(c, "stop_launch")
  /\ UNCHANGED <<chanVars, cancelled, wstate, quit, done, processed, failed, executed,
                 stopper, panic, poolVars, submitVars, pq, sched, once, starts, stops>>

StopLaunch(c) ==
  /\ call[c].pc = "stop_launch"
  /\ stops < MaxStops
  /\ stops' = stops + 1
  /\ stopper' = [stopper EXCEPT ![stops + 1] = [w \in Workers |-> "check"]]
  /\ Enter(c, call[c].op, "stop_wait", stops + 1, {})
  /\ UNCHANGED <<chanVars, cancelled, workerVars, panic, poolVars, submitVars,
                 pq, sched, once, starts>>

\* The workers have stopped or the 2 s timer fires: Stop returns nil either way.
StopWait(c) ==
  /\ call[c].pc = "stop_wait"
  /\ StopResult(c, call[c].op, FALSE)
  /\ UNCHANGED <<chanVars, cancelled, workerVars, stopper, panic, poolVars,
                 submitVars, pq, sched, starts, stops>>

CloseEnter(c) ==
  /\ call[c].pc = "idle"
  /\ Enter(c, "close", "close_once", 0, {})
  /\ UNCHANGED <<chanVars, cancelled, workerVars, stopper, panic, poolVars,
                 submitVars, pq, sched, once, starts, stops>>

\* closeOnce.Do: a second caller waits for the first, and does nothing.
CloseOnce(c) ==
  /\ call[c].pc = "close_once"
  /\ \/ once = "no" /\ once' = "running" /\ Goto(c, "close_stop")
     \/ once = "done" /\ Return(c) /\ UNCHANGED once
  /\ UNCHANGED <<chanVars, cancelled, workerVars, stopper, panic, poolVars,
                 submitVars, pq, sched, starts, stops>>

CloseStop(c) == call[c].pc = "close_stop" /\ StopCas(c, "close")

\* The closed state, and priorityQueue.Close, which ends the starvation guard.
CloseState(c) ==
  /\ call[c].pc = "close_state"
  /\ state' = 2
  /\ Goto(c, "close_chan")
  /\ UNCHANGED <<chanVars, cancelled, workerVars, stopper, panic, ctx, cancel, taskChan,
                 submitVars, pq, sched, once, starts, stops>>

CloseChannel(c) ==
  /\ call[c].pc = "close_chan"
  /\ chanOpen' = FALSE
  /\ once' = "done"
  /\ Return(c)
  /\ UNCHANGED <<queue, cancelled, workerVars, stopper, panic, poolVars,
                 submitVars, pq, sched, starts, stops>>

\* The context given to the g-th Start is cancelled by whoever owns it.
CancelParent(g) ==
  /\ g \in 1..starts
  /\ g \notin cancelled
  /\ cancelled' = cancelled \cup {g}
  /\ UNCHANGED <<chanVars, workerVars, stopper, panic, poolVars, submitVars,
                 pq, sched, lifeVars>>
-----------------------------------------------------------------------------
CallBegin(c) == StartCas(c) \/ Stop(c) \/ CloseEnter(c)

CallStep(c) ==
  \/ StartContext(c) \/ StartCancel(c) \/ StartScheduler(c)
  \/ StartSpawn(c) \/ StartReturn(c)
  \/ StopLoad(c) \/ StopCancel(c) \/ StopWake(c) \/ StopLaunch(c) \/ StopWait(c)
  \/ CloseOnce(c) \/ CloseStop(c) \/ CloseState(c) \/ CloseChannel(c)

StopperStep(k, w) == StopStep(k, w) /\ UNCHANGED <<poolVars, submitVars, pq, sched, lifeVars>>
\* The submission of the other pools, of the task in its priority wrapper.
SubmitWithPriorityAndTimeout(t) ==
  (SubmitCheck(t) \/ SubmitStep(t)) /\ UNCHANGED <<pq, sched, lifeVars>>

Step ==
  \/ \E c \in Callers : CallBegin(c) \/ CallStep(c)
  \/ \E t \in Tasks : SubmitWithPriorityAndTimeout(t)
  \/ \E r \in Runs : PriorityWorkerStep(r)
  \/ \E g \in Gens : SchedStep(g) \/ CancelParent(g)
  \/ \E k \in Stops, w \in Workers : StopperStep(k, w)

\* A panic ends the process.
Next == panic = "none" /\ Step

Spec == Init /\ [][Next]_vars

(***************************************************************************)
(* Fairness: the run time schedules every goroutine, timers fire and tasks *)
(* return.  With finitely many tasks p.mu is taken finitely often, so weak *)
(* fairness is enough for whoever waits for it.                            *)
(***************************************************************************)
Fairness ==
  /\ \A r \in Runs : WF_vars(panic = "none" /\ PriorityWorkerStep(r))
  /\ \A g \in Gens : WF_vars(panic = "none" /\ SchedStep(g))
  /\ \A k \in Stops, w \in Workers : WF_vars(panic = "none" /\ StopperStep(k, w))
  /\ \A c \in Callers : WF_vars(panic = "none" /\ CallStep(c))

FairSpec == Spec /\ Fairness
-----------------------------------------------------------------------------
Scheduled(t) == \E g \in Gens : sched[g].task = t

\* An accepted task is in exactly one place: the channel, the hands of the
\* scheduler, the priority queue, the hands of a worker, or executed once;
\* stopping, restarting, closing and panicking tasks lose or repeat none
\* (taskScheduler, getNextTask, runPriorityWorker).
InOnePlace ==
  /\ \A i, j \in 1..Len(queue) : queue[i] = queue[j] => i = j
  /\ \A g, h \in Gens, t \in Tasks : sched[g].task = t /\ sched[h].task = t => g = h
  /\ \A r, s \in Runs, t \in Tasks : Holds(r, t) /\ Holds(s, t) => r = s
  /\ \A t \in Tasks :
       /\ executed[t] \in {0, 1}
       /\ Accepted(t) <=>
            InQueue(t) \/ Scheduled(t) \/ t \in pq \/ Held(t) \/ executed[t] = 1
       /\ InQueue(t) => ~(Scheduled(t) \/ t \in pq \/ Held(t) \/ executed[t] = 1)
       /\ Scheduled(t) => ~(t \in pq \/ Held(t) \/ executed[t] = 1)
       /\ t \in pq => ~(Held(t) \/ executed[t] = 1)
       /\ Held(t) => executed[t] = 0

Dead == panic # "none"
Halting == cancelled # {} \/ state # 1

\* An accepted task is executed, unless the pool is told to stop or tasks have
\* killed all its workers: no wake-up is lost between an Enqueue, which p.mu
\* does not cover, and a worker that found the queue empty.
AcceptedIsExecuted ==
  \A t \in Tasks :
    Accepted(t) ~> (executed[t] = 1 \/ Halting \/ Dead \/ \A r \in Runs : run[r].pc = "exited")

\* After Stop no worker waits for ever on the condition variable.
WorkersExit ==
  \A r \in Runs : (Live(r) /\ quit[r[1]]) ~> (run[r].pc = "exited" \/ Dead)
=============================================================================
