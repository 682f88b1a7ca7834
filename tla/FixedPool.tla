------------------------------ MODULE FixedPool ------------------------------
(***************************************************************************)
(* FixedWorkerPool (pkg/worker/fixed_pool.go): any number of goroutines    *)
(* call Start, Stop and Close, each task is submitted by its own goroutine,*)
(* and the workers take tasks from the channel.  No lock protects the      *)
(* fields of the pool, so every access to a shared field is a step.        *)
(* A panic ends the process: nothing moves after it.                       *)
(***************************************************************************)
EXTENDS Submission
Sets == INSTANCE FiniteSetsExt

CONSTANT Callers    \* the goroutines that call Start, Stop and Close

ASSUME FixedPoolAssumption == MaxStops >= MaxStarts

VARIABLES
  workers,    \* p.workers, {} once Close has dropped it
  once,       \* p.closeOnce
  starts,     \* successful Start calls so far
  stops,      \* rounds of Worker.Stop calls so far
  call        \* the Start/Stop/Close call of each caller

lifeVars == <<workers, once, starts, stops, call>>
vars == <<chanVars, cancelled, workerVars, stopper, panic,
          poolVars, submitVars, lifeVars>>

CallPC == {"idle", "start_ctx", "start_cancel", "start_range", "start_spawn",
           "stop_cancel", "stop_launch", "stop_wait", "close_once", "close_stop",
           "close_state", "close_chan", "close_workers", "close_nil"}

\* op, id: the call, and its start or stop number; res: what it returned;
\* todo: the workers the loop of Start has still to start.
CallType == [op : {"none", "start", "stop", "close"}, pc : CallPC,
             id : 0..MaxStops, res : {"none", "nil", "error"},
             todo : SUBSET Workers]

LifeTypeOK ==
  /\ workers \in SUBSET Workers
  /\ once \in {"no", "running", "done"}
  /\ starts \in 0..MaxStarts
  /\ stops \in 0..MaxStops
  /\ call \in [Callers -> CallType]

\* Every variable keeps its type; in particular no nil context is cancelled.
TypeOK == WorkerTypeOK /\ SubmissionTypeOK /\ LifeTypeOK

Init ==
  /\ WorkerInit
  /\ SubmissionInit
  /\ workers = Workers
  /\ once = "no"
  /\ starts = 0
  /\ stops = 0
  /\ call = [c \in Callers |-> [op |-> "none", pc |-> "idle", id |-> 0,
                                res |-> "none", todo |-> {}]]
-----------------------------------------------------------------------------
Enter(c, op, pc, id) ==
  call' = [call EXCEPT ![c] = [op |-> op, pc |-> pc, id |-> id,
                               res |-> "none", todo |-> {}]]
Goto(c, pc) == call' = [call EXCEPT ![c].pc = pc]
Return(c, op, res) ==
  call' = [call EXCEPT ![c] = [op |-> op, pc |-> "idle", id |-> 0,
                               res |-> res, todo |-> {}]]

\* Start: the compare-and-swap.  The number of starts is bounded by MaxStarts.
StartCas(c) ==
  /\ call[c].pc = "idle"
  /\ IF state = 0
     THEN /\ starts < MaxStarts
          /\ state' = 1
          /\ starts' = starts + 1
          /\ Enter(c, "start", "start_ctx", starts + 1)
     ELSE Return(c, "start", "error") /\ UNCHANGED <<state, starts>>
  /\ UNCHANGED <<chanVars, cancelled, workerVars, stopper, panic, ctx, cancel,
                 taskChan, submitVars, workers, once, stops>>

\* p.ctx, p.cancel = context.WithCancel(ctx): two stores.
StartContext(c) ==
  /\ call[c].pc = "start_ctx"
  /\ ctx' = call[c].id
  /\ Goto(c, "start_cancel")
  /\ UNCHANGED <<chanVars, cancelled, workerVars, stopper, panic, state, cancel,
                 taskChan, submitVars, workers, once, starts, stops>>

StartCancel(c) ==
  /\ call[c].pc = "start_cancel"
  /\ cancel' = call[c].id
  /\ Goto(c, "start_range")
  /\ UNCHANGED <<chanVars, cancelled, workerVars, stopper, panic, state, ctx,
                 taskChan, submitVars, workers, once, starts, stops>>

\* range p.workers reads the slice once.
StartRange(c) ==
  /\ call[c].pc = "start_range"
  /\ call' = [call EXCEPT ![c].pc = "start_spawn", ![c].todo = workers]
  /\ UNCHANGED <<chanVars, cancelled, workerVars, stopper, panic, poolVars,
                 submitVars, workers, once, starts, stops>>

\* One turn of the loop: go worker.Start(p.ctx).
StartSpawn(c) ==
  /\ call[c].pc = "start_spawn"
  /\ \E w \in call[c].todo :
       /\ Spawn(w, ctx)
       /\ call' = [call EXCEPT ![c].todo = @ \ {w}]
  /\ UNCHANGED <<chanVars, cancelled, wstate, quit, done, processed, failed,
                 executed, stopper, panic, poolVars, submitVars,
                 workers, once, starts, stops>>

StartReturn(c) ==
  /\ call[c].pc = "start_spawn"
  /\ call[c].todo = {}
  /\ Return(c, "start", "nil")
  /\ UNCHANGED <<chanVars, cancelled, workerVars, stopper, panic, poolVars,
                 submitVars, workers, once, starts, stops>>
-----------------------------------------------------------------------------
\* Mutant: Close goes on after a Stop that failed.
StopResultIgnored(c, res) ==
  IF call[c].op # "close"
  THEN Return(c, "stop", res) /\ UNCHANGED once
  ELSE Goto(c, "close_state") /\ UNCHANGED once

\* Mutant: a Close whose Stop failed keeps the others waiting.
StopResultKeepsOnce(c, res) ==
  IF call[c].op # "close"
  THEN Return(c, "stop", res) /\ UNCHANGED once
  ELSE IF res = "error"
       THEN Return(c, "close", "error") /\ UNCHANGED once
       ELSE Goto(c, "close_state") /\ UNCHANGED once

\* How Stop ends: for Close, an error ends the call and uses up closeOnce.
StopResult(c, res) ==
  IF call[c].op # "close"
  THEN Return(c, "stop", res) /\ UNCHANGED once
  ELSE IF res = "error"
       THEN Return(c, "close", "error") /\ once' = "done"
       ELSE Goto(c, "close_state") /\ UNCHANGED once

\* The compare-and-swap of Stop, called by itself or by Close.
StopCas(c, op) ==
  /\ IF state = 1
     THEN /\ state' = 0
          /\ Enter(c, op, "stop_cancel", 0)
          /\ UNCHANGED once
     ELSE /\ Return(c, op, "error")
          /\ once' = IF op = "close" THEN "done" ELSE once
          /\ UNCHANGED state
  /\ UNCHANGED <<chanVars, cancelled, workerVars, stopper, panic, ctx, cancel,
                 taskChan, submitVars, workers, starts, stops>>

Stop(c) == call[c].pc = "idle" /\ StopCas(c, "stop")

StopCancel(c) ==
  /\ call[c].pc = "stop_cancel"
  /\ cancelled' = cancelled \cup ({cancel} \ {0})
  /\ Goto(c, "stop_launch")
  /\ UNCHANGED <<chanVars, workerVars, stopper, panic, poolVars, submitVars,
                 workers, once, starts, stops>>

\* One goroutine per worker calls Worker.Stop.  There are no more such rounds
\* than starts, so the bound MaxStops never stops one.
StopLaunch(c) ==
  /\ call[c].pc = "stop_launch"
  /\ stops < MaxStops
  /\ stops' = stops + 1
  /\ stopper' = [stopper EXCEPT ![stops + 1] =
                   [w \in Workers |-> IF w \in workers THEN "check" ELSE "none"]]
  /\ Enter(c, call[c].op, "stop_wait", stops + 1)
  /\ UNCHANGED <<chanVars, cancelled, workerVars, panic, poolVars, submitVars,
                 workers, once, starts>>

StopWait(c) ==
  /\ call[c].pc = "stop_wait"
  /\ StopsReturned(call[c].id)
  /\ StopResult(c, "nil")
  /\ UNCHANGED <<chanVars, cancelled, workerVars, stopper, panic, poolVars,
                 submitVars, workers, starts, stops>>

\* The 10 s timer of Stop.
StopGivesUp(c) ==
  /\ call[c].pc = "stop_wait"
  /\ StopResult(c, "error")
  /\ UNCHANGED <<chanVars, cancelled, workerVars, stopper, panic, poolVars,
                 submitVars, workers, starts, stops>>
-----------------------------------------------------------------------------
CloseEnter(c) ==
  /\ call[c].pc = "idle"
  /\ Enter(c, "close", "close_once", 0)
  /\ UNCHANGED <<chanVars, cancelled, workerVars, stopper, panic, poolVars,
                 submitVars, workers, once, starts, stops>>

\* closeOnce.Do: a second caller waits for the first, then returns nil.
CloseOnce(c) ==
  /\ call[c].pc = "close_once"
  /\ \/ once = "no" /\ once' = "running" /\ Goto(c, "close_stop")
     \/ once = "done" /\ Return(c, "close", "nil") /\ UNCHANGED once
  /\ UNCHANGED <<chanVars, cancelled, workerVars, stopper, panic, poolVars,
                 submitVars, workers, starts, stops>>

\* Mutant: Close tries again until the pool can be stopped.
CloseStopRetries(c) == call[c].pc = "close_stop" /\ state = 1 /\ StopCas(c, "close")

CloseStop(c) == call[c].pc = "close_stop" /\ StopCas(c, "close")

CloseState(c) ==
  /\ call[c].pc = "close_state"
  /\ state' = 2
  /\ Goto(c, "close_chan")
  /\ UNCHANGED <<chanVars, cancelled, workerVars, stopper, panic, ctx, cancel,
                 taskChan, submitVars, workers, once, starts, stops>>

\* Mutant: the task channel is not closed.
CloseChannelNot(c) ==
  /\ call[c].pc = "close_chan"
  /\ Goto(c, "close_workers")
  /\ UNCHANGED <<chanVars, cancelled, workerVars, stopper, panic, poolVars,
                 submitVars, workers, once, starts, stops>>

CloseChannel(c) ==
  /\ call[c].pc = "close_chan"
  /\ chanOpen' = FALSE
  /\ Goto(c, "close_workers")
  /\ UNCHANGED <<queue, cancelled, workerVars, stopper, panic, poolVars,
                 submitVars, workers, once, starts, stops>>

CloseWorkers(c) ==
  /\ call[c].pc = "close_workers"
  /\ workers' = {}
  /\ Goto(c, "close_nil")
  /\ UNCHANGED <<chanVars, cancelled, workerVars, stopper, panic, poolVars,
                 submitVars, once, starts, stops>>

CloseNil(c) ==
  /\ call[c].pc = "close_nil"
  /\ taskChan' = FALSE
  /\ once' = "done"
  /\ Return(c, "close", "nil")
  /\ UNCHANGED <<chanVars, cancelled, workerVars, stopper, panic, state, ctx, cancel,
                 submitVars, workers, starts, stops>>

\* The context given to the g-th Start is cancelled by whoever owns it.
CancelParent(g) ==
  /\ g \in 1..starts
  /\ g \notin cancelled
  /\ cancelled' = cancelled \cup {g}
  /\ UNCHANGED <<chanVars, workerVars, stopper, panic, poolVars, submitVars, lifeVars>>
-----------------------------------------------------------------------------
CallBegin(c) == StartCas(c) \/ Stop(c) \/ CloseEnter(c)

\* What a caller does once its call has begun: fairness is stated of this.
CallStep(c) ==
  \/ StartContext(c) \/ StartCancel(c) \/ StartRange(c)
  \/ StartSpawn(c) \/ StartReturn(c)
  \/ StopCancel(c) \/ StopLaunch(c) \/ StopWait(c) \/ StopGivesUp(c)
  \/ CloseOnce(c) \/ CloseStop(c) \/ CloseState(c) \/ CloseChannel(c)
  \/ CloseWorkers(c) \/ CloseNil(c)

WorkerStep(r) == RunStep(r) /\ UNCHANGED <<poolVars, submitVars, lifeVars>>
StopperStep(k, w) == StopStep(k, w) /\ UNCHANGED <<poolVars, submitVars, lifeVars>>
ClientStep(t) == SubmitStep(t) /\ UNCHANGED lifeVars

Step ==
  \/ \E c \in Callers : CallBegin(c) \/ CallStep(c)
  \/ \E t \in Tasks : (SubmitCheck(t) /\ UNCHANGED lifeVars) \/ ClientStep(t)
  \/ \E r \in Runs : WorkerStep(r)
  \/ \E k \in Stops, w \in Workers : StopperStep(k, w)
  \/ \E g \in Gens : CancelParent(g)

\* A panic ends the process.
Next == panic = "none" /\ Step

Spec == Init /\ [][Next]_vars

(***************************************************************************)
(* Fairness: the scheduler runs every goroutine, timers fire, and tasks    *)
(* return.  Nobody has to call Start, Stop, Close or Submit.               *)
(***************************************************************************)
Fairness ==
  /\ \A r \in Runs : WF_vars(panic = "none" /\ WorkerStep(r))
  /\ \A k \in Stops, w \in Workers : WF_vars(panic = "none" /\ StopperStep(k, w))
  /\ \A t \in Tasks : WF_vars(panic = "none" /\ ClientStep(t))
  /\ \A c \in Callers : WF_vars(panic = "none" /\ CallStep(c))

FairSpec == Spec /\ Fairness
-----------------------------------------------------------------------------
\* Stats and GetWorkerStats, before Close drops the channel and the workers.
Stats == [ActiveWorkers |-> Cardinality({w \in workers : WorkerStats(w).State = "working"}),
          QueueSize     |-> Len(queue)]

Counted == [w \in Workers |-> WorkerStats(w).TotalProcessed + WorkerStats(w).TotalFailed]
TasksCounted == Sets!MapThenSumSet(LAMBDA w : Counted[w], Workers)

\* The statistics, kept by each worker for itself, account for the submissions:
\* whatever was stopped, restarted and closed, an accepted task is one of
\* QueueSize, one that a goroutine took and has not counted yet, or counted as
\* processed or as failed, once.  And a pool that was started once has one
\* active worker for each goroutine inside processTask: Stop makes none look
\* idle or stopped (Worker.processTask, Worker.Stats, FixedWorkerPool.Stats).
StatsAccountForTasks ==
  /\ Cardinality({t \in Tasks : Accepted(t)})
       = Stats.QueueSize + Cardinality({t \in Tasks : Held(t)}) + TasksCounted
  /\ (starts <= 1 /\ workers # {}) =>
       Stats.ActiveWorkers = Cardinality({r \in Runs : run[r].pc \in {"executing", "counted"}})

\* A Worker.Stop that did not time out, of a worker started once, returns only
\* when that worker's goroutine is gone: "wait for Worker to complete current
\* task" (Worker.Stop, Worker.Start).  After a restart it does not hold: done
\* is closed by the first of the worker's goroutines.
StopWaitsForWorker ==
  starts <= 1 => \A k \in Stops, w \in Workers :
                   stopper[k][w] = "nil" => ~\E s \in 1..MaxRuns : Live(<<w, s>>)

\* A pool that is closed is shut down: every worker was told to quit, so no
\* goroutine, not even one a late Start has still to launch, can wait for tasks
\* for ever (Close calls Stop before it stores the closed state).
ClosedIsShutDown == state = 2 => \A w \in Workers : quit[w]

\* Once a Close that did close the pool is over, no submission is accepted
\* any more, not even one that was waiting for room in the channel.
NothingAcceptedAfterClose ==
  [][(state = 2 /\ once = "done") => \A t \in Tasks : Accepted(t)' => Accepted(t)]_vars
-----------------------------------------------------------------------------
(***************************************************************************)
(* How the pool must be used for no call to panic: it is started once, and *)
(* no submission is under way while Start or Close is.                     *)
(***************************************************************************)
Cooperative ==
  /\ starts <= 1
  /\ (\E t \in Tasks : InFlight(t)) =>
        \A c \in Callers : call[c].op \in {"start", "close"} => call[c].pc = "idle"

ContractSpec == Init /\ [][Next /\ Cooperative']_vars

\* Under that contract no channel is closed twice or sent to after its close,
\* and no nil context is used, whatever Stop, the timers and the tasks do.
NoPanic == panic = "none"

\* What the documentation says without the contract: submitting is safe at any
\* time ("Concurrency safety guarantees"; after Close, Submit fails).
SubmitNeverPanics == panic # "send on closed channel"

-----------------------------------------------------------------------------
Dead == panic # "none"
Stopping == cancelled # {} \/ \E k \in Stops, w \in Workers : stopper[k][w] # "none"

\* A task the pool accepted is executed, unless the pool is told to stop; one
\* a worker has taken is executed even then: "Graceful shutdown without losing
\* executing tasks" (Worker.Start, processTask).
AcceptedIsExecuted ==
  \A t \in Tasks :
    /\ Accepted(t) ~> (executed[t] = 1 \/ Stopping \/ Dead)
    /\ Held(t) ~> (executed[t] = 1 \/ Dead)

\* Start, Stop and Close return: none of them waits for ever for a worker, for a
\* task or, in closeOnce, for another Close, whatever way that one ended
\* (FixedWorkerPool.Start, Stop, Close).
CallsReturn ==
  \A c \in Callers : call[c].pc # "idle" ~> (call[c].pc = "idle" \/ Dead)

\* Every submission gets an answer, also when another one has filled the channel
\* and no worker takes anything out of it: the timer fires, or the default case
\* is taken (SubmitWithTimeout).
SubmissionsAnswered ==
  \A t \in Tasks : InFlight(t) ~> (sub[t] \in {"accepted", "rejected"} \/ Dead)

\* A worker goroutine whose context is cancelled or whose worker was told to
\* quit ends: stopping the pool leaks no goroutine.
WorkersExit ==
  \A r \in Runs : (Live(r) /\ (run[r].ctx \in cancelled \/ quit[r[1]]))
                     ~> (run[r].pc = "exited" \/ Dead)
=============================================================================
