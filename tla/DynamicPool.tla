----------------------------- MODULE DynamicPool -----------------------------
(***************************************************************************)
(* DynamicWorkerPool (pkg/worker/dynamic_pool.go): a pool whose number of  *)
(* workers moves between MinWorkers and MaxWorkers while it runs.  Workers *)
(* and submissions are those of FixedPool; p.mu protects p.workers, but    *)
(* not the state, the context or the goroutines of the workers.            *)
(* Workers are numbered as createWorker numbers them, from 1.              *)
(***************************************************************************)
EXTENDS Submission

CONSTANTS
  Callers,     \* the goroutines that call Start, Stop, Close and scale
  MinWorkers,
  MaxWorkers,
  Nobody       \* the owner of a lock nobody holds

\* The number of workers ever created is bounded by the size of Workers.
\* So is, with it, the number of rounds of Worker.Stop: one per start, and one
\* per ScaleDown, which takes at least one worker out of the pool for good.
\* A worker is started once by each Start and once by the ScaleUp that made it.
ASSUME DynamicPoolAssumption ==
  /\ MinWorkers \in Nat \ {0}
  /\ MaxWorkers \in Nat /\ MinWorkers <= MaxWorkers
  /\ Workers = 1..Cardinality(Workers) /\ MinWorkers <= Cardinality(Workers)
  /\ MaxStops >= MaxStarts + Cardinality(Workers) - MinWorkers
  /\ MaxRuns >= MaxStarts + 1
  /\ Nobody \notin Callers

VARIABLES
  workers,    \* p.workers
  made,       \* p.nextWorkerID: the workers created so far
  mu,         \* who holds p.mu over more than one step
  once,       \* p.closeOnce
  starts,     \* successful Start calls so far
  stops,      \* rounds of Worker.Stop calls so far
  call        \* the call of each caller

lifeVars == <<workers, made, mu, once, starts, stops, call>>
vars == <<chanVars, cancelled, workerVars, stopper, panic,
          poolVars, submitVars, lifeVars>>

CallPC == {"idle", "start_ctx", "start_cancel", "start_lock", "start_spawn",
           "stop_load", "stop_cancel", "stop_launch", "stop_wait",
           "close_once", "close_stop", "close_state", "close_chan", "close_clean",
           "up_lock", "up_size", "up_ctx", "up_grow", "up_check", "up_spawn",
           "down_lock", "down_size"}

\* id: the start or stop number, the target of a ScaleUp or ScaleDown, then the
\* context ScaleUp captured; todo: the workers the call has still to start.
\* What a call returned is not kept, so one that is refused before it has touched
\* the lock (the compare-and-swap of Start or Stop, a target out of range) is no step.
CallType == [op : {"none", "start", "stop", "close", "up", "down"}, pc : CallPC,
             id : Nat, todo : SUBSET Workers]

Idle == [op |-> "none", pc |-> "idle", id |-> 0, todo |-> {}]

Members == {workers[i] : i \in 1..Len(workers)}

\* Every variable keeps its type; p.workers never holds a worker twice.
TypeOK ==
  /\ WorkerTypeOK
  /\ SubmissionTypeOK
  /\ workers \in Seq(1..made) /\ Cardinality(Members) = Len(workers)
  /\ 1..made \subseteq Workers
  /\ mu \in Callers \cup {Nobody}
  /\ once \in {"no", "running", "done"}
  /\ starts \in 0..MaxStarts
  /\ stops \in 0..MaxStops
  /\ call \in [Callers -> CallType]

Init ==
  /\ WorkerInit
  /\ SubmissionInit
  /\ workers = [i \in 1..MinWorkers |-> i]
  /\ made = MinWorkers
  /\ mu = Nobody
  /\ once = "no"
  /\ starts = 0
  /\ stops = 0
  /\ call = [c \in Callers |-> Idle]
-----------------------------------------------------------------------------
Enter(c, op, pc, id, todo) ==
  call' = [call EXCEPT ![c] = [op |-> op, pc |-> pc, id |-> id, todo |-> todo]]
Goto(c, pc) == call' = [call EXCEPT ![c].pc = pc]
Return(c) == call' = [call EXCEPT ![c] = Idle]

StartCas(c) ==
  /\ call[c].pc = "idle"
  /\ state = 0
  /\ starts < MaxStarts
  /\ state' = 1
  /\ starts' = starts + 1
  /\ Enter(c, "start", "start_ctx", starts + 1, {})
  /\ UNCHANGED <<chanVars, cancelled, workerVars, stopper, panic, ctx, cancel,
                 taskChan, submitVars, workers, made, mu, once, stops>>

\* p.ctx, p.cancel = context.WithCancel(ctx): two stores.
StartContext(c) ==
  /\ call[c].pc = "start_ctx"
  /\ ctx' = call[c].id
  /\ Goto(c, "start_cancel")
  /\ UNCHANGED <<chanVars, cancelled, workerVars, stopper, panic, state, cancel,
                 taskChan, submitVars, workers, made, mu, once, starts, stops>>

StartCancel(c) ==
  /\ call[c].pc = "start_cancel"
  /\ cancel' = call[c].id
  /\ Goto(c, "start_lock")
  /\ UNCHANGED <<chanVars, cancelled, workerVars, stopper, panic, state, ctx,
                 taskChan, submitVars, workers, made, mu, once, starts, stops>>

StartLock(c) ==
  /\ call[c].pc = "start_lock"
  /\ mu = Nobody
  /\ mu' = c
  /\ call' = [call EXCEPT ![c].pc = "start_spawn", ![c].todo = Members]
  /\ UNCHANGED <<chanVars, cancelled, workerVars, stopper, panic, poolVars,
                 submitVars, workers, made, once, starts, stops>>

\* One turn of a loop that runs `go worker.Start(context)`.
SpawnNext(c, g) ==
  \E w \in call[c].todo :
    /\ Spawn(w, g)
    /\ call' = [call EXCEPT ![c].todo = @ \ {w}]
    /\ UNCHANGED <<chanVars, cancelled, wstate, quit, done, processed, failed,
                   executed, stopper, panic, poolVars, submitVars,
                   workers, made, mu, once, starts, stops>>

StartSpawn(c) == call[c].pc = "start_spawn" /\ SpawnNext(c, ctx)

StartReturn(c) ==
  /\ call[c].pc = "start_spawn"
  /\ call[c].todo = {}
  /\ mu' = Nobody
  /\ Return(c)
  /\ UNCHANGED <<chanVars, cancelled, workerVars, stopper, panic, poolVars,
                 submitVars, workers, made, once, starts, stops>>
-----------------------------------------------------------------------------
\* How Stop ends: for Close, an error ends the call and uses up closeOnce.
StopResult(c, op, res) ==
  IF op = "close" /\ res = "nil"
  THEN Enter(c, op, "close_state", 0, {}) /\ UNCHANGED once
  ELSE Return(c) /\ once' = IF op = "close" THEN "done" ELSE once

StopCas(c, op) ==
  /\ \/ state = 1 /\ state' = 0 /\ Enter(c, op, "stop_cancel", 0, {})
     \/ state # 1 /\ UNCHANGED state /\ Enter(c, op, "stop_load", 0, {})
  /\ UNCHANGED <<chanVars, cancelled, workerVars, stopper, panic, ctx, cancel,
                 taskChan, submitVars, workers, made, mu, once, starts, stops>>

Stop(c) == call[c].pc = "idle" /\ state = 1 /\ StopCas(c, "stop")

\* The compare-and-swap failed and the state is read again.  Unlike the fixed
\* pool, a pool that is stopped by now is no error; any other state is.
StopLoad(c) ==
  /\ call[c].pc = "stop_load"
  /\ StopResult(c, call[c].op, IF state = 0 THEN "nil" ELSE "error")
  /\ UNCHANGED <<chanVars, cancelled, workerVars, stopper, panic, poolVars,
                 submitVars, workers, made, mu, starts, stops>>

StopCancel(c) ==
  /\ call[c].pc = "stop_cancel"
  /\ cancelled' = cancelled \cup ({cancel} \ {0})
  /\ Goto(c, "stop_launch")
  /\ UNCHANGED <<chanVars, workerVars, stopper, panic, poolVars, submitVars,
                 workers, made, mu, once, starts, stops>>

\* A round of Worker.Stop calls, one goroutine per worker of ws.
Launch(ws) ==
  /\ stops < MaxStops
  /\ stops' = stops + 1
  /\ stopper' = [stopper EXCEPT ![stops + 1] =
                   [w \in Workers |-> IF w \in ws THEN "check" ELSE "none"]]

StopLaunch(c) ==
  /\ call[c].pc = "stop_launch"
  /\ mu = Nobody
  /\ Launch(Members)
  /\ Enter(c, call[c].op, "stop_wait", stops + 1, {})
  /\ UNCHANGED <<chanVars, cancelled, workerVars, panic, poolVars, submitVars,
                 workers, made, mu, once, starts>>

StopWait(c) ==
  /\ call[c].pc = "stop_wait"
  /\ StopsReturned(call[c].id)
  /\ StopResult(c, call[c].op, "nil")
  /\ UNCHANGED <<chanVars, cancelled, workerVars, stopper, panic, poolVars,
                 submitVars, workers, made, mu, starts, stops>>

\* The 10 s timer of Stop.
StopGivesUp(c) ==
  /\ call[c].pc = "stop_wait"
  /\ StopResult(c, call[c].op, "error")
  /\ UNCHANGED <<chanVars, cancelled, workerVars, stopper, panic, poolVars,
                 submitVars, workers, made, mu, starts, stops>>
-----------------------------------------------------------------------------
CloseEnter(c) ==
  /\ call[c].pc = "idle"
  /\ Enter(c, "close", "close_once", 0, {})
  /\ UNCHANGED <<chanVars, cancelled, workerVars, stopper, panic, poolVars,
                 submitVars, workers, made, mu, once, starts, stops>>

\* closeOnce.Do: a second caller waits for the first, and does nothing.
CloseOnce(c) ==
  /\ call[c].pc = "close_once"
  /\ \/ once = "no" /\ once' = "running" /\ Goto(c, "close_stop")
     \/ once = "done" /\ Return(c) /\ UNCHANGED once
  /\ UNCHANGED <<chanVars, cancelled, workerVars, stopper, panic, poolVars,
                 submitVars, workers, made, mu, starts, stops>>

CloseStop(c) == call[c].pc = "close_stop" /\ StopCas(c, "close")

CloseState(c) ==
  /\ call[c].pc = "close_state"
  /\ state' = 2
  /\ Goto(c, "close_chan")
  /\ UNCHANGED <<chanVars, cancelled, workerVars, stopper, panic, ctx, cancel,
                 taskChan, submitVars, workers, made, mu, once, starts, stops>>

CloseChannel(c) ==
  /\ call[c].pc = "close_chan"
  /\ chanOpen' = FALSE
  /\ Goto(c, "close_clean")
  /\ UNCHANGED <<queue, cancelled, workerVars, stopper, panic, poolVars,
                 submitVars, workers, made, mu, once, starts, stops>>

CloseClean(c) ==
  /\ call[c].pc = "close_clean"
  /\ mu = Nobody
  /\ workers' = <<>>
  /\ taskChan' = FALSE
  /\ once' = "done"
  /\ Return(c)
  /\ UNCHANGED <<chanVars, cancelled, workerVars, stopper, panic, state, ctx,
                 cancel, submitVars, made, mu, starts, stops>>
-----------------------------------------------------------------------------
\* ScaleUp with a target within MaxWorkers: p.mu.Lock().
UpBegin(c, target) ==
  /\ call[c].pc = "idle"
  /\ target <= MaxWorkers
  /\ Enter(c, "up", "up_lock", target, {})
  /\ UNCHANGED <<chanVars, cancelled, workerVars, stopper, panic, poolVars,
                 submitVars, workers, made, mu, once, starts, stops>>

\* The bound on the workers ever created keeps a ScaleUp from taking the lock.
BeyondBound(c) ==
  call[c].pc = "up_lock" /\ made + call[c].id - Len(workers) > Cardinality(Workers)

UpLock(c) ==
  /\ call[c].pc = "up_lock" /\ ~BeyondBound(c)
  /\ mu = Nobody
  /\ mu' = c
  /\ Goto(c, "up_size")
  /\ UNCHANGED <<chanVars, cancelled, workerVars, stopper, panic, poolVars,
                 submitVars, workers, made, once, starts, stops>>

\* Mutant: the early return of ScaleUp forgets to unlock.
UpSizeKeepsLock(c) ==
  /\ call[c].pc = "up_size"
  /\ \/ call[c].id <= Len(workers) /\ UNCHANGED mu /\ Return(c)
     \/ /\ call[c].id > Len(workers) /\ UNCHANGED mu
        /\ Goto(c, IF state = 1 THEN "up_ctx" ELSE "up_grow")
  /\ UNCHANGED <<chanVars, cancelled, workerVars, stopper, panic, poolVars,
                 submitVars, workers, made, once, starts, stops>>

\* The comparison with the size, which may end the call, or the load of the state.
UpSize(c) ==
  /\ call[c].pc = "up_size"
  /\ \/ call[c].id <= Len(workers) /\ mu' = Nobody /\ Return(c)
     \/ /\ call[c].id > Len(workers) /\ UNCHANGED mu
        /\ Goto(c, IF state = 1 THEN "up_ctx" ELSE "up_grow")
  /\ UNCHANGED <<chanVars, cancelled, workerVars, stopper, panic, poolVars,
                 submitVars, workers, made, once, starts, stops>>

\* Mutant: the loop runs to i <= targetSize.
UpGrowOneMore(c) ==
  LET n     == call[c].id + 1 - Len(workers)
      fresh == (made + 1)..(made + n)
  IN  /\ call[c].pc \in {"up_ctx", "up_grow"}
      /\ workers' = workers \o [i \in 1..n |-> made + i]
      /\ made' = made + n
      /\ mu' = Nobody
      /\ IF call[c].pc = "up_ctx" /\ ctx # 0
         THEN Enter(c, "up", "up_check", ctx, fresh)
         ELSE Return(c)
      /\ UNCHANGED <<chanVars, cancelled, workerVars, stopper, panic, poolVars,
                     submitVars, once, starts, stops>>

\* The read of the context, the new workers and the unlock.
UpGrow(c) ==
  LET n     == call[c].id - Len(workers)
      fresh == (made + 1)..(made + n)
  IN  /\ call[c].pc \in {"up_ctx", "up_grow"}
      /\ workers' = workers \o [i \in 1..n |-> made + i]
      /\ made' = made + n
      /\ mu' = Nobody
      /\ IF call[c].pc = "up_ctx" /\ ctx # 0
         THEN Enter(c, "up", "up_check", ctx, fresh)
         ELSE Return(c)
      /\ UNCHANGED <<chanVars, cancelled, workerVars, stopper, panic, poolVars,
                     submitVars, once, starts, stops>>

\* Mutant: the new workers are started only if the pool is not running.
UpCheckInverted(c) ==
  /\ call[c].pc = "up_check"
  /\ IF state # 1 THEN Goto(c, "up_spawn") ELSE Return(c)
  /\ UNCHANGED <<chanVars, cancelled, workerVars, stopper, panic, poolVars,
                 submitVars, workers, made, mu, once, starts, stops>>

\* "Re-check state before starting to handle race conditions".
UpCheck(c) ==
  /\ call[c].pc = "up_check"
  /\ IF state = 1 THEN Goto(c, "up_spawn") ELSE Return(c)
  /\ UNCHANGED <<chanVars, cancelled, workerVars, stopper, panic, poolVars,
                 submitVars, workers, made, mu, once, starts, stops>>

UpSpawn(c) == call[c].pc = "up_spawn" /\ SpawnNext(c, call[c].id)

UpReturn(c) ==
  /\ call[c].pc = "up_spawn"
  /\ call[c].todo = {}
  /\ Return(c)
  /\ UNCHANGED <<chanVars, cancelled, workerVars, stopper, panic, poolVars,
                 submitVars, workers, made, mu, once, starts, stops>>

\* ScaleDown with a target of at least MinWorkers: p.mu.Lock().
DownBegin(c, target) ==
  /\ call[c].pc = "idle"
  /\ target >= MinWorkers
  /\ Enter(c, "down", "down_lock", target, {})
  /\ UNCHANGED <<chanVars, cancelled, workerVars, stopper, panic, poolVars,
                 submitVars, workers, made, mu, once, starts, stops>>

DownLock(c) ==
  /\ call[c].pc = "down_lock"
  /\ mu = Nobody
  /\ mu' = c
  /\ Goto(c, "down_size")
  /\ UNCHANGED <<chanVars, cancelled, workerVars, stopper, panic, poolVars,
                 submitVars, workers, made, once, starts, stops>>

\* Mutant: the early return of ScaleDown forgets to unlock.
DownRefusedKeepsLock(c) ==
  /\ call[c].pc = "down_size"
  /\ call[c].id >= Len(workers)
  /\ Return(c)
  /\ UNCHANGED <<chanVars, cancelled, workerVars, stopper, panic, poolVars,
                 submitVars, workers, made, mu, once, starts, stops>>

\* The comparison with the size, whose failure ends the call.
DownRefused(c) ==
  /\ call[c].pc = "down_size"
  /\ call[c].id >= Len(workers)
  /\ mu' = Nobody
  /\ Return(c)
  /\ UNCHANGED <<chanVars, cancelled, workerVars, stopper, panic, poolVars,
                 submitVars, workers, made, once, starts, stops>>

\* Mutant: the removed workers are not stopped.
DownKeeps(c) ==
  /\ call[c].pc = "down_size"
  /\ call[c].id < Len(workers)
  /\ workers' = SubSeq(workers, 1, call[c].id)
  /\ mu' = Nobody
  /\ Return(c)
  /\ UNCHANGED <<chanVars, cancelled, workerVars, stopper, panic, poolVars,
                 submitVars, made, once, starts, stops>>

\* The workers removed from the end are told to stop; the call unlocks and
\* returns while they do.
DownShrink(c) ==
  LET size == Len(workers)
  IN  /\ call[c].pc = "down_size"
      /\ call[c].id < size
      /\ Launch({workers[i] : i \in (call[c].id + 1)..size})
      /\ workers' = SubSeq(workers, 1, call[c].id)
      /\ mu' = Nobody
      /\ Return(c)
      /\ UNCHANGED <<chanVars, cancelled, workerVars, panic, poolVars, submitVars,
                     made, once, starts>>

\* The context given to the g-th Start is cancelled by whoever owns it.
CancelParent(g) ==
  /\ g \in 1..starts
  /\ g \notin cancelled
  /\ cancelled' = cancelled \cup {g}
  /\ UNCHANGED <<chanVars, workerVars, stopper, panic, poolVars, submitVars, lifeVars>>
-----------------------------------------------------------------------------
\* Targets out of their range are refused before the lock, and a ScaleUp to less
\* than MinWorkers ends as one to a size the pool has.
Targets == MinWorkers..MaxWorkers

CallBegin(c) ==
  \/ StartCas(c) \/ Stop(c) \/ CloseEnter(c)
  \/ \E n \in Targets : UpBegin(c, n) \/ DownBegin(c, n)

\* What a caller does once its call has begun: fairness is stated of this.
CallStep(c) ==
  \/ StartContext(c) \/ StartCancel(c) \/ StartSpawn(c) \/ StartReturn(c)
  \/ StopLoad(c) \/ StopCancel(c) \/ StopWait(c) \/ StopGivesUp(c)
  \/ CloseOnce(c) \/ CloseStop(c) \/ CloseState(c) \/ CloseChannel(c)
  \/ UpSize(c) \/ UpGrow(c) \/ UpCheck(c) \/ UpSpawn(c) \/ UpReturn(c)
  \/ DownRefused(c) \/ DownShrink(c)

\* The steps that wait for p.mu.
LockStep(c) ==
  StartLock(c) \/ StopLaunch(c) \/ CloseClean(c) \/ UpLock(c) \/ DownLock(c)

WorkerStep(r) == RunStep(r) /\ UNCHANGED <<poolVars, submitVars, lifeVars>>
StopperStep(k, w) == StopStep(k, w) /\ UNCHANGED <<poolVars, submitVars, lifeVars>>
\* DynamicWorkerPool.SubmitWithTimeout, which is that of FixedWorkerPool again.
SubmitWithTimeout(t) == (SubmitCheck(t) \/ SubmitStep(t)) /\ UNCHANGED lifeVars

Step ==
  \/ \E c \in Callers : CallBegin(c) \/ CallStep(c) \/ LockStep(c)
  \/ \E t \in Tasks : SubmitWithTimeout(t)
  \/ \E r \in Runs : WorkerStep(r)
  \/ \E k \in Stops, w \in Workers : StopperStep(k, w)
  \/ \E g \in Gens : CancelParent(g)

\* A panic ends the process.
Next == panic = "none" /\ Step

Spec == Init /\ [][Next]_vars

(***************************************************************************)
(* Fairness: the scheduler runs every call, the timer of Stop fires, and   *)
(* p.mu, a sync.RWMutex, starves no goroutine that waits to write.  Nobody *)
(* has to call anything.                                                   *)
(***************************************************************************)
FairSpec ==
  /\ Spec
  /\ \A c \in Callers : /\ WF_vars(panic = "none" /\ CallStep(c))
                         /\ SF_vars(panic = "none" /\ LockStep(c))
-----------------------------------------------------------------------------
(***************************************************************************)
(* Properties.                                                             *)
(***************************************************************************)
\* Concurrent ScaleUp and ScaleDown calls never leave the configured range, and
\* never add the same worker twice; only Close empties the pool.
SizeInRange ==
  /\ Cardinality(Members) = Len(workers)
  /\ Len(workers) <= MaxWorkers
  /\ state # 2 => Len(workers) >= MinWorkers

\* A worker that has left the pool was told to stop, or its channel is closed:
\* a goroutine ScaleUp or Start launches for it late still ends (ScaleDown
\* between the two halves of ScaleUp, Close).
RemovedAreTold ==
  \A w \in (1..made) \ Members : ~chanOpen \/ \E k \in Stops : stopper[k][w] # "none"

AllIdle == \A c \in Callers : call[c].pc = "idle"

\* At rest, a running pool that was never stopped is served by each of its
\* workers: started by ScaleUp or by the Start that ScaleUp overlapped, and
\* never told to stop by the ScaleDown of another ("Re-check state before
\* starting to handle race conditions").
AddedAreServing ==
  (state = 1 /\ starts = 1 /\ cancelled = {} /\ AllIdle)
     => \A w \in Members : ~quit[w] /\ \E s \in 1..MaxRuns : Live(<<w, s>>)

\* Every call that takes p.mu gets it and returns, as does every other call: no
\* path keeps the lock, not the early returns of ScaleUp and ScaleDown under it,
\* and a Close waiting in closeOnce goes on.  Only a ScaleUp beyond the bound of
\* the model is excused (Start, Stop, Close, ScaleUp, ScaleDown).
CallsReturn ==
  \A c \in Callers :
    call[c].pc # "idle" ~> (call[c].pc = "idle" \/ BeyondBound(c) \/ panic # "none")
=============================================================================
