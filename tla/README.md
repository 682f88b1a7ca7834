# Verification of gopipeline

TLA+ models of the concurrent parts of gopipeline (Go, `src/pkg` and
`src/internal`), TLC runs that check them on small instances, and proofs checked
by TLAPS that hold for every instance. `PROJECT.json` maps every definition to
the lines it was translated from; this file explains the whole.

Contents: [the system](#1-the-system) · [the models](#2-the-models) ·
[the runs](#3-the-runs-and-what-they-show) · [fairness](#4-fairness) ·
[the proofs](#5-the-proofs) ·
[the code against its documents](#6-the-code-against-its-documents) ·
[not modelled](#7-what-is-not-modelled) · [plan](#8-plan)

## 1. The system

gopipeline is a library: worker pools, pipelines with retries and batches, retry
and backoff policies, and error handlers. All state is in memory; nothing is
persisted and nothing crosses a network. What is hard in it is concurrency:
fields that are read without a lock while another goroutine writes them,
channels that are closed while others send, `select` statements with several
ready cases, condition variables, and lifecycles (`Start`, `Stop`, `Close`) that
several goroutines drive at once.

| Component | Source | State | Operations | Hard behaviour | Correct when |
|---|---|---|---|---|---|
| Worker, FixedWorkerPool | `pkg/worker/worker.go`, `fixed_pool.go` | atomic `state`, unlocked `ctx`/`cancel`/`workers`/`taskChan`, `closeOnce`; each worker: `quit`, `done`, state, counters | Start, Submit, SubmitWithTimeout, Stop, Close, Stats, GetWorkerStats; Worker.Start, executeTask, Worker.Stop, Stats | no lock at all; Stop and Close overlap Start and Submit; restarts give a worker two goroutines | accepted tasks run exactly once; the statistics account for them; nothing is accepted after Close; a closed pool is shut down; calls return; nothing panics |
| DynamicWorkerPool | `dynamic_pool.go` | the same, plus `workers` under `mu`, `nextWorkerID` | the same, ScaleUp, ScaleDown | scaling overlaps Start, Stop and Close; workers are started after the unlock | the size stays in its range; removed workers are told to stop, added ones are started; no task is lost by scaling; every call gets the lock and returns |
| PriorityQueue | `priority.go` | a heap under `mu`, per task priority, boost, submit time; statistics; starvation guard | Enqueue, Dequeue, Peek, UpdateTaskPriority, promotion, GetStats, Close | priorities change inside the heap; long mixes of operations | the root is the highest task, the heap loses nothing and the statistics agree with it, boosts respect age and, as documented, their maximum |
| PriorityWorkerPool | `priority_pool.go` | task channel, heap, `taskNotify` condition variable, scheduler, workers | Start, Submit, Stop, Close; scheduler; getNextTask | Enqueue outside the lock of the condition variable; one broadcast at Stop; restart | every accepted task is in exactly one place; no wake-up is lost; workers exit |
| Pipeline | `pkg/pipeline/pipeline.go` | atomic `state`, `once`, unbuffered `stopChan` | Execute with its retry loop, Start, Stop, Close | pairs of compare-and-swaps; the timer, the context and the stop signal race in one select | the lifecycle goes forward; attempts are bounded; Execute returns |
| Batches | `pipeline.go`, `async.go`, `retry/executor.go`, `types/pools.go` | an input channel and workers; a semaphore and goroutines; result objects that are filled, copied and reset | both `ExecuteBatch` and the three `ExecuteAsync` methods | cancellation at any point; who closes the result channel; an object put back while its copy travels | each input answered at most once and with its own value, all of them without cancellation; no more executions at a time than allowed; the result channel closes after the last send |
| HandlerRegistry | `internal/errors/handler.go` | handlers by name, handlers by error type, default handler; one mutex | Register, Unregister, Bind, Unbind, SetDefault | bindings point to handlers, not names | no binding outlives its handler |
| ErrorHandlers | `internal/errors/handler.go` | the list of ignored types | CanHandle, HandleError, Add/RemoveIgnoredErrorType | the check and the use are two calls; two lookups of types | CanHandle predicts HandleError |
| RetryExecutor | `pkg/retry/executor.go`, `policy.go` | statistics under a lock | ExecuteWithName, ResetStats | statistics updated in several sections of one execution | attempts within the policy; the statistics add up |
| RetryErrors | `policy.go`, `types/errors.go` | an error as a chain of wrappers | DefaultRetryCondition, IsRetryable, wrapError | an error crosses several executors, each of which wraps it | wrapping does not change what is retried |
| Backoff | `pkg/retry/backoff.go`, `policy.go` | Fibonacci cache, previous delay | NextDelay of each strategy and policy, the jitter functions, Reset | overflow; jitter on top of a bounded delay; a cache without a lock | delays in range, the cache right |
| Functional | `functional.go` | of one call: the attempt, two branches, the struct they share | Execute, WithRetry, Parallel | branches outlive their attempt and the call; the deadline races everything | an answer is of one attempt; attempts do not overlap; calls return |
| ScalableChain | `scalable_chain.go` | slices of steps, over arrays that may be shared | Then, Append, Add, Build, ToFunc, Execute | appending to a shared array; a caller that keeps its list | a chain runs what was composed |
| Tasks | `pkg/worker/task.go` | the timeout context of a task; a merged context and a helper goroutine for each execution | TaskWithTimeout.Execute, Cleanup | a task executed twice; two contexts end at any time | a task's context ends for a reason, and when it does the execution ends |
| Types, TestUtils, Examples | `pkg/types`, … | none | – | – | not modelled, see section 7 |

**How they interact.** A pool hands tasks from the goroutines of its clients to
its workers over a channel of the Go runtime. Dynamic and fixed pools share
`Worker` and have the same `SubmitWithTimeout`; the priority pool puts a
scheduler and a `PriorityQueue` between the channel and the workers. A pipeline
runs in the goroutine of its caller; its batches start goroutines that call
`Execute`. The pipeline asks a retry policy (the component RetryExecutor) for
permission and for a delay (the component Backoff), but has a retry loop of its own.
Executors may be nested: what the inner one returns is what the outer one decides
about. A pool executes the task it is given, which may be a TaskWithTimeout around
another. Error handlers are called by the users of the library. Pools and
pipelines do not call each other.

## 2. The models

| Module | Extends | Models |
|---|---|---|
| `Worker` | – | one worker: the goroutine of `Worker.Start`, the goroutines that run `Worker.Stop`, its counters |
| `Submission` | `Worker` | `SubmitWithTimeout`, over the pool state it reads |
| `FixedPool` | `Submission` | Start, Stop, Close and Stats of the fixed pool, the composition of all three |
| `TaskLedger` | – | the abstract specification of a pool: what a task goes through |
| `DynamicPool` | `Submission` | the dynamic pool with scaling |
| `PriorityQueue` | – | the heap, its operations and statistics, the starvation guard |
| `PriorityPool` | `Submission` | scheduler, condition variable, workers and lifecycle of the priority pool |
| `Pipeline` | – | Execute with retries, Start, Stop, Close |
| `BatchContract` | – | the abstract specification of a batch |
| `ResultPool` | – | the result objects: got, filled, copied, put back |
| `PipelineBatch`, `AsyncBatch`, `AsyncCalls` | `ResultPool` | the implementations of `ExecuteBatch`, and one `ExecuteAsync` for each input |
| `Batches` | `ResultPool` | which of the three runs; all against the contract (`INSTANCE`) |
| `Pipelines` | `Pipeline`, `Batches` | single calls of Execute, or a batch |
| `HandlerRegistry` | – | registration and bindings of error handlers |
| `ErrorHandling` | `HandlerRegistry` | the handlers themselves, and goroutines that look one up, ask it and call it |
| `RetryExecutor` | – | concurrent executions that share statistics |
| `RetryErrors` | – | what is retried, and what an executor returns |
| `Jitter` | – | integers that wrap around, and the random changes of a delay as sets of outcomes |
| `Backoff` | `Jitter` | the delays that are formulas |
| `Fibonacci`, `Decorrelated` | `Jitter` | the delays that keep state |
| `Delays` | `Jitter` | retries configured with one of them (`INSTANCE`) |
| `Failures` | `RetryExecutor`, `Delays`, `RetryErrors`, `ErrorHandling` | the three parts of `pkg/retry` and the error handlers side by side, one of them in use |
| `Calls` | – | one call: Execute, WithRetry, Parallel |
| `Chains` | – | the chains, composed and executed |
| `TimedTask` | – | a TaskWithTimeout that is executed more than once |
| `Functional` | `Calls` | a program that makes calls, composes chains, or has timed tasks (`INSTANCE`) |
| `FixedPoolProofs`, `DynamicPoolProofs`, `FunctionalProofs` | the module | their theorems (section 5) |
| `PriorityPoolProofs` | `PriorityPool`, `PriorityQueue`, `Sums` | the theorems of the pool and of its queue |
| `PipelineProofs` | `Pipeline`, `Batches` | the theorems of the pipeline and of the batches |
| `SubmissionProofs` | `Submission` | lemmas on workers and submissions, used for the fixed and the dynamic pool |
| `FailureProofs` | `RetryExecutor`, `Delays`, `RetryErrors`, `ErrorHandling`, `Sums` | the theorems of `pkg/retry` and `internal/errors` |
| `Sums` | – | induction over numbers and finite sets, lemmas on sums over sets, and loops that end |
| `MC…` | the module | symmetry and the small sets for TLC; a `.cfg` is named `<module>_<question>`. The runs of `PriorityPool`, `Pipelines` and `Delays` need none |

Conventions. An atomic operation, a lock-protected section, or an access to an
unprotected shared field is one action; between two of them any goroutine may
step. A goroutine is a record with a `pc`, whose values are named for what it is
about to do (`"start_ctx"`: Start has won its compare-and-swap and is about to
store the context). A `select` is a disjunction over its ready cases. A panic
sets `panic` and ends the behaviour, as it ends a Go process. Definitions
called *Mutant* stand beside the definition they alter; they are never part of a
specification, and `PROJECT.json` says which property each of them violates.

**Worker.** `run[<<w, s>>]` is the s-th goroutine of worker `w`. A context is the
number of the Start that made it, 0 is nil. The goroutine selects among its
context, `quit`, and the task channel (`StopSeen`, `Receive`), executes the task,
counts it, and at its end closes `done`. `Worker.Stop` looks at `quit`, closes it and waits for
`done` or five seconds; the test and the close are two steps as in the code. A
task ends with success or failure at will; a panic of a task is recovered in
`executeTask` and counts as a failure. The counters are increments of their own, after
the task has returned.

**Submission.** `SubmitCheck` reads the state; `SubmitNow` is the select with a
default case (timeout ≤ 0); otherwise the call evaluates the operands of its
select (`armed`: the context and channel it read, possibly nil) and then waits
for room, its timer, or that context. A send on a closed channel and `Done()` of
a nil context panic.

**FixedPool.** A caller's `call[c]` walks through Start, Stop or Close one field
access at a time, in the order of the code. `Stop` makes one round (`stopper[k]`) of `Worker.Stop`
goroutines and waits for them or gives up after ten seconds. `Close` runs
under `closeOnce`: other callers wait for it (`"close_once"`) and then return nil. `Stats` is
what the pool's method sums up from its workers and the length of the channel.

**DynamicPool.** As FixedPool with `p.mu`. ScaleUp and ScaleDown lock, compare the size, and either
unlock and return or go on, each in a step of its own, and `mu` names who holds the lock; so it does in the
loop of Start. In Stop and Close, whose sections have no branch, the section is one step that waits for
the lock. ScaleUp grows the pool, unlocks, re-checks the state and
starts the new workers. A Stop whose compare-and-swap fails loads the state again, in a second step. What is
refused before the lock (a target out of its range, a Start that loses its compare-and-swap) changes nothing
and is no step, except inside Close.

**PriorityQueue.** Every operation holds `pq.mu`, so each is one action. The
binary heap of `container/heap` is written out (`Up`, `Down`, and the operations
built from them), since the order of the sequence is what the property is about. `stats` are
the counters of the queue; `GetStats` adds what it computes from the heap. A task gets its submit
time when it is made, which may be earlier than its `Enqueue`.

**PriorityPool.** The heap is the set `pq` and yields any element, so what is
shown holds for every order; `PriorityQueue` shows which one it yields. A
worker holds `p.mu` from its failed Dequeue to its Wait (`MuFree`); `Signal`
wakes any waiter, `Broadcast` all.

**Pipeline.** A job is one Execute. The unbuffered `stopChan` makes it matter
whether a job is parked in its select (then a Stop can hand it the signal) or
still before it (then the signal is lost). Stop's two compare-and-swaps and its
send are three steps; a Close waits for `once`, then stores, then closes the channel and returns.

**Batches.** The reader of the result channel reads on. `PipelineBatch` is a
sender, a channel, workers, and the goroutine that closes; `AsyncBatch` one
goroutine for each input and a semaphore, which is the number of places in use;
`AsyncCalls` one goroutine and one channel for each input. An input stands for its value,
so that a result with another's value, or a reset one, shows in `got`.

**HandlerRegistry, ErrorHandling.** One action for each method, since each holds
the mutex. In `ErrorHandling` `Types` are dynamic types of errors; the sets
`HasTimeout` and `HasTemporary` say which have those methods, because the fast
path of `HandleError` classifies by method and `CanHandle` by type. A caller
looks its handler up, asks it, and calls it, in three steps; the registry and
the list of ignored types may change in between. Asked about a nil error, the registry answers
with its default handler, which it reads without the lock; a nil error has nothing to be handled, and that call is
not in the model.

**RetryExecutor.** An action for each critical section of an execution. The
average is kept as the pair of numbers that are divided, so that no rounding
hides a wrong pair.

**RetryErrors.** An error is the sequence of its layers; `errors.As` walks it from
the outside. A step adds a layer, either any (a panic of a task, another library) or
the one `wrapError` adds when an executor gives up.

**Delays.** Integers wrap at `MaxInt`, which stands for 2^63 − 1; the run uses
eight bits, so that overflow is reached after a few attempts. The float of the
exponential strategy converts to the least integer when it is out of range, as
on amd64, or to the largest one, as on arm64. A multiplier is a rational above zero, a whole number of
`1/Unit`: 2, the documented 1.5, and 0.5, which no option refuses. `Power` is cut off below the
nanosecond as the conversion does; the rounding of `float64` and `math.Pow` is left out, and so are
multipliers that are not above zero. The state has the delay after the limit and before the jitter, beside the
attempt it was asked for. The outcomes of a jitter function are a set; an
empty one is a panic of `rand.Int63n(0)`.

**Pipelines, Failures.** Each puts parts that share no state beside each other, so that one run checks
them: a behaviour is one of a single part, and the others stay as they were created.

**Calls.** The caller walks through `Execute`, the loop of `WithRetry` and the
select of `Parallel`. Each attempt has its own two branches, waiting goroutine and
struct, as in the code, where they are variables of the closure; those of an
attempt that was abandoned go on. A branch may never return. `fatal` is an error
that says it is not retryable: only the function itself can return one, since
`Parallel` wraps the errors of its branches and `WithRetry` does not unwrap. `MaxRetries` is not negative: with a
negative one the loop of `WithRetry` has no turn and the function is never called.

**Chains.** A slice is a length over one of `arrays`; a copy is a new array. The
list of the caller has room for one more step, so that an `append` to it
would not copy. How much `append` over-allocates is up to the Go runtime, hence
a choice. A value is the sequence of the steps that were applied.

**TimedTask.** An execution is made of the goroutine that calls Execute (`exec`) and
of the helper that joins the context of the worker with the timeout (`helper`).
`mergedCancel` does not wake the helper, which waits for the two contexts only; the
execution then waits out its 100 ms timer.

A `TypeOK` states what the variables of its module hold. TLC does not check it in
the runs, where a wrong type would show in the other properties; for the fixed and the dynamic
pool and the handler registry it is proved, and the inductive invariants of the other proofs
contain what they need of it.

## 3. The runs and what they show

`tlc -config X.cfg M`, where `PROJECT.json` names the module `M` of each run; each takes from seconds to
under three minutes.

| Run | Instance | Shows |
|---|---|---|
| `FixedPool_tasks` | 2 tasks, a channel of 1, 1 worker with up to 2 goroutines, 2 starts, 2 stops | `ExactlyOnce`: an accepted task is in the channel, in one goroutine's hands, or was executed, also when Stop and Start gave the worker a second goroutine; `StatsAccountForTasks`: the sums of Stats tell of every task but those between their receive and their count; `StopWaitsForWorker` (pools started once); `ImplementsLedger`: the pool refines `TaskLedger` |
| `FixedPool_lifecycle` | 2 tasks, a channel of 1, 1 worker, 2 callers, 1 start, 1 stop; the second submission begins after the calls of the second caller | `ClosedIsShutDown` and `NothingAcceptedAfterClose`; `CallsReturn`: Start, Stop and Close return, a Close that waits in `closeOnce` for one that fails included; `AcceptedIsExecuted`: a task that was accepted while the pool ran or was taken by a worker is executed; `WorkersExit`; `SubmissionsAnswered`: a submission that finds the channel filled by the other one is accepted or refused, also when the pool is stopped and nobody empties the channel |
| `FixedPool_submit_panics` | 1 task, 1 worker, 1 caller | a violation: see section 6 |
| `DynamicPool_scale` | no task, 1–2 workers, 2 callers, 1 start, 2 stops | `SizeInRange`; `RemovedAreTold`: a removed worker is told to stop; `AddedAreServing`: an added one is started by somebody, or told to stop |
| `DynamicPool_locks` | 1 task, size 1 to 1, up to 2 workers made, 2 callers, 1 start, 2 stops | `CallsReturn`: every Start, Stop, Close, ScaleUp and ScaleDown gets `p.mu` and returns; with the minimum equal to the maximum, the scaling calls take their early returns unless Close has emptied the pool |
| `PriorityQueue_order` | 4 tasks, 2 priorities, clock to 2, boost of 2 up to 3 | `StatsAccountForTasks`: the heap loses nothing and repeats nothing, and the counters agree with it; `TakesHighest`; `OlderIsBoostedMore` |
| `PriorityQueue_boost` | 2 tasks, the same boost | a violation: see section 6 |
| `PriorityPool_live` | 2 tasks, 1 worker, 1 start, 1 stop | `InOnePlace` from the channel to the execution; no wake-up is lost (`AcceptedIsExecuted`); Stop reaches waiting workers (`WorkersExit`) |
| `Pipelines_work` | 2 jobs, 2 calls, 3 retries, policy of 1; or 5 inputs and 3 workers, or 2 places, or a call each | `NeverBack`, `AttemptsBounded`; `CallsReturn`: Execute, Stop and Close return, a Close that waits for another one included. All three kinds of batch refine `BatchContract`: own values, at most one result, at most the allowed number of executions, no close before the last execution; `BatchEnds`: every channel closes, and the sender ends although the workers may be gone |
| `Failures_together` | 2 executions, 3 attempts, 2 resets; formulas with the multipliers 2, 1.5 and 0.5 up to 5·2^8 and 5+8·20 under maxima of 10, 50 and 100, 14 Fibonacci attempts with overflow at the twelfth, 8 bits; 5 roots under 4 wrappers; 4 handlers of 3 names, a plain type and one with a Timeout method, 1 goroutine that calls handlers | `AttemptsWithinMax`, `StatsAddUp` (counters and average), `ExecutionsEnd`; `DelaysInRange`: in range before the jitter, and how far each jitter may take the answer from there; `DelaysGrow`, `CacheIsFibonacci` in any order of attempts and resets; `VerdictSurvivesWrapping`: the outermost mark decides, and an outer executor decides as the inner one did; `BindingsRegistered`; `CanHandleAgrees` for plain error types |
| `Delays_two_callers` | 2 retries over one Fibonacci strategy | a violation: see section 6 |
| `Functional_calls` | 3 attempts of 2 branches; or 2 steps, a list of 1, 3 chains, builders of 2; or 2 executions of one task | `AnswersOfOneAttempt`: no result is handed over that a branch has not stored; `OneAttemptAtATime` unless the context is done; `CallReturns` by its deadline although branches hang; `RunsWhatWasComposed`: no chain changes with another or with the list; `DoneForAReason`: an execution ending cancels no other; `EndReachesTask`: the end of either context ends the execution and its helper |

`Functional_calls` (2.2 million states), `DynamicPool_scale` (2.4 million) and `PriorityQueue_order`
(3.9 million) are the largest.

**Why the bounds are enough.** Tasks interact only through the channel, the
heap and the workers: two tasks over a channel of one are enough for a full
channel, an overtaking, and a worker that holds one task while another waits; a
third adds more of the same. What two workers could do to each other's tasks,
two goroutines of one worker do as well, and they share `quit` and `done`
besides. Lifecycle calls interact in pairs (the compare-and-swap of one between
two steps of another), so two callers meet every pair, with a task under way; a submission that
finds the channel filled by another meets one caller, whose Stop or Close is what may keep it waiting; the pools are driven
by one caller where the question is about tasks. Scaling moves no task, so the run about
the size of the pool has none, and the theorems on its tasks hold for any number. Four tasks make
a heap of three levels, in which `Down` has to choose a child and go on below
it. Three attempts let branches of two abandoned ones run beside the third. Three
chains are one, a second made from it, and a third made from either, which is what two appends
to one array need. Two executions share a timeout as any number do. Four wrappers put two marks
and two other layers around a root in every order, and a decision looks at the first mark
only. Eight bits behave as sixty-four, with the overflow nearer. The counters
`MaxStarts`, `MaxRuns`, `MaxStops`, `MaxTime`, `MaxAttempt`, `LastAttempt`,
`MaxResets`, `MaxLayers`, `MaxChains` and `MaxAdded` bound actions a client starts, or are tied to each other by an ASSUME so that they never
stop a goroutine that holds something others wait for.

`CHECK_DEADLOCK FALSE` is set where the system may stop: a panic ends the
process, a batch is done, every call has returned, the attempts are used up.

**Symmetry** is used for tasks, callers and workers that are
interchangeable, and only in runs without liveness properties.

## 4. Fairness

Weak fairness of every goroutine: the Go scheduler is preemptive and runs each
runnable goroutine. Timers fire, which is weak fairness of the timeout actions. Task
and process functions return: the library cannot promise anything about one that does not.
A task of `TimedTask` returns only once its context is done.
The branches of `Parallel` are the exception: it need not wait for them, and they have no fairness.
Nobody has to call Start, Stop, Close, Submit or Execute and no context has to
be cancelled: these actions have no fairness. Two waits have strong fairness. A goroutine that waits for `p.mu` of the dynamic pool (`LockStep`) gets it
although others take it again and again, as ScaleUp and ScaleDown may: `sync.RWMutex` starves no
goroutine that waits to write. Waiters on a Go channel are queued first in, first out, so a goroutine that
waits for the semaphore in `AsyncBatch` is served. The lock of the priority pool is taken finitely often in the
bounded model, so weak fairness is enough for who waits.

## 5. The proofs

TLAPS checks these for every value of the constants, under the named ASSUMEs of the
modules. Most of those are checked by a constructor (the sizes of the pools and their channels), a fact of a Go
program (a pool makes a finite slice of workers, finitely many executions and priority tasks are made), a naming
convention (`NoTask` is not a task), or a relation among the bounds. Some leave out values that no constructor
refuses, so the theorems do not speak of them: a negative boost amount
(`PriorityQueueAssumption`), an initial delay or a multiplier that is not above zero and a cap
below its base (`DelaysAssumption`), a semaphore without places (`BatchesAssumption`), and a negative
number of retries (`RetriesAssumption`, `PipelineAssumption`, `RetryAssumption`).

| Theorem | Statement | Argument |
|---|---|---|
| `FixedPoolProofs!Typing` | `Spec => []TypeOK` | `TypeInv` = `TypeOK` with the fact that a Start under way carries the number of a start that happened (`StartIds`). It is needed because `Stop` cancels the context it reads: with it, `cancelled` only ever holds contexts some Start made. One lemma for each kind of goroutine (worker, stopper, submission, call), each split by action |
| `FixedPoolProofs!ExactlyOnceHolds`, `DynamicPoolProofs!ExactlyOnceHolds` | `Spec => []ExactlyOnce` | `OnceInv`: inductive with `HandsInv`, that a goroutine holds a task exactly while it is at the steps from the receive to the end of the execution. The lemmas `SendPlaces`, `ReceivePlaces` and `FinishPlaces` say where the three steps that move a task put it, from what `Append` and `Tail` do to membership and distinctness in the channel; every other step moves nothing (`OnceKept`) |
| `FixedPoolProofs!PoolIsALedger`, `DynamicPoolProofs!PoolIsALedger` | `Spec => ImplementsLedger` | refinement of `TaskLedger`, step by step. `StatusTold` reads the mapped status off the places of `OnceInv`, so a send, a receive and an end are one move of the ledger each, and every other step changes the status of no task, or of the one that is submitted or refused. The guards of the ledger follow from counting: the queued tasks are at most the length of the channel (`QueuedFit`), and while one goroutine has empty hands fewer tasks are held than there are goroutines (`HeldFit`) |
| `FixedPoolProofs!StatsAdd` | `Spec => []StatsAccountForTasks` | two invariants. `CountInv`: accepted = queued + held + counted, where a send, a receive and an end move one between two of the four numbers. `ActiveInv`: in a pool started once, a worker looks busy exactly while a goroutine of it is in processTask (`BusyInv`); that goroutine is the only one (`RunInv`), so the two sets have a bijection |
| `FixedPoolProofs!StopHasWaited` | `Spec => []StopWaitsForWorker` | `WaitedInv`: while there was one start, `StartedOnce` (how far the one Start is, only one round of `Worker.Stop`, one goroutine for each worker, alive only while `done` is open) and that a `Worker.Stop` which returned nil has seen `done` closed |
| `FixedPoolProofs!ClosedHasStopped` | `Spec => []ClosedIsShutDown` | `CloseInv`, for any number of starts. `OnceOnly`: closeOnce lets one Close in. `RoundInv`: until that Close drops the workers they are all there, so the round of stops it waits for is one for each of them, and a stop past its close has told its worker to quit. `ShutInv`: what follows in Close |
| `FixedPoolProofs!ClosedAcceptsNothing` | `Spec => NothingAcceptedAfterClose` | from the last conjunct of `ShutInv`: the channel of a closed pool is open only while its Close is about to close it |
| `FixedPoolProofs!NoPanicUnderContract` | `ContractSpec => []NoPanic` | a sufficient contract of use: one start, no submission during Start or Close. `ContractInv` = `StartedOnce`, with the context and the open channel that a submission under way finds |
| `DynamicPoolProofs!Typing` | `Spec => []TypeOK` | `TypeInv` = `IInv` below with `RoomInv` (who is about to start workers carries numbers of workers that exist) and `IdsInv` (the contexts of Starts under way) |
| `DynamicPoolProofs!SizeStaysInRange` | `Spec => []SizeInRange` | a ScaleUp reads the size in one step and appends in a later one, so the range alone is not inductive. `TargetInv`: until it appends, the slice is shorter than its target and the target not above `MaxWorkers` (by `LockInv`: a call is in a locked section exactly when it holds `mu`, so nobody else can be changing the slice; with `CallsInv` and `AskInv`, the types and targets of the calls). `ClosedInv`: a closed pool stays closed. `MembersInv`: no number is in the slice twice (`Grown` for the append), which makes the length the number of workers (`MembersCounted`) |
| `DynamicPoolProofs!RemovedAreAlwaysTold` | `Spec => []RemovedAreTold` | `ToldInv`. `RoundsInv`: the rounds of `Worker.Stop` are used one after the other, ask only workers that were made, and only asked ones have quit. `GoneInv`: the property itself, with the fact that a Close drops the workers after it has closed the channel. A worker leaves the slice in the step that launches its round, or in that Close |
| `DynamicPoolProofs!AddedAreAlwaysServing` | `Spec => []AddedAreServing` | `FreshInv`: of a pool that has not been started, or runs since its first Start (`Fresh`), the channel is open, no call is stopping it and no member was asked to stop (`Undisturbed`); a ScaleUp that saw it stopped is overlapped by the Start that will start its workers (`Coming`); and while no context is cancelled each member has a serving goroutine or a call that is about to start one (`Served`). `BegunInv`: nothing runs or is being started before the first Start |
| `FailureProofs!AttemptsStayWithinMax` | `Spec => []AttemptsWithinMax` | `AttemptsInv`: who is about to count an attempt, wait or work out a delay has one left |
| `FailureProofs!AverageBelongsToTotals`, `FailureProofs!StatisticsAddUp` | `Spec => []StatsAddUp`, the first of its average alone | `StatsInv`. `AverageInv`: the average is over as many executions as have ended, and no more attempts than are counted; every record and every reset rewrites both under the lock. `TotalsInv`: until a reset the attempts are the sum of those of the executions, and at least as many as executions have begun one; successes, failures and retries are the numbers of executions past the section that counts them (`TotalGrows` for the sum) |
| `FailureProofs!StaysInRange` | `DelaysSpec => []D!InRange` | the decorrelated part of `DelaysInRange`: the limit is an integer not above the cap whatever the product wraps to (`LimitBelowCap`); the floor does the rest |
| `FailureProofs!DelaysStayInRange` | `Callers = {c}` implies `DelaysSpec => []DelaysInRange` | `FormulaInv`: what is kept of the exponential and the linear delay is one the formula may give for the attempt and the configuration. The values of the recursive `Pow` are shown to exist (`PowIs`) and to grow (`PowGrows`), so a quotient of two powers is a number that stays on its side of the initial delay (`PowerSteps`, `PowerBounds`) until it overflows (`WrapIs`), and the cap bounds the rest. That is the delay before the jitter; `JitterStays` says how far each kind of jitter takes the answer: not past the maximum (full, equal), past it by at most the configured share (a policy's), or without a bound (exponential). With `StaysInRange` and `FibonacciInv` for the two delays that keep state. The hypothesis is that one goroutine uses the strategy: with two, `getFibonacci` panics (`Delays_two_callers`) |
| `FailureProofs!DelaysOnlyGrow` | `DelaysSpec => DelaysGrow` | `FormulaInv` before and after the step (`NextGrows`): where neither delay has overflowed, one more factor (`PowerSteps`) or summand does not lower it, or, for a factor below one, not raise it |
| `FailureProofs!CacheHoldsFibonacci` | `Callers = {c}` implies `DelaysSpec => []CacheIsFibonacci` | `FibonacciInv` = `CacheInv` (every entry whose Fibonacci number fits is that number, whatever those behind the overflow are) with `CallerInv` (how much of the cache the one call has seen filled). That the recursive `Fib` has the values of its equation is `FibIs`, from `FibReaches` and `FibUnique`; that it grows, so that an overflow is never followed by a number that fits, is `FibGrows` |
| `FailureProofs!VerdictsSurvive` | `ErrorsSpec => VerdictSurvivesWrapping` | for any roots and any depth. `ConditionDecides`: what the recursion over the layers returns is `Decided`, a property of the whole error, by induction on its length. Wrapping leaves the outermost mark where it was, or puts its own in front (`PipelineAround`) |
| `FailureProofs!Bindings` | `RegistrySpec => [](RegistryTypeOK /\ BindingsRegistered)` | inductive together with: a handler is registered under its own name only (part of the type) |
| `FailureProofs!HandlingIsARegistry` | `HandlingSpec => RegistrySpec` | the goroutines that call handlers leave the registry as it is, so `Bindings` is true of them as well |
| `FailureProofs!AnswersAreKept` | `HandlingSpec => []CanHandleAgrees` | `CallsInv`: the answer a goroutine has still is what CanHandle says, unless the list of types has changed since; and for a plain type CanHandle and HandleError look it up alike |
| `FunctionalProofs!AnswersAreOfOneAttempt`, `FunctionalProofs!AttemptsDoNotOverlap` | `Program => []AnswersOfOneAttempt`, `Program => []OneAttemptAtATime` | inductive with `ClosedInv` (a done channel is closed after both branches have stored, and the caller is past its select only with a closed one), `FreshInv` (the branches of an attempt are those of its own call) and `QuietInv` (while the context lasts only the attempt the caller waits for runs) |
| `FunctionalProofs!ChainsRunWhatWasComposed` | `Program => []RunsWhatWasComposed` | `SlicesInv`. `ChainsInv`: a chain with an array of its own finds its steps in it, and a builder, which appends in place, shares its array with nobody. `ListInv`: the list of the caller keeps its length and holds steps. `RunInv`: an execution under way has applied a prefix of the steps of its chain |
| `FunctionalProofs!TasksEndForAReason` | `Program => []DoneForAReason` | `TimedInv`: the context of an execution is cancelled only when its parent or the timeout has ended, or by its own cleanup |
| `PipelineProofs!AttemptsAreBounded` | `Spec => []AttemptsBounded` | inductive with `JobsInv`: an Execute that may come back to the loop has a call left, in its configuration and in its policy, from the check on until the next call of the process function |
| `PipelineProofs!GoesForward` | `Spec => NeverBack` | `StateGrows`, one case per compare-and-swap and store |
| `PipelineProofs!BatchesKeepContract` | `BatchesSpec => ImplementsContract` | refinement of `BatchContract`, an invariant for each of the three that serve the inputs and one lemma for what each step of the contract takes (`BeginStep` … `CloseStep`, `NoStep`). `WorkInv`: an input is in one place at most (`WorkPlaces`), and until the context ends none is lost and no worker leaves before the channel is closed and empty (`WorkIsKept`); a worker that asks for work leaves room for one more execution (`RoomForOne`). `AsyncInv`: the semaphore counts the goroutines between Acquire and Release. `CallsInv`: a call has an answer exactly when it has sent one. In all three, what is sent is what was filled in for that input, because it goes back to the pool in the same step or later (`SentIs`) |
| `PriorityPoolProofs!QueueStatsAdd` | `QueueSpec => []StatsAccountForTasks` | `QueueInv`, of which each of the three theorems on the queue takes its part. `BoostsInv`: boosts are whole steps, only of tasks that were queued, and the promotions are their sum (`TotalGrows`). `HeapInv`: a task is in the heap exactly while it is queued, once, and the heap is in order. `CountersInv`: what came, left and waits. `WaitsInv`: the waits add up to no more than the longest for each task that left. The operations of the heap only permute it (`PushKeeps`, `PopKeeps`, `InitKeeps`) |
| `PriorityPoolProofs!DequeueTakesHighest` | `QueueSpec => []TakesHighest` | the order of `HeapInv`, from which the root is first (`RootIsFirst`). `UpOrders` and `DownOrders` say that `Up` and `Down` put in order a heap that is in order but for one element and its parent, or its children; `HeapInitOrders` that `heap.Init` orders any |
| `PriorityPoolProofs!SeniorityHolds` | `QueueSpec => []OlderIsBoostedMore` | `SeniorInv`: the property with the fact that nothing has a number still to be given. A promotion goes through the whole heap, and what makes a task wait long enough for it makes an older one, too |
| `PriorityPoolProofs!InOnePlaceHolds` | `Spec => []InOnePlace` | for any number of starts, where the run has one. `HandsInv`: a scheduler or a worker has a task in hand exactly between the steps that take it and pass it on. `FreshInv`: each Start's scheduler is a new one, so that none is replaced with a task in hand |

**Sums and induction.** The induction theorems of the library take a predicate as an operator,
which the provers cannot instantiate. `Sums` states induction with the *set* of the
numbers (`NaturalInduction`) or of the subsets of a finite set (`SetInduction`) that satisfy
it, and proves both from `WFMin`, which takes sets. With them the recursive function inside
`MapThenSumSet` is shown to exist (`AccumulatedExists`), and its value to grow by what each element adds
(`TotalGrows`). That is what the theorems on statistics and boosts rest on. `MeasureInduction` is
induction on a number that a step lowers, and `LoopExists` shows with it that a recursive function which
calls itself on a smaller measure has the values of its equation: `Up`, `Down` and `Init` of
`container/heap` are such loops. The recursive functions on numbers (`Fib`, `Pow`, the layers of
`Condition`) get theirs by `NaturalInduction`.

**Only model-checked:** the liveness properties, since fairness and ENABLED are beyond the prover:
`AcceptedIsExecuted`, `CallsReturn` (of the fixed and the dynamic pool and of the pipeline),
`SubmissionsAnswered`, `WorkersExit`, `BatchEnds`, `ExecutionsEnd`, `CallReturns` and
`EndReachesTask`. Every other property of the passing runs is a theorem; for the two that are stated
of one goroutine, the run has one as well.

## 6. The code against its documents

Three disagreements are runs whose expected result is a violation:

- `FixedPool_submit_panics`: a Submit past its state check sends on the channel
  that Close has closed, and panics, where `worker/doc.go` promises concurrency
  safety and a test expects an error.
- `PriorityQueue_boost`: the starvation guard compares a boost with `MaxPriorityBoost` before it adds
  `PriorityBoostAmount`, so with an amount of 2 and a maximum of 3 a boost is 4, where `priority.go:168` speaks of
  the maximum priority boost value and `priority_test.go:263` asserts that a boost does not exceed it.
- `Delays_two_callers`: `getFibonacci` checks the length of its cache and then indexes it,
  with a Reset by another goroutine in between it panics, where `retry/doc.go` calls
  all public types thread-safe.

The models behave as the code does, so they also reach what follows. The
properties are stated so that they hold beside it; each was seen in a
counterexample to a stronger statement.

- **Pools.** Stop returns nil while a worker executes, because the timeout of
  `Worker.Stop` is dropped (hence the condition in `StopWaitsForWorker`). A Close that
  fails uses up `closeOnce`: the next one says nil and closes nothing. A Submit between
  the first two steps of Start uses a nil context and panics. After Stop
  and Start a worker may have two goroutines, of which the second to end panics, and
  the worker shows the state that either stored last. A task between its receive and its
  count is in no sum of Stats.
- **Dynamic pool.** ScaleUp and an overlapping Start both start a new worker. A worker added
  between Stop and the loop of an overtaken Start runs on in a stopped pool.
- **Priority pool.** `StarvationDetected` counts promotions, not tasks, and the counts by priority
  go by what a task was enqueued with. The queue length it reports misses the task in the
  scheduler's hands. A panicking task ends its worker. "Unlimited" (`QueueCapacity` −1) makes
  an unbuffered channel, so a Submit without a timeout is refused as full while the
  scheduler is not waiting. The bounded channel is emptied into an
  unbounded heap. A cancelled context does not wake waiting workers. After Stop and
  Start the pool may run without workers, and with restarts a worker may fail to exit, which is why
  `WorkersExit` is checked with one start.
- **Pipeline.** Stop may signal on a channel that Close has closed. With a Start between
  Stop's two compare-and-swaps Stop returns nil and the pipeline runs. A job in its
  process function keeps retrying after Stop. The select may take the timer
  although the context is done. Attempts are counted from 0, so a policy of n
  attempts allows n + 1 calls, and the first delay is not the initial one.
- **Batches.** With `Concurrency` 0 a batch of `AsyncPipeline` never ends. A pooled result
  comes from a pool made for the call, so that nothing is ever reused.
- **Error handlers.** CanHandle and HandleError disagree on types with a `Timeout` or
  `Temporary` method. Removing the last listed type makes the handler ignore everything.
- **Calls.** The select between two attempts may take the timer although the context is done;
  the new attempt then runs beside the old one. The error of `WithRetry` reports
  all attempts as made, also when a fatal error ended the loop at the first.
  `NewArrayChain(list...)` and `ChainVariadic(list...)` keep the slice of the caller and change with it.
- **Timed tasks.** `mergedCancel` does not wake the helper (a comment at task.go:129
  expects it to), so an Execute that ends normally takes 100 ms longer, and its helper
  stays until a context ends.
- **Retried errors.** A wrapper other than `PipelineError` hides a retryable root from
  `DefaultRetryCondition`. `WithRetry` of the combinators asks for a method `IsRetryable`,
  which `types.RetryableError` does not have.
- **Statistics.** The average counts attempts of executions that have not ended;
  after a reset it may be below one.
- **Delays.** Jitter is applied after the maximum, which an answer of NextDelay may therefore pass: without a
  bound with exponential jitter, by its share with the jitter of a policy. `retry/doc.go:96` speaks of
  "maximum delay limits to prevent excessive waiting" and `WithBackoffMaxDelay` of the maximum delay time, so
  `DelaysInRange` is about the delay before the jitter, and says what each jitter adds. A power, a sum or a product that overflows may be negative, that is, no delay. `EqualJitter` of one
  nanosecond panics. Two callers of one Fibonacci strategy may also append a number twice.

## 7. What is not modelled

- **Types** (`pkg/types`): interfaces, configurations and the clock, no behaviour beyond
  the calls the other models make. Its errors are `RetryErrors`, its results and their pools
  `ResultPool`. The error pool is used by nothing.
- **TestUtils, Examples.**
- The combinators without state (Conditional, Tap, the filters, HandleErrors), which are one call.
- In modelled components: logging, error wording, the error chains with their contexts and the
  listing methods (including `GetTasksByPriority`), the global registry, event handlers of the executor, the
  custom delays (whatever their function returns), the rates and times in the statistics,
  and the unbuffered channel of a priority pool (`QueueCapacity` −1).
- User code: task, process and handler functions are a free choice of
  result; a handler that panics ends the process and is not modelled.

## 8. Plan

Done first, in this order: the fixed pool (the most used and the least locked),
the dynamic pool, the priority queue and its pool, the pipeline, the batches, the
handlers, the executor, the delays, the combinators and chains; then the errors and the
jitter of `pkg/retry`, timed tasks, asynchronous calls and their results, and the
statistics of the pool and the queue. Left:

1. **Models.** An abstract specification of `Calls` ("both results of one attempt, or an
   error") for it to refine; the priority pool over an unbuffered channel (the send and the
   receive as one step of two goroutines).
2. **Proofs.** The specification of the first point and its refinement; `InOnePlace` as a
   refinement of `TaskLedger`; what makes liveness true as a safety property, such as that a task
   in the heap of a running priority pool has a worker that is awake or a signal on its way.
3. **Runs.** A pipeline whose process function submits to a pool, if a bound can
   be found at which it finishes.
