------------------------------- MODULE Worker -------------------------------
(***************************************************************************)
(* One worker of a pool (pkg/worker/worker.go): the goroutine that runs    *)
(* Worker.Start over the shared task channel, and the goroutines that run  *)
(* Worker.Stop.  FixedPool and DynamicPool are built on this module.       *)
(*                                                                         *)
(* Nothing stops a Worker from being started twice, so the goroutines of a *)
(* worker are numbered: run <<w, s>> is the s-th goroutine of worker w.    *)
(* A context is a number: the context made by the g-th Start is g, and 0   *)
(* is the nil context a pool holds before its first Start.                 *)
(***************************************************************************)
EXTENDS Naturals, Sequences, FiniteSets

CONSTANTS
  Workers,    \* the workers that may ever be created
  Tasks,      \* the submissions: each is one task submitted by one call
  NoTask,     \* the "no task" of a goroutine with empty hands
  QueueSize,  \* capacity of the task channel
  MaxStarts,  \* bound: successful pool starts, so contexts created
  MaxRuns,    \* bound: goroutines one worker may get
  MaxStops    \* bound: rounds of Worker.Stop calls

ASSUME WorkerAssumption ==
  /\ IsFiniteSet(Workers)        \* the constructors make a slice of workers
  /\ NoTask \notin Tasks
  /\ QueueSize \in Nat \ {0}     \* the constructors refuse QueueSize <= 0
  /\ MaxStarts \in Nat
  /\ MaxRuns \in Nat
  /\ MaxStops \in Nat

Gens  == 1..MaxStarts
Runs  == Workers \X (1..MaxRuns)
Stops == 1..MaxStops

VARIABLES
  queue,      \* the buffered tasks of the channel
  chanOpen,   \* FALSE once close(taskChan) has run
  cancelled,  \* the contexts that are cancelled
  run,        \* the goroutines of the workers
  wstate,     \* Worker.state
  quit,       \* quit[w]: Worker.quit is closed
  done,       \* done[w]: Worker.done is closed
  processed,  \* Worker.totalProcessed
  failed,     \* Worker.totalFailed
  executed,   \* history: how often each task was executed to its end
  stopper,    \* stopper[k][w]: the k-th round's call of w.Stop
  panic       \* the panic that killed the process, or "none"

workerVars == <<run, wstate, quit, done, processed, failed, executed>>
chanVars   == <<queue, chanOpen>>

RunPC == {"none", "select", "received", "executing", "counted", "exiting", "exited"}
StopPC == {"none", "check", "close", "wait", "nil", "timeout"}
Panics == {"none", "send on closed channel", "close of closed channel",
           "nil context"}

WorkerTypeOK ==
  /\ queue \in Seq(Tasks)
  /\ chanOpen \in BOOLEAN
  /\ cancelled \in SUBSET Gens
  /\ run \in [Runs -> [pc : RunPC, ctx : Gens \cup {0}, task : Tasks \cup {NoTask}]]
  /\ wstate \in [Workers -> {"idle", "working", "stopped"}]
  /\ quit \in [Workers -> BOOLEAN]
  /\ done \in [Workers -> BOOLEAN]
  /\ processed \in [Workers -> Nat]
  /\ failed \in [Workers -> Nat]
  /\ executed \in [Tasks -> Nat]
  /\ stopper \in [Stops -> [Workers -> StopPC]]
  /\ panic \in Panics

NoRun == [pc |-> "none", ctx |-> 0, task |-> NoTask]

WorkerInit ==
  /\ queue = <<>>
  /\ chanOpen = TRUE
  /\ cancelled = {}
  /\ run = [r \in Runs |-> NoRun]
  /\ wstate = [w \in Workers |-> "idle"]
  /\ quit = [w \in Workers |-> FALSE]
  /\ done = [w \in Workers |-> FALSE]
  /\ processed = [w \in Workers |-> 0]
  /\ failed = [w \in Workers |-> 0]
  /\ executed = [t \in Tasks |-> 0]
  /\ stopper = [k \in Stops |-> [w \in Workers |-> "none"]]
  /\ panic = "none"

-----------------------------------------------------------------------------
(***************************************************************************)
(* `go worker.Start(ctx)`.  The number of goroutines of a worker is        *)
(* bounded by MaxRuns.                                                     *)
(***************************************************************************)
Spawn(w, g) ==
  \E s \in 1..MaxRuns :
    /\ run[<<w, s>>].pc = "none"
    /\ \A s2 \in 1..(s-1) : run[<<w, s2>>].pc # "none"
    /\ run' = [run EXCEPT ![<<w, s>>] = [pc |-> "select", ctx |-> g, task |-> NoTask]]

\* Mutant: the quit case is missing from the select.
StopSeenNoQuit(r) == run[r].ctx \in cancelled \/ (~chanOpen /\ queue = <<>>)

\* Mutant: the closed channel is told from an empty one no more.
StopSeenWhenEmpty(r) == run[r].ctx \in cancelled \/ quit[r[1]] \/ queue = <<>>

(***************************************************************************)
(* The select of Worker.Start.  Go picks at random among the ready cases,  *)
(* so a worker whose context is cancelled may still take a task.           *)
(***************************************************************************)
StopSeen(r) ==
  \/ run[r].ctx \in cancelled
  \/ quit[r[1]]
  \/ ~chanOpen /\ queue = <<>>

ObserveStop(r) ==
  /\ run[r].pc = "select"
  /\ StopSeen(r)
  /\ run' = [run EXCEPT ![r].pc = "exiting"]
  /\ wstate' = [wstate EXCEPT ![r[1]] = "stopped"]
  /\ UNCHANGED <<chanVars, cancelled, quit, done, processed, failed, executed,
                 stopper, panic>>

\* The deferred close(w.done) of Worker.Start.
CloseDone(r) ==
  /\ run[r].pc = "exiting"
  /\ run' = [run EXCEPT ![r].pc = "exited"]
  /\ IF done[r[1]]
     THEN panic' = "close of closed channel" /\ UNCHANGED done
     ELSE done' = [done EXCEPT ![r[1]] = TRUE] /\ UNCHANGED panic
  /\ UNCHANGED <<chanVars, cancelled, wstate, quit, processed, failed, executed,
                 stopper>>

\* Mutant: a task received after the cancellation is thrown away.
ReceiveDrops(r) ==
  /\ run[r].pc = "select"
  /\ queue # <<>>
  /\ run' = IF run[r].ctx \in cancelled
            THEN [run EXCEPT ![r].pc = "exiting"]
            ELSE [run EXCEPT ![r].pc = "received", ![r].task = Head(queue)]
  /\ queue' = Tail(queue)
  /\ UNCHANGED <<chanOpen, cancelled, wstate, quit, done, processed, failed,
                 executed, stopper, panic>>

Receive(r) ==
  /\ run[r].pc = "select"
  /\ queue # <<>>
  /\ run' = [run EXCEPT ![r].pc = "received", ![r].task = Head(queue)]
  /\ queue' = Tail(queue)
  /\ UNCHANGED <<chanOpen, cancelled, wstate, quit, done, processed, failed,
                 executed, stopper, panic>>

\* Mutant: the task is abandoned when the context is cancelled meanwhile.
BeginTaskAbandons(r) ==
  /\ run[r].pc = "received"
  /\ run' = IF run[r].ctx \in cancelled
            THEN [run EXCEPT ![r].pc = "select", ![r].task = NoTask]
            ELSE [run EXCEPT ![r].pc = "executing"]
  /\ wstate' = [wstate EXCEPT ![r[1]] = "working"]
  /\ UNCHANGED <<chanVars, cancelled, quit, done, processed, failed, executed,
                 stopper, panic>>

BeginTask(r) ==
  /\ run[r].pc = "received"
  /\ run' = [run EXCEPT ![r].pc = "executing"]
  /\ wstate' = [wstate EXCEPT ![r[1]] = "working"]
  /\ UNCHANGED <<chanVars, cancelled, quit, done, processed, failed, executed,
                 stopper, panic>>

\* Mutant: an error is handled and not counted.
FinishTaskUncounted(r) ==
  /\ run[r].pc = "executing"
  /\ processed' \in {processed, [processed EXCEPT ![r[1]] = @ + 1]}
  /\ executed' = [executed EXCEPT ![run[r].task] = @ + 1]
  /\ run' = [run EXCEPT ![r].pc = "counted", ![r].task = NoTask]
  /\ UNCHANGED <<chanVars, cancelled, wstate, quit, done, failed, stopper, panic>>

(***************************************************************************)
(* The task returns, with an error or not.  A panic of the task is         *)
(* recovered by executeTask and becomes an error.                          *)
(***************************************************************************)
FinishTask(r) ==
  /\ run[r].pc = "executing"
  /\ \/ /\ processed' = [processed EXCEPT ![r[1]] = @ + 1]
        /\ UNCHANGED failed
     \/ /\ failed' = [failed EXCEPT ![r[1]] = @ + 1]
        /\ UNCHANGED processed
  /\ executed' = [executed EXCEPT ![run[r].task] = @ + 1]
  /\ run' = [run EXCEPT ![r].pc = "counted", ![r].task = NoTask]
  /\ UNCHANGED <<chanVars, cancelled, wstate, quit, done, stopper, panic>>

\* The deferred return to the idle state, after which the loop goes round.
EndTask(r) ==
  /\ run[r].pc = "counted"
  /\ run' = [run EXCEPT ![r].pc = "select"]
  /\ wstate' = [wstate EXCEPT ![r[1]] = "idle"]
  /\ UNCHANGED <<chanVars, cancelled, quit, done, processed, failed, executed,
                 stopper, panic>>

RunStep(r) ==
  \/ ObserveStop(r) \/ CloseDone(r) \/ Receive(r)
  \/ BeginTask(r) \/ FinishTask(r) \/ EndTask(r)

-----------------------------------------------------------------------------
(***************************************************************************)
(* Worker.Stop.  Testing quit and closing it are two steps of the code.    *)
(* Time is not modelled: the 5 s timer may fire at any moment of the wait. *)
(***************************************************************************)
StopPCSet(k, w, pc) == stopper' = [stopper EXCEPT ![k][w] = pc]

StopCheckQuit(k, w) ==
  /\ stopper[k][w] = "check"
  /\ StopPCSet(k, w, IF quit[w] THEN "nil" ELSE "close")
  /\ UNCHANGED <<chanVars, cancelled, workerVars, panic>>

StopCloseQuit(k, w) ==
  /\ stopper[k][w] = "close"
  /\ StopPCSet(k, w, "wait")
  /\ IF quit[w]
     THEN panic' = "close of closed channel" /\ UNCHANGED quit
     ELSE quit' = [quit EXCEPT ![w] = TRUE] /\ UNCHANGED panic
  /\ UNCHANGED <<chanVars, cancelled, run, wstate, done, processed, failed, executed>>

\* Mutant: Worker.Stop does not wait for done.
StopWaitNothing(k, w) ==
  /\ stopper[k][w] = "wait"
  /\ StopPCSet(k, w, "nil")
  /\ UNCHANGED <<chanVars, cancelled, workerVars, panic>>

StopWaitDone(k, w) ==
  /\ stopper[k][w] = "wait"
  /\ done[w]
  /\ StopPCSet(k, w, "nil")
  /\ UNCHANGED <<chanVars, cancelled, workerVars, panic>>

StopTimeout(k, w) ==
  /\ stopper[k][w] = "wait"
  /\ StopPCSet(k, w, "timeout")
  /\ UNCHANGED <<chanVars, cancelled, workerVars, panic>>

StopStep(k, w) ==
  \/ StopCheckQuit(k, w) \/ StopCloseQuit(k, w)
  \/ StopWaitDone(k, w) \/ StopTimeout(k, w)

\* The k-th round of Worker.Stop calls is over for every worker.
StopsReturned(k) == \A w \in Workers : stopper[k][w] \in {"none", "nil", "timeout"}

\* Worker.Stats, without the time of the last task.
WorkerStats(w) == [State          |-> wstate[w],
                   TotalProcessed |-> processed[w],
                   TotalFailed    |-> failed[w]]

\* The task a goroutine has in its hands, between the receive and the return.
Holds(r, t) == run[r].task = t

Live(r) == run[r].pc \notin {"none", "exited"}

=============================================================================
