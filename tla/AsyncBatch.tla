----------------------------- MODULE AsyncBatch -----------------------------
(***************************************************************************)
(* AsyncPipeline.ExecuteBatch (pkg/pipeline/async.go): one goroutine for   *)
(* each input, which holds a place of a semaphore of Concurrency places    *)
(* while it executes and sends its result.                                 *)
(***************************************************************************)
EXTENDS ResultPool

CONSTANT Concurrency

VARIABLES
  spawned,   \* the goroutines of inputs 1..spawned have been started
  task,      \* where each goroutine is
  semaphore, \* the places taken
  pooled,    \* pooledResult of each goroutine
  got,       \* the values of the results sent to resultChan, by their index
  ctxDone,   \* the context of the batch is done
  closed     \* resultChan is closed

vars == <<spawned, task, semaphore, pooled, got, ctxDone, closed>>

Executing == {i \in Inputs : task[i] = "execute"}

Init ==
  /\ spawned = 0
  /\ task = [i \in Inputs |-> "acquire"]
  /\ semaphore = 0
  /\ pooled = [i \in Inputs |-> Zero]
  /\ got = [i \in Inputs |-> <<>>]
  /\ ctxDone = FALSE
  /\ closed = FALSE
-----------------------------------------------------------------------------
Move(i, from, to) == i <= spawned /\ task[i] = from /\ task' = [task EXCEPT ![i] = to]

Spawn ==
  /\ spawned < N
  /\ spawned' = spawned + 1
  /\ UNCHANGED <<task, semaphore, pooled, got, ctxDone, closed>>

\* Mutant: the channel of the semaphore has one place too many.
AcquireOneMore(i) ==
  /\ Move(i, "acquire", "execute")
  /\ semaphore <= Concurrency
  /\ semaphore' = semaphore + 1
  /\ UNCHANGED <<spawned, pooled, got, ctxDone, closed>>

Acquire(i) ==
  /\ Move(i, "acquire", "execute")
  /\ semaphore < Concurrency
  /\ semaphore' = semaphore + 1
  /\ UNCHANGED <<spawned, pooled, got, ctxDone, closed>>

Execute(i) ==
  /\ Move(i, "execute", "send")
  /\ pooled' = [pooled EXCEPT ![i] = Filled(i)]
  /\ UNCHANGED <<spawned, semaphore, got, ctxDone, closed>>

\* resultChan holds all results: the send never waits.
Deliver(i) ==
  /\ Move(i, "send", "release")
  /\ got' = Sent(got, pooled[i]) \/ (ctxDone /\ UNCHANGED got)
  /\ pooled' = [pooled EXCEPT ![i] = Put(@)]
  /\ UNCHANGED <<spawned, semaphore, ctxDone, closed>>

\* Mutant: a goroutine whose context ended keeps its place.
ReleaseUnlessDone(i) ==
  /\ Move(i, "release", "done")
  /\ semaphore' = IF got[i] # <<>> THEN semaphore - 1 ELSE semaphore
  /\ UNCHANGED <<spawned, pooled, got, ctxDone, closed>>

\* The deferred receive from the semaphore, then wg.Done.
Release(i) ==
  /\ Move(i, "release", "done")
  /\ semaphore' = semaphore - 1
  /\ UNCHANGED <<spawned, pooled, got, ctxDone, closed>>

\* Mutant: wg.Add is called by the goroutines themselves.
CloseStarted ==
  /\ ~closed
  /\ spawned = N
  /\ \A i \in Inputs : task[i] \in {"acquire", "done"}
  /\ closed' = TRUE
  /\ UNCHANGED <<spawned, task, semaphore, pooled, got, ctxDone>>

\* wg.Wait, then the deferred close of resultChan.
Close ==
  /\ ~closed
  /\ spawned = N
  /\ \A i \in Inputs : task[i] = "done"
  /\ closed' = TRUE
  /\ UNCHANGED <<spawned, task, semaphore, pooled, got, ctxDone>>

Cancel ==
  /\ ~ctxDone
  /\ ctxDone' = TRUE
  /\ UNCHANGED <<spawned, task, semaphore, pooled, got, closed>>
-----------------------------------------------------------------------------
TaskStep(i) == Acquire(i) \/ Execute(i) \/ Deliver(i) \/ Release(i)

Next == Spawn \/ Close \/ Cancel \/ \E i \in Inputs : TaskStep(i)
=============================================================================
