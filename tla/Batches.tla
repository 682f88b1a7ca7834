------------------------------- MODULE Batches -------------------------------
(***************************************************************************)
(* What a caller has who wants the results of several inputs: a pipeline   *)
(* or an AsyncPipeline and their ExecuteBatch (both are a PipelineExecutor *)
(* of pkg/types/interfaces.go), or a call of ExecuteAsync for each input.  *)
(* got, ctxDone and closed are what the reader sees of all three.          *)
(***************************************************************************)
EXTENDS ResultPool, FiniteSets

CONSTANTS Workers, Concurrency

\* With Concurrency zero the semaphore has no place and no batch ever ends.
ASSUME BatchesAssumption ==
  /\ N \in Nat \ {0}
  /\ IsFiniteSet(Workers) /\ Workers # {}
  /\ Concurrency \in Nat \ {0}

VARIABLES
  impl,                             \* which of the three serves the inputs, if any
  workChan, open, next, worker, inHand, \* PipelineBatch
  spawned, task, semaphore,         \* AsyncBatch
  async,                            \* AsyncCalls
  begun,                            \* the inputs whose execution has begun
  pooled,                           \* AsyncBatch, AsyncCalls
  got, ctxDone, closed

pipelineVars == <<workChan, open, next, worker, inHand>>
asyncVars == <<spawned, task, semaphore>>
batchVars == <<impl, pipelineVars, asyncVars, async, begun, pooled, got, ctxDone, closed>>

Pipelined == INSTANCE PipelineBatch
Async     == INSTANCE AsyncBatch
Single    == INSTANCE AsyncCalls

pipelined == Pipelined!vars
asynced   == Async!vars
called    == Single!vars

Executing == CASE impl = "pipeline" -> Pipelined!Executing
               [] impl = "async"    -> Async!Executing
               [] OTHER             -> Single!Executing

Limit == CASE impl = "pipeline" -> Cardinality(Workers)
           [] impl = "async"    -> Concurrency
           [] OTHER             -> N

Contract == INSTANCE BatchContract
  WITH limit <- Limit, lossy <- (impl # "calls"), executing <- Executing

NothingBegun ==
  /\ Pipelined!Init /\ Async!Init /\ Single!Init
  /\ begun = {}

BatchesInit == impl \in {"pipeline", "async", "calls"} /\ NothingBegun

BatchesNext ==
  /\ \/ impl = "pipeline" /\ Pipelined!Next /\ UNCHANGED <<asyncVars, async, pooled>>
     \/ impl = "async" /\ Async!Next /\ UNCHANGED <<pipelineVars, async>>
     \/ impl = "calls" /\ Single!Next /\ UNCHANGED <<pipelineVars, asyncVars>>
  /\ UNCHANGED impl
  /\ begun' = begun \cup Executing'

(***************************************************************************)
(* Every goroutine of a batch runs on, Execute returns, the caller of      *)
(* ExecuteAsync makes all calls, and a goroutine that waits for the        *)
(* semaphore is served: channels are first in, first out.                  *)
(***************************************************************************)
BatchesFairness ==
  /\ WF_pipelined(impl = "pipeline" /\ (Pipelined!Send \/ Pipelined!SendDone))
  /\ WF_pipelined(impl = "pipeline" /\ Pipelined!Close)
  /\ \A w \in Workers : WF_pipelined(impl = "pipeline" /\ Pipelined!WorkerStep(w))
  /\ WF_asynced(impl = "async" /\ Async!Spawn)
  /\ WF_asynced(impl = "async" /\ Async!Close)
  /\ \A i \in Inputs : /\ SF_asynced(impl = "async" /\ Async!Acquire(i))
                       /\ WF_asynced(impl = "async" /\ Async!TaskStep(i))
                       /\ WF_called(impl = "calls" /\ Single!CallStep(i))

BatchesSpec == BatchesInit /\ [][BatchesNext]_batchVars /\ BatchesFairness
-----------------------------------------------------------------------------
\* The reader gets what BatchContract promises, whatever the workers, the sender
\* and the goroutines past the semaphore do when the context ends, and though
\* the results are reset for the pool (ExecuteBatch, ExecuteAsync).
ImplementsContract == Contract!Spec

\* The result channel is closed, and the sender goes on to the end: it is never
\* left behind in a send after the workers are gone, although nobody waits for it
\* (ExecuteBatch, ExecuteAsync).
BatchEnds == impl # "none" => <>closed /\ (impl = "pipeline" => <>[](~open))
=============================================================================
