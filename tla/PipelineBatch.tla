---------------------------- MODULE PipelineBatch ----------------------------
(***************************************************************************)
(* pipeline.ExecuteBatch (pkg/pipeline/pipeline.go): config.Workers        *)
(* goroutines take the inputs from a channel that one more goroutine       *)
(* fills, and the result channel is closed when all workers are done.      *)
(* A worker in Execute returns at some time, with a result or an error     *)
(* (CallsReturn of Pipeline).                                              *)
(***************************************************************************)
EXTENDS ResultPool

CONSTANT Workers

VARIABLES
  workChan,  \* the inputs in workChan, whose capacity is N
  open,      \* workChan is not closed
  next,      \* the next input the sender sends
  worker,    \* where each worker is, and the input it works on
  inHand,    \* pooledResult of each worker
  got,       \* the values of the results sent to resultChan, by their index
  ctxDone,   \* the context of the batch is done
  closed     \* resultChan is closed

vars == <<workChan, open, next, worker, inHand, got, ctxDone, closed>>

At(pc, i) == [pc |-> pc, input |-> i]
Executing == {worker[w].input : w \in {v \in Workers : worker[v].pc = "execute"}}

Init ==
  /\ workChan = <<>>
  /\ open = TRUE
  /\ next = 1
  /\ worker = [w \in Workers |-> At("receive", 0)]
  /\ inHand = [w \in Workers |-> Zero]
  /\ got = [i \in Inputs |-> <<>>]
  /\ ctxDone = FALSE
  /\ closed = FALSE
-----------------------------------------------------------------------------
Becomes(w, s) == worker' = [worker EXCEPT ![w] = s]

\* The sender: workChan holds all inputs, so only the context can end it early.
Send ==
  /\ open
  /\ next <= N
  /\ \/ /\ Len(workChan) < N
        /\ workChan' = Append(workChan, next)
        /\ next' = next + 1
        /\ UNCHANGED open
     \/ /\ ctxDone
        /\ open' = FALSE
        /\ UNCHANGED <<workChan, next>>
  /\ UNCHANGED <<worker, inHand, got, ctxDone, closed>>

\* Mutant: workChan is never closed.
SendDoneOpen == FALSE

SendDone ==
  /\ open
  /\ next = N + 1
  /\ open' = FALSE
  /\ UNCHANGED <<workChan, next, worker, inHand, got, ctxDone, closed>>

Receive(w) ==
  /\ worker[w].pc = "receive"
  /\ \/ /\ workChan # <<>>
        /\ Becomes(w, At("execute", Head(workChan)))
        /\ workChan' = Tail(workChan)
     \/ /\ workChan = <<>> /\ ~open
        /\ Becomes(w, At("done", 0))
        /\ UNCHANGED workChan
  /\ UNCHANGED <<open, next, inHand, got, ctxDone, closed>>

Execute(w) ==
  /\ worker[w].pc = "execute"
  /\ Becomes(w, At("send", worker[w].input))
  /\ inHand' = [inHand EXCEPT ![w] = Filled(worker[w].input)]
  /\ UNCHANGED <<workChan, open, next, got, ctxDone, closed>>

\* Mutant: a worker keeps its result for another turn.
DeliverTwice(w) ==
  /\ worker[w].pc = "send"
  /\ got' = Sent(got, inHand[w])
  /\ \E pc \in {"receive", "send"} : Becomes(w, At(pc, worker[w].input))
  /\ UNCHANGED <<workChan, open, next, inHand, ctxDone, closed>>

\* Mutant: the result goes back to the pool before it is sent.
DeliverAfterPut(w) ==
  /\ worker[w].pc = "send"
  /\ got' = Sent(got, Put(inHand[w]))
  /\ Becomes(w, At("receive", 0))
  /\ inHand' = [inHand EXCEPT ![w] = Put(@)]
  /\ UNCHANGED <<workChan, open, next, ctxDone, closed>>

\* resultChan holds all results: the send never waits.
Deliver(w) ==
  /\ worker[w].pc = "send"
  /\ \/ got' = Sent(got, inHand[w]) /\ Becomes(w, At("receive", 0))
     \/ ctxDone /\ Becomes(w, At("done", 0)) /\ UNCHANGED got
  /\ inHand' = [inHand EXCEPT ![w] = Put(@)]
  /\ UNCHANGED <<workChan, open, next, ctxDone, closed>>

\* Mutant: the channel is closed when the work is handed out.
CloseEarly ==
  /\ ~closed
  /\ ~open /\ workChan = <<>>
  /\ closed' = TRUE
  /\ UNCHANGED <<workChan, open, next, worker, inHand, got, ctxDone>>

\* wg.Wait, then the deferred close of resultChan.
Close ==
  /\ ~closed
  /\ \A w \in Workers : worker[w].pc = "done"
  /\ closed' = TRUE
  /\ UNCHANGED <<workChan, open, next, worker, inHand, got, ctxDone>>

Cancel ==
  /\ ~ctxDone
  /\ ctxDone' = TRUE
  /\ UNCHANGED <<workChan, open, next, worker, inHand, got, closed>>
-----------------------------------------------------------------------------
WorkerStep(w) == Receive(w) \/ Execute(w) \/ Deliver(w)

Next == Send \/ SendDone \/ Close \/ Cancel \/ \E w \in Workers : WorkerStep(w)
=============================================================================
