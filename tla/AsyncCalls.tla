----------------------------- MODULE AsyncCalls -----------------------------
(***************************************************************************)
(* One call of ExecuteAsync for each input (pkg/pipeline/pipeline.go,      *)
(* async.go and pkg/retry/executor.go): a goroutine and a channel with     *)
(* room for its one result, which the end of the context does not lose.    *)
(* The executor of retries sends a result that is no object of a pool.     *)
(***************************************************************************)
EXTENDS ResultPool

VARIABLES
  async,   \* where each call is
  pooled,  \* pooledResult of each goroutine
  got,     \* the values of the results sent, by the call
  ctxDone, \* the context of the calls is done
  closed   \* every channel is closed

vars == <<async, pooled, got, ctxDone, closed>>

Executing == {i \in Inputs : async[i] = "execute"}

Init ==
  /\ async = [i \in Inputs |-> "idle"]
  /\ pooled = [i \in Inputs |-> Zero]
  /\ got = [i \in Inputs |-> <<>>]
  /\ ctxDone = FALSE
  /\ closed = FALSE
-----------------------------------------------------------------------------
Move(i, from, to) == async[i] = from /\ async' = [async EXCEPT ![i] = to]

ExecuteAsync(i) ==
  /\ Move(i, "idle", "execute")
  /\ UNCHANGED <<pooled, got, ctxDone, closed>>

\* A call whose context is done returns an error, which is its result.
Execute(i) ==
  /\ Move(i, "execute", "send")
  /\ pooled' = [pooled EXCEPT ![i] = Filled(i)]
  /\ UNCHANGED <<got, ctxDone, closed>>

\* What the channel of the call holds, which says of what it is the result.
Answer(i) == [got EXCEPT ![i] = Append(@, pooled[i].value)]

\* Mutant: the send gives up when the context is done.
DeliverOrDone(i) ==
  /\ Move(i, "send", "close")
  /\ got' = Answer(i) \/ (ctxDone /\ UNCHANGED got)
  /\ pooled' = [pooled EXCEPT ![i] = Put(@)]
  /\ UNCHANGED <<ctxDone, closed>>

Deliver(i) ==
  /\ Move(i, "send", "close")
  /\ got' = Answer(i)
  /\ pooled' = [pooled EXCEPT ![i] = Put(@)]
  /\ UNCHANGED <<ctxDone, closed>>

\* The deferred close of the channel.
Close(i) ==
  /\ Move(i, "close", "closed")
  /\ closed' = \A j \in Inputs \ {i} : async[j] = "closed"
  /\ UNCHANGED <<pooled, got, ctxDone>>

Cancel ==
  /\ ~ctxDone
  /\ ctxDone' = TRUE
  /\ UNCHANGED <<async, pooled, got, closed>>
-----------------------------------------------------------------------------
CallStep(i) == ExecuteAsync(i) \/ Execute(i) \/ Deliver(i) \/ Close(i)

Next == Cancel \/ \E i \in Inputs : CallStep(i)
=============================================================================
