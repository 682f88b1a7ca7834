---------------------------- MODULE RetryErrors ----------------------------
(***************************************************************************)
(* Which errors are retried (pkg/retry/policy.go, pkg/types/errors.go).    *)
(* An error is the sequence of its layers, the outermost first: wrappers   *)
(* around a root.  An error may pass several executors, each of which      *)
(* decides about it by DefaultRetryCondition and returns it wrapped.       *)
(***************************************************************************)
EXTENDS Naturals, Sequences

CONSTANT MaxLayers   \* bounds the wrappers around an error

\* *PipelineError; an error with an Unwrap method of another type, such as
\* *TypedPipelineError or one of fmt.Errorf; *RetryableError, by its Retryable.
Wrappers == {"pipeline", "typed", "retryable", "permanent"}

\* ErrTimeout, ErrWorkerPoolFull, the errors of closed parts, those of a
\* context, and any other.
Roots == {"timeout", "poolFull", "closed", "context", "other"}

Layers == Wrappers \cup Roots

VARIABLE error

ErrorsInit == error \in {<<root>> : root \in Roots}
-----------------------------------------------------------------------------
Wrapped(layer, e) == <<layer>> \o e

\* wrapError: an error that already is a *PipelineError stays the same one.
wrapError(e) == IF Head(e) = "pipeline" THEN e ELSE Wrapped("pipeline", e)

\* Mutant: the innermost mark is taken.
IsRetryableInnermost(e) ==
  \E i \in 1..Len(e) : /\ e[i] = "retryable"
                       /\ \A j \in i + 1..Len(e) : e[j] \notin {"retryable", "permanent"}

\* errors.As finds the first *RetryableError of the chain.
IsRetryable(e) ==
  \E i \in 1..Len(e) : /\ e[i] = "retryable"
                       /\ \A j \in 1..i - 1 : e[j] \notin {"retryable", "permanent"}

\* It compares the error itself: a root without a wrapper.
RetryableErrorTypes(e) == e \in {<<"timeout">>, <<"poolFull">>}

\* Mutant: the cause of a *PipelineError is not looked at.
DefaultRetryConditionOutside(e) == IsRetryable(e) \/ RetryableErrorTypes(e)

\* isRetryableError asks about the cause of a *PipelineError.  No error is <<>>.
Condition[e \in Seq(Layers)] ==
  \/ IsRetryable(e)
  \/ IF e # <<>> /\ Head(e) = "pipeline" THEN Condition[Tail(e)] ELSE RetryableErrorTypes(e)

DefaultRetryCondition(e) == Condition[e]
-----------------------------------------------------------------------------
\* A panic of a task, another library or the user adds a layer.
AddLayer(layer) == Len(error) <= MaxLayers /\ error' = Wrapped(layer, error)

\* The executor whose policy does not retry the error, or not again.
ThroughExecutor == Len(error) <= MaxLayers /\ error' = wrapError(error)

ErrorsNext == ThroughExecutor \/ \E layer \in Wrappers : AddLayer(layer)

ErrorsSpec == ErrorsInit /\ [][ErrorsNext]_error
-----------------------------------------------------------------------------
Marks(e) == {i \in 1..Len(e) : e[i] \in {"retryable", "permanent"}}
Outermost(e) == CHOOSE i \in Marks(e) : \A j \in Marks(e) : i <= j

\* Whatever an error is wrapped in, its outermost mark decides about it, and one
\* without a mark is retried only if its root is worth it and nothing but
\* *PipelineErrors is around it (DefaultRetryCondition).
MarkDecides ==
  DefaultRetryCondition(error) <=>
    IF Marks(error) # {} THEN error[Outermost(error)] = "retryable"
    ELSE /\ error[Len(error)] \in {"timeout", "poolFull"}
         /\ \A i \in 1..Len(error) - 1 : error[i] = "pipeline"

\* However an error comes by its next layer its outermost mark decides, and an
\* outer executor decides about it as the inner one did that returned it:
\* wrapError does not change what is retried (wrapError, isRetryableError).
VerdictSurvivesWrapping ==
  [][/\ MarkDecides'
     /\ ThroughExecutor => (DefaultRetryCondition(error)' <=> DefaultRetryCondition(error))]_error
=============================================================================
