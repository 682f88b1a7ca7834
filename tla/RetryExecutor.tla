---------------------------- MODULE RetryExecutor ----------------------------
(***************************************************************************)
(* RetryExecutor (pkg/retry/executor.go) with a policy of pkg/retry: the   *)
(* executions of one executor run concurrently and share its statistics.   *)
(* The function of an execution succeeds or fails at will, and the policy  *)
(* may refuse any error (what it refuses is RetryErrors, how long it waits  *)
(* is Delays).  Event handlers only observe and are left out.              *)
(***************************************************************************)
EXTENDS Naturals, FiniteSetsExt

CONSTANTS
  Executions,
  MaxAttempts,  \* maxAttempts of the policy
  MaxResets     \* bounds the calls of ResetStats

ASSUME RetryAssumption ==
  MaxAttempts \in Nat /\ MaxResets \in Nat /\ IsFiniteSet(Executions)

VARIABLES
  pc,       \* where each execution is
  attempt,  \* its attempt
  ctxDone,  \* the executions whose context is done
  open,     \* the circuit breaker is open
  stats,    \* r.stats
  resets    \* ResetStats calls so far

vars == <<pc, attempt, ctxDone, open, stats, resets>>

Ends == {"succeeded", "failed", "cancelled", "refused"}
PC   == {"idle", "count", "check", "run", "success", "error", "failure", "delay", "wait"} \cup Ends

\* AverageAttempts is the fraction over / of, 0 when of is 0.
Zero == [attempts |-> 0, retries |-> 0, successes |-> 0, failures |-> 0,
         average |-> [over |-> 0, of |-> 0]]

\* Every variable keeps its type, and an operation counts as a retry only if it
\* counts as a success or a failure too (updateStats, ResetStats).
TypeOK ==
  /\ pc \in [Executions -> PC]
  /\ attempt \in [Executions -> Nat]
  /\ ctxDone \subseteq Executions
  /\ open \in BOOLEAN
  /\ stats \in [attempts : Nat, retries : Nat, successes : Nat, failures : Nat,
                average : [over : Nat, of : Nat]]
  /\ stats.retries <= stats.successes + stats.failures
  /\ resets \in 0..MaxResets

Init ==
  /\ pc = [e \in Executions |-> "idle"]
  /\ attempt = [e \in Executions |-> 0]
  /\ ctxDone = {}
  /\ open = FALSE
  /\ stats = Zero
  /\ resets = 0
-----------------------------------------------------------------------------
Move(e, from, to) == pc[e] = from /\ pc' = [pc EXCEPT ![e] = to]

Execute(e) ==
  /\ Move(e, "idle", "count")
  /\ UNCHANGED <<attempt, ctxDone, open, stats, resets>>

\* An attempt is counted before the context is looked at.
Count(e) ==
  /\ Move(e, "count", "check")
  /\ attempt' = [attempt EXCEPT ![e] = @ + 1]
  /\ stats' = [stats EXCEPT !.attempts = @ + 1]
  /\ UNCHANGED <<ctxDone, open, resets>>

Check(e) ==
  /\ Move(e, "check", IF e \in ctxDone THEN "cancelled"
                      ELSE IF open THEN "refused" ELSE "run")
  /\ UNCHANGED <<attempt, ctxDone, open, stats, resets>>

Run(e) ==
  /\ \E to \in {"success", "error"} : Move(e, "run", to)
  /\ UNCHANGED <<attempt, ctxDone, open, stats, resets>>

\* updateAverageAttempts, after TotalSuccesses or TotalFailures has grown.
WithAverage(s) ==
  [s EXCEPT !.average = [over |-> s.attempts, of |-> s.successes + s.failures]]
Retried(e) == IF attempt[e] > 1 THEN 1 ELSE 0

\* Mutant: the retries of the execution are added, not the execution.
RecordSuccessRetries(e) ==
  /\ Move(e, "success", "succeeded")
  /\ stats' = WithAverage([stats EXCEPT !.successes = @ + 1, !.retries = @ + attempt[e] - 1])
  /\ UNCHANGED <<attempt, ctxDone, open, resets>>

RecordSuccess(e) ==
  /\ Move(e, "success", "succeeded")
  /\ stats' = WithAverage([stats EXCEPT !.successes = @ + 1, !.retries = @ + Retried(e)])
  /\ UNCHANGED <<attempt, ctxDone, open, resets>>

\* Mutant: the comparison is off by one.
ShouldRetryOnceMore(e) == attempt[e] <= MaxAttempts
\* BaseRetryPolicy.ShouldRetry, but for the condition on the error.
ShouldRetry(e) == attempt[e] < MaxAttempts

Decide(e) ==
  /\ \/ Move(e, "error", "failure")
     \/ ShouldRetry(e) /\ Move(e, "error", "delay")
  /\ UNCHANGED <<attempt, ctxDone, open, stats, resets>>

RecordFailure(e) ==
  /\ Move(e, "failure", "failed")
  /\ stats' = WithAverage([stats EXCEPT !.failures = @ + 1, !.retries = @ + Retried(e)])
  /\ UNCHANGED <<attempt, ctxDone, open, resets>>

\* A delay that is not positive is not waited for.
Delay(e) ==
  /\ \E to \in {"wait", "count"} : Move(e, "delay", to)
  /\ UNCHANGED <<attempt, ctxDone, open, stats, resets>>

\* Mutant: the wait has no case for the timer.
WaitForContext(e) ==
  /\ e \in ctxDone /\ Move(e, "wait", "cancelled")
  /\ UNCHANGED <<attempt, ctxDone, open, stats, resets>>

Wait(e) ==
  /\ \/ e \in ctxDone /\ Move(e, "wait", "cancelled")
     \/ Move(e, "wait", "count")
  /\ UNCHANGED <<attempt, ctxDone, open, stats, resets>>

Cancel(e) ==
  /\ e \notin ctxDone /\ pc[e] \notin Ends
  /\ ctxDone' = ctxDone \cup {e}
  /\ UNCHANGED <<pc, attempt, open, stats, resets>>

\* The circuit breaker opens and closes as it likes.
Trip == open' = ~open /\ UNCHANGED <<pc, attempt, ctxDone, stats, resets>>

\* Mutant: the average survives.
ResetStatsKeepsAverage ==
  /\ resets < MaxResets
  /\ stats' = [Zero EXCEPT !.average = stats.average]
  /\ resets' = resets + 1
  /\ UNCHANGED <<pc, attempt, ctxDone, open>>

ResetStats ==
  /\ resets < MaxResets
  /\ stats' = Zero
  /\ resets' = resets + 1
  /\ UNCHANGED <<pc, attempt, ctxDone, open>>
-----------------------------------------------------------------------------
Step(e) ==
  \/ Count(e) \/ Check(e) \/ Run(e) \/ RecordSuccess(e)
  \/ Decide(e) \/ RecordFailure(e) \/ Delay(e) \/ Wait(e)

Next == Trip \/ ResetStats \/ \E e \in Executions : Execute(e) \/ Cancel(e) \/ Step(e)

Spec == Init /\ [][Next]_vars

\* The function returns, timers fire and every goroutine runs.
FairSpec == Spec /\ \A e \in Executions : WF_vars(Step(e))
-----------------------------------------------------------------------------
In(end) == {e \in Executions : pc[e] = end}
Recorded == In("succeeded") \cup In("failed")

\* The attempts of an execution stay within its policy, however its waits end;
\* there is always one attempt (ExecuteWithName, BaseRetryPolicy.ShouldRetry).
AttemptsWithinMax ==
  \A e \in Executions : attempt[e] <= IF MaxAttempts = 0 THEN 1 ELSE MaxAttempts

\* As long as they are not reset, the totals are those of the executions that
\* ended, whatever their order: each counts once as a success or a failure, and
\* once as a retry if it needed more than one attempt.
TotalsAddUp == resets = 0 =>
  /\ stats.attempts  = MapThenSumSet(LAMBDA e : attempt[e], Executions)
  /\ stats.successes = Cardinality(In("succeeded"))
  /\ stats.failures  = Cardinality(In("failed"))
  /\ stats.retries   = Cardinality({e \in Recorded : attempt[e] > 1})

\* The average belongs to the totals it is returned with: it is a quotient of
\* no more attempts than they count, over just the operations they count, and
\* without a reset it is at least one (updateAverageAttempts).
AverageOfTotals ==
  /\ stats.average.over <= stats.attempts
  /\ stats.average.of = stats.successes + stats.failures
  /\ resets = 0 => stats.average.over >= stats.average.of

\* The statistics one lock guards step by step are consistent whenever they are
\* read (updateStats, GetStats, ResetStats).
StatsAddUp == TotalsAddUp /\ AverageOfTotals

\* Every execution ends (ExecuteWithName).
ExecutionsEnd == \A e \in Executions : pc[e] # "idle" ~> pc[e] \in Ends
=============================================================================
