-------------------------------- MODULE Calls --------------------------------
(***************************************************************************)
(* One call of FunctionalPipeline.Execute whose process function is        *)
(* WithRetry around Parallel, or around a function of the user             *)
(* (pkg/pipeline/functional.go).  Each attempt of a parallel call has two  *)
(* branches, a goroutine that waits for them, and a result of its own; all *)
(* of them may outlive the attempt, and the call.                          *)
(***************************************************************************)
EXTENDS Naturals, FiniteSets

CONSTANT MaxRetries

\* WithRetry takes any number; with a negative one it calls nothing and fails.
ASSUME RetriesAssumption == MaxRetries \in Nat

Attempts == 0..MaxRetries
Sides == {1, 2}
Branches == Attempts \X Sides

VARIABLES
  inner,    \* what WithRetry wraps: "parallel" or "plain"
  timed,    \* config.Timeout is positive
  ctxDone,  \* the context handed to the process function is done
  caller,   \* where the caller is
  attempt,  \* the loop variable of WithRetry
  fatal,    \* the last error says that it is not retryable
  branch,   \* where each goroutine of Parallel is, and what it has in hand
  result,   \* the fields of the shared struct that each goroutine writes
  closed    \* the attempts whose done channel is closed

vars == <<inner, timed, ctxDone, caller, attempt, fatal, branch, result, closed>>

\* Every variable keeps its type.
TypeOK ==
  /\ inner \in {"parallel", "plain"}
  /\ timed \in BOOLEAN
  /\ ctxDone \in BOOLEAN
  /\ caller \in {"idle", "wait", "call", "select", "results", "failed",
                 "ok", "error", "cancelled"}
  /\ attempt \in Attempts
  /\ fatal \in BOOLEAN
  /\ branch \in [Branches -> {"none", "running", "has_ok", "has_error", "stored", "done"}]
  /\ result \in [Branches -> {"zero", "ok", "error"}]
  /\ closed \subseteq Attempts

Init ==
  /\ inner \in {"parallel", "plain"}
  /\ timed \in BOOLEAN
  /\ ctxDone = FALSE
  /\ caller = "idle"
  /\ attempt = 0
  /\ fatal = FALSE
  /\ branch = [b \in Branches |-> "none"]
  /\ result = [b \in Branches |-> "zero"]
  /\ closed = {}

callVars == <<inner, timed>>
branchVars == <<branch, result, closed>>

Returned == caller \in {"ok", "error", "cancelled"}
-----------------------------------------------------------------------------
(* The caller.                                                             *)

Execute ==
  /\ caller = "idle"
  /\ caller' = "call"
  /\ UNCHANGED <<callVars, branchVars, ctxDone, attempt, fatal>>

\* The way out of WithRetry and of Execute, whose deferred cancel ends the
\* context that it made.
Return(answer) ==
  /\ caller' = answer
  /\ ctxDone' = (ctxDone \/ timed)
  /\ UNCHANGED <<callVars, branchVars, attempt, fatal>>

\* A function of the user.  Only its own error can be one that says of itself
\* that it is not retryable: Parallel wraps those of its branches.
CallPlain ==
  /\ caller = "call" /\ inner = "plain"
  /\ \/ Return("ok")
     \/ /\ caller' = "failed"
        /\ fatal' \in BOOLEAN
        /\ UNCHANGED <<callVars, branchVars, ctxDone, attempt>>

CallParallel ==
  /\ caller = "call" /\ inner = "parallel"
  /\ caller' = "select"
  /\ branch' = [b \in Branches |-> IF b[1] = attempt THEN "running" ELSE branch[b]]
  /\ UNCHANGED <<callVars, ctxDone, attempt, fatal, result, closed>>

\* Mutant: Parallel goes on as soon as one of its branches has failed.
SelectDoneOrError ==
  /\ caller = "select"
  /\ attempt \in closed \/ \E s \in Sides : result[<<attempt, s>>] = "error"
  /\ caller' = "results"
  /\ UNCHANGED <<callVars, branchVars, ctxDone, attempt, fatal>>

SelectDone ==
  /\ caller = "select"
  /\ attempt \in closed
  /\ caller' = "results"
  /\ UNCHANGED <<callVars, branchVars, ctxDone, attempt, fatal>>

\* Mutant: Parallel waits for its branches whatever happens to the context.
SelectNothing == FALSE /\ UNCHANGED vars

SelectCtx ==
  /\ caller = "select"
  /\ ctxDone
  /\ caller' = "failed"
  /\ UNCHANGED <<callVars, branchVars, ctxDone, attempt, fatal>>

\* Both errors and both results are read in one section under result.mu.
Results ==
  /\ caller = "results"
  /\ IF \E s \in Sides : result[<<attempt, s>>] = "error"
     THEN /\ caller' = "failed"
          /\ UNCHANGED <<callVars, branchVars, ctxDone, attempt, fatal>>
     ELSE Return("ok")

\* The end of the body of the loop: the next attempt, or the last error.
Failed ==
  /\ caller = "failed"
  /\ IF fatal \/ attempt = MaxRetries
     THEN Return("error")
     ELSE /\ caller' = "wait"
          /\ attempt' = attempt + 1
          /\ UNCHANGED <<callVars, branchVars, ctxDone, fatal>>

\* The select between two attempts; both of its cases may be ready.
WaitTimer ==
  /\ caller = "wait"
  /\ caller' = "call"
  /\ UNCHANGED <<callVars, branchVars, ctxDone, attempt, fatal>>

WaitCtx == caller = "wait" /\ ctxDone /\ Return("cancelled")

CallerStep ==
  \/ Execute
  \/ CallPlain \/ CallParallel \/ SelectDone \/ SelectCtx \/ Results
  \/ Failed \/ WaitTimer \/ WaitCtx
-----------------------------------------------------------------------------
(* The goroutines of Parallel.                                             *)

BranchReturns(b) ==
  /\ branch[b] = "running"
  /\ \E outcome \in {"has_ok", "has_error"} : branch' = [branch EXCEPT ![b] = outcome]
  /\ UNCHANGED <<callVars, ctxDone, caller, attempt, fatal, result, closed>>

\* Mutant: the wait group is told before the result is stored.
DoneBeforeStore(b) ==
  /\ branch[b] \in {"has_ok", "has_error"}
  /\ branch' = [branch EXCEPT ![b] = "done"]
  /\ UNCHANGED <<callVars, ctxDone, caller, attempt, fatal, result, closed>>

\* The section under result.mu.
BranchStores(b) ==
  /\ branch[b] \in {"has_ok", "has_error"}
  /\ result' = [result EXCEPT ![b] = IF branch[b] = "has_ok" THEN "ok" ELSE "error"]
  /\ branch' = [branch EXCEPT ![b] = "stored"]
  /\ UNCHANGED <<callVars, ctxDone, caller, attempt, fatal, closed>>

\* The deferred wg.Done.
BranchDone(b) ==
  /\ branch[b] = "stored"
  /\ branch' = [branch EXCEPT ![b] = "done"]
  /\ UNCHANGED <<callVars, ctxDone, caller, attempt, fatal, result, closed>>

\* Mutant: the wait group counts one branch.
CloseAfterOne(a) ==
  /\ a \notin closed
  /\ \E s \in Sides : branch[<<a, s>>] = "done"
  /\ closed' = closed \union {a}
  /\ UNCHANGED <<callVars, ctxDone, caller, attempt, fatal, branch, result>>

\* wg.Wait and close(done).
CloseDone(a) ==
  /\ a \notin closed
  /\ \A s \in Sides : branch[<<a, s>>] = "done"
  /\ closed' = closed \union {a}
  /\ UNCHANGED <<callVars, ctxDone, caller, attempt, fatal, branch, result>>

ParallelStep ==
  \/ \E b \in Branches : BranchReturns(b) \/ BranchStores(b) \/ BranchDone(b)
  \/ \E a \in Attempts : CloseDone(a)
-----------------------------------------------------------------------------
(* The context.                                                            *)

EndContext ==
  /\ ~ctxDone
  /\ ctxDone' = TRUE
  /\ UNCHANGED <<callVars, branchVars, caller, attempt, fatal>>

\* The timeout of Execute.
Deadline == timed /\ caller # "idle" /\ EndContext

\* The owner of the context given to Execute cancels it.
Cancel == EndContext

Next == CallerStep \/ ParallelStep \/ Deadline \/ Cancel

Spec == Init /\ [][Next]_vars
-----------------------------------------------------------------------------
\* The caller and the deadline make progress, and a function of the user that
\* is called directly returns.  The branches of Parallel need not.
Fairness ==
  /\ WF_vars(caller # "idle" /\ CallerStep)
  /\ WF_vars(Deadline)

\* A call that succeeds hands over what both branches of its last attempt
\* returned: no field that a branch has not written yet, and nothing of an
\* earlier attempt, whose branches may still be running (Parallel).
AnswersOfOneAttempt ==
  caller = "ok" /\ inner = "parallel" =>
    \A s \in Sides : result[<<attempt, s>>] = "ok"

\* The functions of two attempts of one call run at the same time only after
\* the context was done: a retry never competes with the attempt it repeats
\* otherwise (WithRetry around Parallel).
OneAttemptAtATime ==
  \A b, c \in Branches :
    b[1] # c[1] /\ branch[b] = "running" /\ branch[c] = "running" => ctxDone

\* With a timeout every call returns, although the branches may never
\* (Execute, WithRetry, Parallel).
CallReturns == timed /\ caller # "idle" ~> Returned
=============================================================================
