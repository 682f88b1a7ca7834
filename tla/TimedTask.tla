----------------------------- MODULE TimedTask -----------------------------
(***************************************************************************)
(* TaskWithTimeout (pkg/worker/task.go): the task runs under a context     *)
(* made of the one a worker hands to Execute and of the one its timeout    *)
(* is.  A goroutine, the helper, joins the two.  A task may be submitted   *)
(* again, or twice: its executions share the timeout only.                 *)
(***************************************************************************)
CONSTANT Executions

VARIABLES
  parent,  \* the context given to each execution; "never" has a nil Done
  timeout, \* tt.timeout: "open" or "done"
  exec,    \* where each execution is
  helper,  \* and its goroutine
  merged   \* the executions whose mergedCancel has been called

vars == <<parent, timeout, exec, helper, merged>>

Init ==
  /\ parent \in [Executions -> {"never", "open"}]
  /\ timeout = "open"
  /\ exec = [x \in Executions |-> "idle"]
  /\ helper = [x \in Executions |-> "none"]
  /\ merged = {}
-----------------------------------------------------------------------------
Execute(x) ==
  /\ exec[x] = "idle"
  /\ exec' = [exec EXCEPT ![x] = "task"]
  /\ helper' = [helper EXCEPT ![x] = IF parent[x] = "never" THEN "none" ELSE "waiting"]
  /\ UNCHANGED <<parent, timeout, merged>>

Ended(x) == parent[x] = "done" \/ timeout = "done"

\* Mutant: the helper waits for the timeout only.
JoinTimeout(x) ==
  /\ helper[x] = "waiting" /\ timeout = "done"
  /\ helper' = [helper EXCEPT ![x] = "cancelled"]
  /\ merged' = merged \cup {x}
  /\ UNCHANGED <<parent, timeout, exec>>

\* Mutant: the function that cancels is kept in the task, not in the execution.
JoinAll(x) ==
  /\ helper[x] = "waiting" /\ Ended(x)
  /\ helper' = [helper EXCEPT ![x] = "cancelled"]
  /\ merged' = {y \in Executions : helper[y] # "none"}
  /\ UNCHANGED <<parent, timeout, exec>>

Join(x) ==
  /\ helper[x] = "waiting" /\ Ended(x)
  /\ helper' = [helper EXCEPT ![x] = "cancelled"]
  /\ merged' = merged \cup {x}
  /\ UNCHANGED <<parent, timeout, exec>>

\* close(done)
HelperExits(x) ==
  /\ helper[x] = "cancelled"
  /\ helper' = [helper EXCEPT ![x] = "gone"]
  /\ UNCHANGED <<parent, timeout, exec, merged>>

\* The context of the task; it is made from the timeout and ends with it.
TaskCtxDone(x) == x \in merged \/ timeout = "done"

\* The task returns when it likes; with a helper the deferred function runs.
TaskReturns(x) ==
  /\ exec[x] = "task"
  /\ exec' = [exec EXCEPT ![x] = IF helper[x] = "none" THEN "returned" ELSE "cleanup"]
  /\ merged' = IF helper[x] = "none" THEN merged ELSE merged \cup {x}
  /\ UNCHANGED <<parent, timeout, helper>>

\* mergedCancel does not wake the helper, which looks at the two contexts only:
\* when neither has ended it is the timer of 100ms that ends the wait.
AwaitHelper(x) ==
  /\ exec[x] = "cleanup"
  /\ exec' = [exec EXCEPT ![x] = "returned"]
  /\ UNCHANGED <<parent, timeout, helper, merged>>

ParentEnds(x) ==
  /\ parent[x] = "open"
  /\ parent' = [parent EXCEPT ![x] = "done"]
  /\ UNCHANGED <<timeout, exec, helper, merged>>

\* The deadline passes, or somebody calls Cleanup.
TimeoutEnds ==
  /\ timeout = "open" /\ timeout' = "done"
  /\ UNCHANGED <<parent, exec, helper, merged>>

Step(x) == Join(x) \/ HelperExits(x) \/ AwaitHelper(x)

Next ==
  \/ TimeoutEnds
  \/ \E x \in Executions : Execute(x) \/ Step(x) \/ TaskReturns(x) \/ ParentEnds(x)

\* Goroutines run, the timer fires, and a task returns once its context is done.
Fairness ==
  \A x \in Executions :
    WF_vars(Step(x)) /\ WF_vars(TaskCtxDone(x) /\ TaskReturns(x))
-----------------------------------------------------------------------------
\* The context of a task that is executing is done only when its own parent or
\* the timeout has ended, whatever the other executions do (Execute).
DoneForAReason ==
  \A x \in Executions : exec[x] = "task" /\ TaskCtxDone(x) => Ended(x)

\* When either context ends the execution returns and its helper is gone, however
\* the two ends, the task and the wait for the helper interleave (Execute); one
\* formula for all executions, each of which begins once.
Overdue(x) == Ended(x) /\ exec[x] # "idle"
              /\ ~(exec[x] = "returned" /\ helper[x] \in {"none", "gone"})

EndReachesTask == (\E x \in Executions : Overdue(x)) ~> \A x \in Executions : ~Overdue(x)
=============================================================================
