------------------------------ MODULE Pipeline ------------------------------
(***************************************************************************)
(* The pipeline of pkg/pipeline/pipeline.go: Execute with its retries,     *)
(* concurrent with Start, Stop and Close.  A job is one Execute call, made *)
(* by a goroutine of its own (ExecuteAsync and ExecuteBatch make theirs in *)
(* such goroutines); its process function succeeds or fails at will.       *)
(*                                                                         *)
(* Stop wakes a retry through the unbuffered stopChan, so what matters is  *)
(* whether a job is parked in the select or still on its way there.        *)
(***************************************************************************)
EXTENDS Naturals, FiniteSets

CONSTANTS
  Jobs,
  Callers,     \* the goroutines that call Start, Stop or Close, once each
  MaxRetries,  \* config.MaxRetries
  PolicyMax,   \* maxAttempts of the retry policy, 0 without a policy
  ZeroDelay    \* whether the delay of a retry may be zero

ASSUME PipelineAssumption ==
  MaxRetries \in Nat /\ PolicyMax \in Nat /\ ZeroDelay \in BOOLEAN

VARIABLES
  state,    \* p.state: 0 created, 1 running, 2 stopped, 3 closed
  stopClosed, \* p.stopChan is closed
  once,     \* p.once
  job,      \* where each Execute call is
  tries,    \* how often each has called the process function
  fired,    \* the jobs whose timer fired before their select looked at it
  expired,  \* the jobs whose context is done: cancelled, or past config.Timeout
  caller,   \* where the call of each caller is
  panic     \* a goroutine sent on the closed stopChan: the program ended

vars == <<state, stopClosed, once, job, tries, fired, expired, caller, panic>>
jobVars == <<job, tries, fired>>
lifeVars == <<state, stopClosed, once, caller, panic>>

Results  == {"ok", "failed", "ctx", "stopped", "closed"}
JobPC    == {"idle", "ready", "running", "select", "parked", "signalled"} \cup Results
Calls    == {"stop_running", "stop_created", "stop_signal", "close_once", "close_chan"}
CallerPC == {"idle", "returned", "stopped"} \cup Calls

\* Every variable keeps its type, and a pipeline that Close has begun to close
\* is in state 3 whatever the Start and Stop in flight do (pipeline.Close).
TypeOK ==
  /\ state \in 0..3 /\ (state = 3 <=> once # "no")
  /\ stopClosed = (once = "done")
  /\ once \in {"no", "running", "done"}
  /\ job \in [Jobs -> JobPC]
  /\ tries \in [Jobs -> Nat]
  /\ fired \subseteq Jobs
  /\ expired \subseteq Jobs
  /\ caller \in [Callers -> CallerPC]
  /\ panic \in BOOLEAN

Init ==
  /\ state = 0
  /\ stopClosed = FALSE
  /\ once = "no"
  /\ job = [j \in Jobs |-> "idle"]
  /\ tries = [j \in Jobs |-> 0]
  /\ fired = {}
  /\ expired = {}
  /\ caller = [c \in Callers |-> "idle"]
  /\ panic = FALSE

Move(j, from, to) == job[j] = from /\ job' = [job EXCEPT ![j] = to]
-----------------------------------------------------------------------------
\* The state check of Execute.
Execute(j) ==
  /\ Move(j, "idle", CASE state = 3 -> "closed"
                       [] state = 2 -> "stopped"
                       [] OTHER     -> "ready")
  /\ UNCHANGED <<lifeVars, tries, fired, expired>>

\* One turn of the retry loop begins: the process function is called.
Attempt(j) ==
  /\ Move(j, "ready", "running")
  /\ tries' = [tries EXCEPT ![j] = @ + 1]
  /\ UNCHANGED <<lifeVars, fired, expired>>

Succeed(j) ==
  /\ Move(j, "running", "ok")
  /\ UNCHANGED <<lifeVars, tries, fired, expired>>

\* A non-positive MaxRetries is one attempt.
MaxTries == IF MaxRetries = 0 THEN 1 ELSE MaxRetries

RetriesLeft(j) == tries[j] < MaxTries

\* Mutant: the comparison of the policy is off by one.
PolicyAllowsOneMore(j) == PolicyMax = 0 \/ tries[j] - 1 <= PolicyMax

\* The policy is asked with the attempt counted from 0, and compares it with
\* its maximum (BaseRetryPolicy.ShouldRetry).
PolicyAllows(j) == PolicyMax = 0 \/ tries[j] - 1 < PolicyMax

\* A policy may also refuse the error itself.
Fail(j) ==
  /\ \/ /\ ~RetriesLeft(j) \/ PolicyMax # 0
        /\ Move(j, "running", "failed")
     \/ /\ RetriesLeft(j) /\ PolicyAllows(j)
        /\ \E to \in {"select"} \cup (IF ZeroDelay THEN {"ready"} ELSE {}) :
             Move(j, "running", to)
  /\ UNCHANGED <<lifeVars, tries, fired, expired>>

\* Mutant: no timer is set, the retry waits for the context or the stop signal.
FireNever(j) == FALSE

\* The delay passes: Clock.After was called before the select is entered.
Fire(j) ==
  /\ \/ Move(j, "parked", "ready") /\ UNCHANGED fired
     \/ job[j] = "select" /\ j \notin fired /\ fired' = fired \cup {j} /\ UNCHANGED job
  /\ UNCHANGED <<lifeVars, tries, expired>>

\* The select takes any case that is ready.
SelectReady(j) ==
  /\ \/ j \in fired   /\ Move(j, "select", "ready")
     \/ j \in expired /\ Move(j, "select", "ctx")
     \/ stopClosed   /\ Move(j, "select", "signalled")
  /\ fired' = fired \ {j}
  /\ UNCHANGED <<lifeVars, tries, expired>>

Park(j) ==
  /\ j \notin fired \cup expired
  /\ ~stopClosed
  /\ Move(j, "select", "parked")
  /\ UNCHANGED <<lifeVars, tries, fired, expired>>

\* The stop case looks at the context once more.
Signalled(j) ==
  /\ Move(j, "signalled", IF j \in expired THEN "ctx" ELSE "stopped")
  /\ UNCHANGED <<lifeVars, tries, fired, expired>>

\* The context of a job ends; a parked job is woken by it.
Expire(j) ==
  /\ j \notin expired
  /\ job[j] \notin Results
  /\ expired' = expired \cup {j}
  /\ job' = [job EXCEPT ![j] = IF @ = "parked" THEN "ctx" ELSE @]
  /\ UNCHANGED <<lifeVars, tries, fired>>
-----------------------------------------------------------------------------
Goto(c, pc) == caller' = [caller EXCEPT ![c] = pc]

Start(c) ==
  /\ caller[c] = "idle"
  /\ state' = IF state = 0 THEN 1 ELSE state
  /\ Goto(c, "returned")
  /\ UNCHANGED <<stopClosed, once, panic, jobVars, expired>>

\* Stop refuses a closed pipeline; otherwise it tries two CAS in a row.
StopLoad(c) ==
  /\ caller[c] = "idle"
  /\ Goto(c, IF state = 3 THEN "returned" ELSE "stop_running")
  /\ UNCHANGED <<state, stopClosed, once, panic, jobVars, expired>>

StopCasRunning(c) ==
  /\ caller[c] = "stop_running"
  /\ IF state = 1
     THEN state' = 2 /\ Goto(c, "stop_signal")
     ELSE Goto(c, "stop_created") /\ UNCHANGED state
  /\ UNCHANGED <<stopClosed, once, panic, jobVars, expired>>

\* Mutant: the second CAS is a store.
StopStore(c) ==
  /\ caller[c] = "stop_created"
  /\ state' = 2
  /\ Goto(c, "stop_signal")
  /\ UNCHANGED <<stopClosed, once, panic, jobVars, expired>>

StopCasCreated(c) ==
  /\ caller[c] = "stop_created"
  /\ IF state = 0
     THEN state' = 2 /\ Goto(c, "stop_signal")
     ELSE Goto(c, "stopped") /\ UNCHANGED state
  /\ UNCHANGED <<stopClosed, once, panic, jobVars, expired>>

\* Mutant: without a default case, Stop waits for a retry to take the signal.
StopSignalBlocks(c) ==
  /\ caller[c] = "stop_signal"
  /\ IF stopClosed
     THEN panic' = TRUE /\ UNCHANGED <<job, caller>>
     ELSE /\ \E j \in Jobs : Move(j, "parked", "signalled")
          /\ Goto(c, "stopped") /\ UNCHANGED panic
  /\ UNCHANGED <<state, stopClosed, once, tries, fired, expired>>

\* One parked job takes the signal; without one the default case drops it.
StopSignal(c) ==
  /\ caller[c] = "stop_signal"
  /\ IF stopClosed
     THEN panic' = TRUE /\ UNCHANGED <<job, caller>>
     ELSE /\ \/ \E j \in Jobs : Move(j, "parked", "signalled")
             \/ (\A j \in Jobs : job[j] # "parked") /\ UNCHANGED job
          /\ Goto(c, "stopped") /\ UNCHANGED panic
  /\ UNCHANGED <<state, stopClosed, once, tries, fired, expired>>

Close(c) ==
  /\ caller[c] = "idle"
  /\ Goto(c, "close_once")
  /\ UNCHANGED <<state, stopClosed, once, panic, jobVars, expired>>

\* p.once runs the body for the first caller; the others wait until it is done.
CloseStore(c) ==
  /\ caller[c] = "close_once"
  /\ \/ /\ once = "no"
        /\ state' = 3 /\ once' = "running"
        /\ Goto(c, "close_chan")
     \/ /\ once = "done"
        /\ Goto(c, "returned")
        /\ UNCHANGED <<state, once>>
  /\ UNCHANGED <<stopClosed, panic, jobVars, expired>>

\* Mutant: p.once is not done when its body is.
CloseChanKeepsOnce(c) ==
  /\ caller[c] = "close_chan"
  /\ stopClosed' = TRUE
  /\ job' = [j \in Jobs |-> IF job[j] = "parked" THEN "signalled" ELSE job[j]]
  /\ Goto(c, "returned")
  /\ UNCHANGED <<state, once, panic, tries, fired, expired>>

CloseChan(c) ==
  /\ caller[c] = "close_chan"
  /\ stopClosed' = TRUE
  /\ once' = "done"
  /\ job' = [j \in Jobs |-> IF job[j] = "parked" THEN "signalled" ELSE job[j]]
  /\ Goto(c, "returned")
  /\ UNCHANGED <<state, panic, tries, fired, expired>>
-----------------------------------------------------------------------------
\* What a goroutine does once it is called: fairness is stated of these.
JobStep(j) ==
  \/ Attempt(j) \/ Succeed(j) \/ Fail(j) \/ Fire(j)
  \/ SelectReady(j) \/ Park(j) \/ Signalled(j)
CallerStep(c) ==
  StopCasRunning(c) \/ StopCasCreated(c) \/ StopSignal(c) \/ CloseStore(c) \/ CloseChan(c)

Next ==
  /\ ~panic
  /\ \/ \E j \in Jobs : Execute(j) \/ Expire(j) \/ JobStep(j)
     \/ \E c \in Callers : Start(c) \/ StopLoad(c) \/ Close(c) \/ CallerStep(c)

Spec == Init /\ [][Next]_vars

\* The process function returns, a timer fires and a runnable goroutine runs.
PipelineFairness ==
  /\ \A j \in Jobs : WF_vars(~panic /\ JobStep(j))
  /\ \A c \in Callers : WF_vars(~panic /\ CallerStep(c))
-----------------------------------------------------------------------------
\* The lifecycle never goes back: Start, Stop and Close may interleave at every
\* atomic operation, and still a stopped pipeline is not started and a closed
\* one not reopened (pipeline.Start, pipeline.Stop, pipeline.Close).
NeverBack == [][state' >= state]_state

\* However the waits of a job end, it calls its process function no more often
\* than its configuration and its policy allow (executeWithRetry).
AttemptsBounded ==
  \A j \in Jobs : /\ tries[j] <= MaxTries
                  /\ PolicyMax # 0 => tries[j] <= PolicyMax + 1

\* Every Execute that begins returns, and so does every Stop and Close, also one
\* that finds another Close at work (executeWithRetry, pipeline.Stop, pipeline.Close).
CallsReturn ==
  /\ \A j \in Jobs : job[j] = "ready" ~> (job[j] \in Results \/ panic)
  /\ \A c \in Callers : caller[c] \in Calls ~> (caller[c] \notin Calls \/ panic)
=============================================================================
