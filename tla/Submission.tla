----------------------------- MODULE Submission -----------------------------
(***************************************************************************)
(* SubmitWithTimeout of a pool whose workers share one task channel.       *)
(* FixedWorkerPool and DynamicWorkerPool have the same method; the state   *)
(* of the pool it reads is declared here, and written by those modules.    *)
(* Every task is submitted by one call, made by a goroutine of its own.    *)
(***************************************************************************)
EXTENDS Worker

VARIABLES
  state,      \* pool.state: 0 stopped, 1 running, 2 closed
  ctx,        \* pool.ctx; 0 is nil
  cancel,     \* pool.cancel, as the context it cancels; 0 is nil
  taskChan,   \* FALSE once pool.taskChan is nil
  sub,        \* where the submission of each task is
  armed       \* what the select of a submission with timeout evaluated

poolVars   == <<state, ctx, cancel, taskChan>>
submitVars == <<sub, armed>>

SubPC == {"idle", "try", "arm", "sending", "accepted", "rejected"}

SubmissionTypeOK ==
  /\ state \in 0..2
  /\ ctx \in Gens \cup {0}
  /\ cancel \in Gens \cup {0}
  /\ taskChan \in BOOLEAN
  /\ sub \in [Tasks -> SubPC]
  /\ armed \in [Tasks -> [ctx : Gens \cup {0}, chan : BOOLEAN]]

SubmissionInit ==
  /\ state = 0
  /\ ctx = 0
  /\ cancel = 0
  /\ taskChan = TRUE
  /\ sub = [t \in Tasks |-> "idle"]
  /\ armed = [t \in Tasks |-> [ctx |-> 0, chan |-> FALSE]]

InFlight(t) == sub[t] \in {"try", "arm", "sending"}
Accepted(t) == sub[t] = "accepted"

Becomes(t, pc) == sub' = [sub EXCEPT ![t] = pc]
-----------------------------------------------------------------------------
\* The state check, and the refusal of a nil task.  A timeout <= 0 means "try",
\* a positive one "arm" a timer.
SubmitCheck(t) ==
  /\ sub[t] = "idle"
  /\ \E isNil \in BOOLEAN, way \in {"try", "arm"} :
       Becomes(t, IF state = 1 /\ ~isNil THEN way ELSE "rejected")
  /\ UNCHANGED <<chanVars, cancelled, workerVars, stopper, panic, poolVars, armed>>

\* Mutant: the capacity is off by one.
SendOneMore(t) ==
  /\ Len(queue) <= QueueSize
  /\ queue' = Append(queue, t)
  /\ Becomes(t, "accepted")

Send(t) ==
  /\ Len(queue) < QueueSize
  /\ queue' = Append(queue, t)
  /\ Becomes(t, "accepted")

\* Mutant: no default case, so the send blocks while the channel is full.
SubmitNowBlocks(t) ==
  /\ sub[t] = "try"
  /\ taskChan /\ chanOpen
  /\ Send(t)
  /\ UNCHANGED <<chanOpen, cancelled, workerVars, stopper, panic, poolVars, armed>>

(***************************************************************************)
(* The select with a default case, for a timeout <= 0.  Sending on a       *)
(* closed channel panics; on a nil channel the default case is taken.      *)
(***************************************************************************)
SubmitNow(t) ==
  /\ sub[t] = "try"
  /\ \/ /\ taskChan /\ chanOpen
        /\ Send(t)
        /\ UNCHANGED panic
     \/ /\ ~taskChan \/ (chanOpen /\ Len(queue) = QueueSize)
        /\ Becomes(t, "rejected")
        /\ UNCHANGED <<queue, panic>>
     \/ /\ taskChan /\ ~chanOpen
        /\ panic' = "send on closed channel"
        /\ UNCHANGED <<queue, sub>>
  /\ UNCHANGED <<chanOpen, cancelled, workerVars, stopper, poolVars, armed>>

(***************************************************************************)
(* The select with a timer: p.taskChan and p.ctx.Done() are evaluated once,*)
(* when the select is entered.                                             *)
(***************************************************************************)
SubmitArm(t) ==
  /\ sub[t] = "arm"
  /\ IF ctx = 0
     THEN panic' = "nil context" /\ UNCHANGED submitVars
     ELSE /\ armed' = [armed EXCEPT ![t] = [ctx |-> ctx, chan |-> taskChan]]
          /\ Becomes(t, "sending")
          /\ UNCHANGED panic
  /\ UNCHANGED <<chanVars, cancelled, workerVars, stopper, poolVars>>

SubmitSend(t) ==
  /\ sub[t] = "sending"
  /\ armed[t].chan
  /\ IF chanOpen
     THEN Send(t) /\ UNCHANGED panic
     ELSE panic' = "send on closed channel" /\ UNCHANGED <<queue, sub>>
  /\ UNCHANGED <<chanOpen, cancelled, workerVars, stopper, poolVars, armed>>

SubmitTimeout(t) ==
  /\ sub[t] = "sending"
  /\ Becomes(t, "rejected")
  /\ UNCHANGED <<chanVars, cancelled, workerVars, stopper, panic, poolVars, armed>>

SubmitCancelled(t) ==
  /\ sub[t] = "sending"
  /\ armed[t].ctx \in cancelled
  /\ Becomes(t, "rejected")
  /\ UNCHANGED <<chanVars, cancelled, workerVars, stopper, panic, poolVars, armed>>

\* What a submission does once it is called: fairness is stated of this.
SubmitStep(t) ==
  \/ SubmitNow(t) \/ SubmitArm(t)
  \/ SubmitSend(t) \/ SubmitTimeout(t) \/ SubmitCancelled(t)
-----------------------------------------------------------------------------
InQueue(t) == \E i \in 1..Len(queue) : queue[i] = t
Held(t) == \E r \in Runs : Holds(r, t)

(***************************************************************************)
(* Where a task is.  "lost" is not a status of the ledger.                 *)
(***************************************************************************)
Status(t) ==
  CASE sub[t] = "idle"                    -> "new"
    [] InFlight(t)                        -> "calling"
    [] sub[t] = "rejected"                -> "rejected"
    [] Accepted(t) /\ InQueue(t)          -> "queued"
    [] Accepted(t) /\ ~InQueue(t) /\ Held(t) -> "held"
    [] OTHER -> IF executed[t] = 1 THEN "done" ELSE "lost"

Ledger == INSTANCE TaskLedger WITH
            Capacity <- QueueSize,
            Hands    <- Cardinality(Runs),
            status   <- [t \in Tasks |-> Status(t)]

\* The pool implements the ledger: its steps accept, hand out and complete
\* tasks only as the ledger allows (SubmitWithTimeout, Worker.Start).
ImplementsLedger == Ledger!Spec

\* An accepted task is in exactly one place: once in the channel, in the
\* hands of one goroutine, or executed once.  A task that is not accepted is
\* in none (SubmitWithTimeout and processTask, with restarts and panics).
ExactlyOnce ==
  /\ \A i, j \in 1..Len(queue) : queue[i] = queue[j] => i = j
  /\ \A r1, r2 \in Runs, t \in Tasks : Holds(r1, t) /\ Holds(r2, t) => r1 = r2
  /\ \A t \in Tasks :
       /\ executed[t] \in {0, 1}
       /\ Accepted(t) <=> (InQueue(t) \/ Held(t) \/ executed[t] = 1)
       /\ ~(InQueue(t) /\ Held(t))
       /\ executed[t] = 1 => ~(InQueue(t) \/ Held(t))

=============================================================================
