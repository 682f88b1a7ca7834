----------------------------- MODULE TaskLedger -----------------------------
(***************************************************************************)
(* What a worker pool promises about a task, whatever its queue and its    *)
(* goroutines look like: a submission is accepted or rejected, never both; *)
(* only an accepted task is executed, by one worker, once; the pool holds  *)
(* at most Capacity waiting tasks and executes at most Hands at a time.    *)
(* Nothing is promised about when, nor that an accepted task is executed.  *)
(***************************************************************************)
EXTENDS Naturals, FiniteSets

CONSTANTS Tasks, Capacity, Hands

VARIABLE status

Statuses == {"new", "calling", "rejected", "queued", "held", "done"}
In(s) == {t \in Tasks : status[t] = s}
Move(t, from, to) == status[t] = from /\ status' = [status EXCEPT ![t] = to]

Init == status = [t \in Tasks |-> "new"]

Call(t)     == Move(t, "new", "calling")
Refuse(t)   == Move(t, "new", "rejected")
Reject(t)   == Move(t, "calling", "rejected")
Accept(t)   == Move(t, "calling", "queued") /\ Cardinality(In("queued")) < Capacity
Take(t)     == Move(t, "queued", "held") /\ Cardinality(In("held")) < Hands
Complete(t) == Move(t, "held", "done")

Next == \E t \in Tasks : Call(t) \/ Refuse(t) \/ Reject(t)
                         \/ Accept(t) \/ Take(t) \/ Complete(t)

Spec == Init /\ [][Next]_status
=============================================================================
