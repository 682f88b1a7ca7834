---------------------------- MODULE BatchContract ----------------------------
(***************************************************************************)
(* What the reader of a batch is promised: no input is executed twice or   *)
(* more than limit at a time; a result is that of its own input; at most   *)
(* one of each input, and exactly one unless the context may end a batch   *)
(* early and did; and no result after the channel is closed.               *)
(***************************************************************************)
EXTENDS Naturals, FiniteSets, Sequences

CONSTANT Inputs

VARIABLES
  limit,     \* how many inputs may be executed at a time
  lossy,     \* the end of the context may end the batch early
  begun, executing, \* the inputs whose execution has begun, or is going on
  got,       \* the values of the results of each input
  ctxDone,   \* the context of the batch ended
  closed     \* the result channel is closed

vars == <<limit, lossy, begun, executing, got, ctxDone, closed>>

Init ==
  /\ limit \in Nat /\ lossy \in BOOLEAN
  /\ begun = {} /\ executing = {}
  /\ got = [i \in Inputs |-> <<>>]
  /\ ctxDone = FALSE
  /\ closed = FALSE

Begin(i) ==
  /\ i \notin begun /\ Cardinality(executing) < limit
  /\ begun' = begun \cup {i} /\ executing' = executing \cup {i}
  /\ UNCHANGED <<limit, lossy, got, ctxDone, closed>>

End(i) ==
  /\ i \in executing
  /\ executing' = executing \ {i}
  /\ UNCHANGED <<limit, lossy, begun, got, ctxDone, closed>>

\* The value of a result is known by its input.
Deliver(i) ==
  /\ ~closed /\ got[i] = <<>> /\ i \in begun \ executing
  /\ got' = [got EXCEPT ![i] = <<i>>]
  /\ UNCHANGED <<limit, lossy, begun, executing, ctxDone, closed>>

Cancel ==
  /\ ~ctxDone /\ ctxDone' = TRUE
  /\ UNCHANGED <<limit, lossy, begun, executing, got, closed>>

Close ==
  /\ ~closed /\ executing = {}
  /\ (lossy /\ ctxDone) \/ \A i \in Inputs : got[i] # <<>>
  /\ closed' = TRUE
  /\ UNCHANGED <<limit, lossy, begun, executing, got, ctxDone>>

Next == (\E i \in Inputs : Begin(i) \/ End(i) \/ Deliver(i)) \/ Cancel \/ Close

Spec == Init /\ [][Next]_vars
=============================================================================
