----------------------------- MODULE ResultPool -----------------------------
(***************************************************************************)
(* The results that ExecuteAsync and ExecuteBatch fill and send a copy of  *)
(* (pkg/types/pools.go).  GetPooledResult makes a pool of its own for each *)
(* call, so that it always gets a new object, with the values that Put     *)
(* resets one to.  An input stands for the value that is computed from it. *)
(***************************************************************************)
EXTENDS Naturals, Sequences

CONSTANTS N

Inputs == 1..N

NoValue == 0

\* The index 0 of the code is 1 here.
Zero == [index |-> 1, value |-> NoValue]

GetPooledBatchResult == Zero

Put(result) == [result EXCEPT !.index = 1, !.value = NoValue]

Filled(i) == [GetPooledBatchResult EXCEPT !.index = i, !.value = i]

\* What has been sent, after a copy of the result was.
Sent(got, result) == [got EXCEPT ![result.index] = Append(@, result.value)]
=============================================================================
