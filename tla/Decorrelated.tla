---------------------------- MODULE Decorrelated ----------------------------
(***************************************************************************)
(* DecorrelatedJitterBackoff (pkg/retry/backoff.go): a random delay between*)
(* the base and three times the previous delay, up to the cap.             *)
(***************************************************************************)
EXTENDS Jitter

CONSTANTS BaseDelay, CapDelay

VARIABLE prevDelay   \* b.prevDelay, which is also what NextDelay returned

Init == prevDelay = BaseDelay

\* The upper end of the range, before it is compared with the base.
Limit == LET maxDelay == Wrap(prevDelay * 3)
         IN  IF maxDelay > CapDelay THEN CapDelay ELSE maxDelay

\* Mutant: an upper end below the base is not noticed.
NextDelayNoFloor == prevDelay' \in {Limit} \cup BaseDelay..(Limit - 1)

\* rand.Int63n excludes its bound.
NextDelay ==
  \/ Limit <= BaseDelay /\ prevDelay' = BaseDelay
  \/ Limit > BaseDelay /\ prevDelay' \in BaseDelay..(Limit - 1)

Reset == prevDelay' = BaseDelay

Next == NextDelay \/ Reset

\* However often the product wraps around, a delay is between the base and the
\* cap.
InRange == prevDelay \in BaseDelay..CapDelay
=============================================================================
