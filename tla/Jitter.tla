------------------------------- MODULE Jitter -------------------------------
(***************************************************************************)
(* The random changes of a delay (pkg/retry): each operator is the set of  *)
(* the durations its function may return.  rand.Int63n(n) is one of        *)
(* 0..n-1 and panics for n = 0, which is the empty set here.  Policies and *)
(* strategies apply the jitter after they applied the maximum.             *)
(***************************************************************************)
EXTENDS Integers

\* The largest time.Duration, which stands for 2^63 - 1; sums and products wrap
\* around.
CONSTANT MaxInt

MinInt == -MaxInt - 1

Wrap(x) == ((x - MinInt) % (2 * (MaxInt + 1))) + MinInt

\* time.Duration of a float: on amd64 the smallest integer if it does not fit,
\* on arm64 the nearest one.
FromFloat(x) == IF x <= MaxInt THEN {x} ELSE {MinInt, MaxInt}

Abs(x) == IF x < 0 THEN -x ELSE x
Half(delay) == IF delay < 0 THEN -(Abs(delay) \div 2) ELSE delay \div 2

\* Mutant: a sum that wrapped around is returned.
NonNegativeNever(result, delay) == result
NonNegative(result, delay) == IF result < 0 THEN Half(delay) ELSE result

FullJitter(delay) == IF delay <= 0 THEN {0} ELSE 0..(delay - 1)

EqualJitter(delay) ==
  IF delay <= 0 THEN {0} ELSE {Half(delay) + r : r \in 0..(Half(delay) - 1)}

\* The exponential distribution has no upper end, whatever the factor.
ExponentialJitter(delay) ==
  IF delay <= 0 THEN {0}
  ELSE {NonNegative(Wrap(delay + j), delay) : j \in 0..MaxInt \cup FromFloat(MaxInt + 1)}

\* jitterFactor: a tenth, or what WithJitter sets if it is at most the whole.
Percents == {10, 100}

\* applyJitter of the policies: up to percent of the delay, either way.
applyJitter(delay, percent) ==
  LET range == (Abs(delay) * percent) \div 100
  IN  {NonNegative(Wrap(delay + j), delay) : j \in -range..range}
-----------------------------------------------------------------------------
\* A delay within its maximum and not negative does not become negative, also when
\* the sum does not fit.  Full and equal jitter keep it within the maximum, and
\* equal jitter keeps half of it; of 1ns it makes a panic.  A policy changes it by
\* its share, or halves it when the sum does not fit, and so may pass the maximum
\* by that share.  Exponential jitter lengthens or halves it, without a bound.
JitterInRange(delay, maxDelay) ==
  /\ FullJitter(delay) \subseteq 0..maxDelay
  /\ delay # 1 => /\ EqualJitter(delay) # {}
                  /\ EqualJitter(delay) \subseteq Half(delay)..maxDelay
  /\ ExponentialJitter(delay) \subseteq delay..MaxInt \cup {Half(delay)}
  /\ \A percent \in Percents : \A d \in applyJitter(delay, percent) :
       /\ d \in 0..MaxInt
       /\ d = Half(delay) \/ Abs(d - delay) * 100 <= delay * percent
       /\ d * 100 <= maxDelay * (100 + percent)
=============================================================================
