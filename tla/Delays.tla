------------------------------- MODULE Delays -------------------------------
(***************************************************************************)
(* The delays of pkg/retry: a retry is configured with one strategy and    *)
(* asks it for its delays.  Exponential and linear delays are computed     *)
(* from the attempt alone; the Fibonacci and the decorrelated strategy     *)
(* keep state from call to call.                                           *)
(***************************************************************************)
EXTENDS Jitter, Sequences

CONSTANTS
  MaxInitial, MaxIncrement, Multipliers, Unit, MaxDelays, LastAttempt,  \* of Backoff
  Callers, MaxDelay, MaxAttempt, AfterOverflow,                         \* of Fibonacci
  CapDelay,                                                             \* of Decorrelated
  BaseDelay                                                 \* of the last two of them

\* No constructor looks at its arguments: these are the ones within reason, with a
\* delay and a multiplier above zero and a cap above its base.
ASSUME DelaysAssumption ==
  /\ MaxInt \in Nat
  /\ MaxInitial \in 1..MaxInt /\ MaxIncrement \in 0..MaxInt
  /\ Multipliers \subseteq Nat \ {0} /\ Unit \in Nat \ {0}
  /\ MaxDelays \subseteq 0..MaxInt /\ LastAttempt \in Nat
  /\ MaxDelay \in 0..MaxInt /\ MaxAttempt \in Nat /\ AfterOverflow \in 0..MaxInt
  /\ BaseDelay \in 1..MaxInt /\ CapDelay \in BaseDelay..MaxInt

VARIABLES
  strategy,
  config, asked, exponential, linear,
  fibCache, call, panic,
  prevDelay

F == INSTANCE Backoff WITH attempt <- asked
N == INSTANCE Fibonacci
D == INSTANCE Decorrelated

formulaVars == <<config, asked, exponential, linear>>
fibonacciVars == <<fibCache, call, panic>>
delaysVars == <<strategy, formulaVars, fibonacciVars, prevDelay>>

\* What is not the strategy's stays as it was created.
DelaysInit ==
  /\ strategy \in {"formula", "fibonacci", "decorrelated"}
  /\ F!Init /\ (strategy # "formula" => config = CHOOSE c \in F!Configs : TRUE)
  /\ N!Init
  /\ D!Init

Formula ==
  /\ strategy = "formula" /\ F!NextDelay
  /\ UNCHANGED <<strategy, fibonacciVars, prevDelay>>

Fibonacci ==
  /\ strategy = "fibonacci" /\ N!Next
  /\ UNCHANGED <<strategy, formulaVars, prevDelay>>

Decorrelated ==
  /\ strategy = "decorrelated" /\ D!Next
  /\ UNCHANGED <<strategy, formulaVars, fibonacciVars>>

DelaysNext == Formula \/ Fibonacci \/ Decorrelated

DelaysSpec == DelaysInit /\ [][DelaysNext]_delaysVars
-----------------------------------------------------------------------------
\* The limit is applied last of what is computed before the jitter, whatever wraps
\* around: no delay is above its maximum there or, before its numbers stop
\* fitting, below its minimum; the decorrelated one, which is random itself, never
\* is.  What the jitter does then: full and equal jitter keep the delay within the
\* maximum, a policy's passes it by at most its share, and exponential jitter has
\* no bound (NextDelay of every policy and strategy).
DelaysInRange == F!DelaysInRange /\ N!DelaysAreFibonacci /\ D!InRange

\* Backing off, before the jitter, never gets shorter from one attempt to the next,
\* from the 0 of the pipeline on, as long as the numbers fit; with a multiplier
\* below one, which no option refuses, it never gets longer
\* (ExponentialBackoffRetry and LinearBackoffRetry.NextDelay).
DelaysGrow == [][F!Grows]_delaysVars

\* Whatever attempts were asked for and wherever the cache was reset, it holds
\* the Fibonacci numbers as far as they fit (getFibonacci, Reset).
CacheIsFibonacci == N!CacheIsFibonacci

\* No order of the calls of several goroutines makes the strategy index its cache
\* out of range; doc.go says that all methods are safe to use concurrently
\* (getFibonacci, Reset).  The cache has no lock, and they may.
ConcurrentCallsAreSafe == ~panic
=============================================================================
