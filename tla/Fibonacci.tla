----------------------------- MODULE Fibonacci -----------------------------
(***************************************************************************)
(* FibonacciBackoff (pkg/retry/backoff.go): NextDelay computes its number  *)
(* from a cache it extends without a lock.  The slice header is read and   *)
(* written as one value here, which is the best the build can give.        *)
(***************************************************************************)
EXTENDS Jitter, Sequences

CONSTANTS
  Callers,
  BaseDelay, MaxDelay,
  MaxAttempt,  \* the attempts asked for are 1..MaxAttempt
  AfterOverflow \* what replaces a sum that wrapped: math.MaxInt32

VARIABLES
  fibCache, \* b.fibCache
  call,     \* the call of NextDelay of each caller
  panic     \* an index was out of range

vars == <<fibCache, call, panic>>

\* n: the index asked for; i: the loop variable; delay: the limited delay, which
\* NextDelay hands to the jitter.
Init ==
  /\ fibCache = <<1, 1>>
  /\ call = [c \in Callers |-> [pc |-> "idle", n |-> 0, i |-> 0, delay |-> 0]]
  /\ panic = FALSE
-----------------------------------------------------------------------------
\* fibCache[i] of the code: indices start at 0 there, at 1 here.
At(i) == fibCache[i + 1]

InCall(c) == call[c].pc \in {"check", "extend", "read"}

NextDelay(c, a) ==
  /\ ~InCall(c)
  /\ call' = [call EXCEPT ![c] =
       [pc |-> "check", n |-> (IF a <= 0 THEN 1 ELSE a) - 1, i |-> 0, delay |-> 0]]
  /\ UNCHANGED <<fibCache, panic>>

Check(c) ==
  /\ call[c].pc = "check"
  /\ call' = [call EXCEPT ![c] =
       IF @.n < Len(fibCache) THEN [@ EXCEPT !.pc = "read"]
       ELSE [@ EXCEPT !.pc = "extend", !.i = Len(fibCache)]]
  /\ UNCHANGED <<fibCache, panic>>

\* Mutant: the last number is added to itself.
SumDoubles(i) == Wrap(At(i - 1) + At(i - 1))

Sum(i) ==
  LET next == Wrap(At(i - 1) + At(i - 2))
  IN  IF next < At(i - 1) THEN AfterOverflow ELSE next

\* One turn of the loop.
Extend(c) ==
  /\ call[c].pc = "extend"
  /\ \/ /\ call[c].i > call[c].n
        /\ call' = [call EXCEPT ![c].pc = "read"]
        /\ UNCHANGED <<fibCache, panic>>
     \/ /\ call[c].i <= call[c].n /\ call[c].i > Len(fibCache)
        /\ panic' = TRUE
        /\ UNCHANGED <<fibCache, call>>
     \/ /\ call[c].i <= call[c].n /\ call[c].i <= Len(fibCache)
        /\ fibCache' = Append(fibCache, Sum(call[c].i))
        /\ call' = [call EXCEPT ![c].i = @ + 1]
        /\ UNCHANGED panic

\* Mutant: the limit is not applied.
LimitNone(delay) == delay
Limit(delay) == IF delay > MaxDelay THEN MaxDelay ELSE delay

Read(c) ==
  /\ call[c].pc = "read"
  /\ IF call[c].n < Len(fibCache)
     THEN /\ call' = [call EXCEPT ![c].pc = "returned",
                                  ![c].delay = Limit(Wrap(At(call[c].n) * BaseDelay))]
          /\ UNCHANGED panic
     ELSE panic' = TRUE /\ UNCHANGED call
  /\ UNCHANGED fibCache

\* Between two steps of a NextDelay it comes from another goroutine.
Reset ==
  /\ \E c \in Callers : ~InCall(c)
  /\ fibCache' = SubSeq(fibCache, 1, 2)
  /\ UNCHANGED <<call, panic>>

Next ==
  /\ ~panic
  /\ \/ \E c \in Callers :
          \/ \E a \in 0..MaxAttempt : NextDelay(c, a)
          \/ Check(c) \/ Extend(c) \/ Read(c)
     \/ Reset
-----------------------------------------------------------------------------
\* The Fibonacci numbers, each from its definition.
Fib[n \in Nat] == IF n <= 1 THEN 1 ELSE Fib[n - 1] + Fib[n - 2]

\* Whatever attempts were asked for and wherever the cache was reset, no index
\* is out of range and the cache holds the Fibonacci numbers as far as they fit.
CacheIsFibonacci ==
  /\ ~panic
  /\ \A i \in 1..Len(fibCache) : Fib[i - 1] <= MaxInt => fibCache[i] = Fib[i - 1]

\* As far as the product fits, a call computes the product of its Fibonacci number,
\* up to the maximum; it never passes the maximum before the jitter, and the
\* jitter does with it what it does with any delay.
DelaysAreFibonacci ==
  \A c \in Callers : call[c].pc = "returned" =>
    LET exact == Fib[call[c].n] * BaseDelay IN
    /\ call[c].delay <= MaxDelay
    /\ exact <= MaxInt =>
         call[c].delay = IF exact > MaxDelay THEN MaxDelay ELSE exact
    /\ call[c].delay >= 0 => JitterInRange(call[c].delay, MaxDelay)
=============================================================================
