------------------------------ MODULE Backoff ------------------------------
(***************************************************************************)
(* The exponential and the linear delays of pkg/retry: NextDelay of the    *)
(* policies (policy.go) and of the strategies (backoff.go), which differ   *)
(* in what they make of the attempt 0.  Every configuration within the     *)
(* bounds asks for the delays of its attempts in order.  The state has the *)
(* delay that NextDelay hands to the jitter; Jitter says what it answers.  *)
(***************************************************************************)
EXTENDS Jitter

CONSTANTS
  MaxInitial, MaxIncrement,  \* bounds of the configurations
  Multipliers, Unit,         \* those configured, as multiples of 1/Unit
  MaxDelays,                 \* the maximal delays configured
  LastAttempt                \* bounds the attempts

VARIABLES
  config,      \* kind, initialDelay, multiplier, increment and maxDelay
  attempt,
  exponential, \* NextDelay(attempt) before the jitter, for either formula
  linear

vars == <<config, attempt, exponential, linear>>

\* The options of both kinds set the multiplier and the maximum.
Configs == [kind : {"policy", "strategy"}, initial : 1..MaxInitial,
            multiplier : Multipliers, increment : 0..MaxIncrement,
            maxDelay : MaxDelays]

\* The strategies count an attempt below 1 as the first one.
Counted(c, a) == IF c.kind = "strategy" /\ a <= 0 THEN 1 ELSE a

\* Mutant: the limit is not applied.
LimitNone(c, delay) == delay
\* Mutant: past the limit the delays start again.
LimitRestarts(c, delay) == IF delay > c.maxDelay THEN c.initial ELSE delay
Limit(c, delay) == IF delay > c.maxDelay THEN c.maxDelay ELSE delay

\* The powers of a whole number.
Pow(m) == LET p[n \in Nat] == IF n = 0 THEN 1 ELSE m * p[n - 1] IN p

\* initialDelay * multiplier^(a - 1), cut off below the nanosecond; the exponent
\* -1 divides.  The rounding of floating point is left out.
Power(c, a) ==
  IF a = 0 THEN (c.initial * Unit) \div c.multiplier
  ELSE (c.initial * Pow(c.multiplier)[a - 1]) \div Pow(Unit)[a - 1]

Line(c, a) == c.initial + (a - 1) * c.increment

Exponential(c, a) == {Limit(c, d) : d \in FromFloat(Power(c, Counted(c, a)))}

Fixed(c) == c.initial

Linear(c, a) == Limit(c, Wrap(Line(c, Counted(c, a))))

\* The executor counts from 1, the pipeline from 0.
Init ==
  /\ config \in Configs
  /\ attempt \in {0, 1}
  /\ exponential \in Exponential(config, attempt)
  /\ linear = Linear(config, attempt)

NextDelay ==
  /\ attempt < LastAttempt
  /\ attempt' = attempt + 1
  /\ exponential' \in Exponential(config, attempt + 1)
  /\ linear' = Linear(config, attempt + 1)
  /\ UNCHANGED config
-----------------------------------------------------------------------------
First == Limit(config, config.initial)

\* No delay passes the maximum before the jitter, whatever the arithmetic made of
\* it.  As long as the product or the sum fits, no delay is below the initial one
\* or, with a multiplier below one, above it; and the delay of the first attempt
\* is the initial one.
InRange(delay, exact, growing) ==
  /\ delay <= config.maxDelay
  /\ attempt >= 1 /\ exact <= MaxInt => IF growing THEN First <= delay ELSE delay <= First
  /\ attempt = 1 => delay = First

Growing == config.multiplier >= Unit

DelaysInRange ==
  /\ InRange(exponential, Power(config, attempt), Growing)
  /\ InRange(linear, Line(config, attempt), TRUE)
  /\ \A delay \in {exponential, linear} :
       delay >= 0 => JitterInRange(delay, config.maxDelay)
  /\ JitterInRange(Fixed(config), Fixed(config))

\* From one attempt to the next neither delay gets shorter while it fits; with a
\* multiplier below one the exponential one does not get longer.
Grows ==
  /\ Power(config, Counted(config, attempt)) <= MaxInt /\ Power(config, attempt') <= MaxInt =>
       IF Growing THEN exponential' >= exponential ELSE exponential' <= exponential
  /\ Line(config, attempt') <= MaxInt => linear' >= linear
=============================================================================
