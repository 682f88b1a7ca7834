\* Two executions share the statistics, which are reset twice.  Every strategy
\* runs past the largest integer: the powers of 2 reach 1280 and those of 3/2
\* reach 128, the sums 165, the twelfth Fibonacci number is 144, three times a
\* delay wraps around from 43 on, and a delay of 100 does so with its jitter;
\* with 1/2 the delays fall to 0.  Four wrappers are enough to put two marks and
\* two other layers around a root in any order.  Two custom handlers share a name, so
\* that one can follow the other.
CONSTANTS
  Executions = {e1, e2}
  MaxAttempts = 3
  MaxResets = 2
  Callers = {c1}
  MaxInt = 127
  MaxInitial = 5  MaxIncrement = 20
  Multipliers = {1, 3, 4}  Unit = 2
  MaxDelays = {10, 50, 100}
  LastAttempt = 9
  BaseDelay = 2
  MaxDelay = 50
  MaxAttempt = 14
  AfterOverflow = 7
  CapDelay = 120
  MaxLayers = 4
  failFast = failFast  continueOnError = continueOnError  h1 = h1  h2 = h2
  t1 = t1  t2 = t2
  Handlers <- FourHandlers
  Names <- ThreeNames
  Name <- NameOf
  Types = {t1, t2}
  NoHandler = NoHandler
  FailFast <- failFast
  ContinueOnError <- continueOnError
  HasTimeout = {t2}
  HasTemporary = {}
  timeoutErrorType = timeoutErrorType
  tempErrorType = tempErrorType
  Goroutines = {c1}
SPECIFICATION FailuresSpec
INVARIANTS AttemptsWithinMax StatsAddUp DelaysInRange CacheIsFibonacci
INVARIANTS BindingsRegistered CanHandleAgrees
PROPERTIES ExecutionsEnd DelaysGrow VerdictSurvivesWrapping
\* The attempts and the layers are used up.
CHECK_DEADLOCK FALSE
