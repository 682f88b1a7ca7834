\* Two goroutines share one Fibonacci strategy; nothing overflows here.
CONSTANTS
  Callers = {c1, c2}
  MaxInt = 127
  MaxInitial = 1  MaxIncrement = 0
  Multipliers = {1}  Unit = 1
  MaxDelays = {10}
  LastAttempt = 1
  BaseDelay = 2
  MaxDelay = 50
  MaxAttempt = 4
  AfterOverflow = 7
  CapDelay = 10
SPECIFICATION DelaysSpec
INVARIANTS ConcurrentCallsAreSafe
\* A panic ends the process.
CHECK_DEADLOCK FALSE
