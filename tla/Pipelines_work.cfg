\* Two jobs and two calls of Start, Stop or Close, where the policy ends the
\* retries before MaxRetries does; or five inputs for three workers, a semaphore
\* of two places, or calls of their own.
CONSTANTS
  Jobs = {j1, j2}
  Callers = {c1, c2}
  MaxRetries = 3
  PolicyMax = 1
  ZeroDelay = TRUE
  N = 5
  Workers = {w1, w2, w3}
  Concurrency = 2
SPECIFICATION PipelinesSpec
INVARIANTS AttemptsBounded
PROPERTIES NeverBack CallsReturn ImplementsContract BatchEnds
\* Every job and every call has returned, and the batch is done.
CHECK_DEADLOCK FALSE
