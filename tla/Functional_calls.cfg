\* Three attempts of two branches each; a list of one step, up to three
\* chains, and builders with up to two steps; a task that is executed twice.
CONSTANTS
  f = f  g = g  x1 = x1  x2 = x2
  Executions <- TwoExecutions
  MaxRetries = 2
  Steps <- TwoSteps
  NoStep = NoStep
  FirstList <- OneStep
  MaxChains = 3
  MaxAdded = 2
SPECIFICATION Program
INVARIANTS AnswersOfOneAttempt OneAttemptAtATime RunsWhatWasComposed DoneForAReason
PROPERTIES CallReturns EndReachesTask
\* The call has returned.
CHECK_DEADLOCK FALSE
