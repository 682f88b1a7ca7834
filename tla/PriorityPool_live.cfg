\* Two tasks, one worker, and calls of Start, Stop and Close.
CONSTANTS
  NoTask = NoTask
  Tasks = {t1, t2}
  Workers = {w1}
  Callers = {c1}
  QueueSize = 1
  MaxStarts = 1
  MaxRuns = 1
  MaxStops = 1
SPECIFICATION FairSpec
INVARIANTS InOnePlace
PROPERTIES AcceptedIsExecuted WorkersExit
\* The pool may be stopped, and a panic ends the process.
CHECK_DEADLOCK FALSE
