\* Two tasks, one worker, a channel of one; the pool may be stopped and started
\* again, so that the worker may have two goroutines.
CONSTANTS
  t1 = t1  t2 = t2  w1 = w1  c1 = c1  c2 = c2
  NoTask = NoTask
  Tasks <- TwoTasks
  Workers <- OneWorker
  Callers <- OneCaller
  QueueSize = 1
  MaxStarts = 2
  MaxRuns = 2
  MaxStops = 2
SPECIFICATION Spec
INVARIANTS ExactlyOnce StatsAccountForTasks StopWaitsForWorker
PROPERTIES ImplementsLedger
SYMMETRY Symmetry
\* The pool may be stopped, and a panic ends the process.
CHECK_DEADLOCK FALSE
