\* Submit racing with Close.
CONSTANTS
  t1 = t1  t2 = t2  w1 = w1  c1 = c1  c2 = c2
  NoTask = NoTask
  Tasks <- OneTask
  Workers <- OneWorker
  Callers <- OneCaller
  QueueSize = 1
  MaxStarts = 1
  MaxRuns = 1
  MaxStops = 1
SPECIFICATION Spec
INVARIANTS SubmitNeverPanics
\* A panic ends the process.
CHECK_DEADLOCK FALSE
