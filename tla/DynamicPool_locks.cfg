\* Two goroutines scale, start, stop and close the pool, which has one
\* worker until ScaleUp finds it closed.
CONSTANTS
  t1 = t1  c1 = c1  c2 = c2
  NoTask = NoTask  Nobody = Nobody
  Tasks <- OneTask
  Callers <- TwoCallers
  Workers <- OneToTwo
  MinWorkers = 1
  MaxWorkers = 1
  QueueSize = 1
  MaxStarts = 1
  MaxRuns = 2
  MaxStops = 2
SPECIFICATION FairSpec
PROPERTIES CallsReturn
\* A panic ends the process.
CHECK_DEADLOCK FALSE
