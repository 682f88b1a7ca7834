\* Two goroutines scale, start, stop and close the pool.
CONSTANTS
  t1 = t1  c1 = c1  c2 = c2
  NoTask = NoTask  Nobody = Nobody
  Tasks = {}
  Callers <- TwoCallers
  Workers <- OneToTwo
  MinWorkers = 1
  MaxWorkers = 2
  QueueSize = 1
  MaxStarts = 1
  MaxRuns = 2
  MaxStops = 2
SPECIFICATION Spec
INVARIANTS SizeInRange RemovedAreTold AddedAreServing
\* A panic ends the process.
CHECK_DEADLOCK FALSE
SYMMETRY Symmetry
