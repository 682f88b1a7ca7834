\* Two goroutines call Start, Stop and Close while two submissions compete for a
\* channel of one; the second submission begins after the calls of c2.
CONSTANTS
  t1 = t1  t2 = t2  w1 = w1  c1 = c1  c2 = c2
  NoTask = NoTask
  Tasks <- TwoTasks
  Workers <- OneWorker
  Callers <- TwoCallers
  QueueSize = 1
  MaxStarts = 1
  MaxRuns = 1
  MaxStops = 1
SPECIFICATION ClientsSpec
INVARIANTS ClosedIsShutDown
PROPERTIES NothingAcceptedAfterClose
PROPERTIES AcceptedIsExecuted CallsReturn WorkersExit SubmissionsAnswered
\* The pool may be stopped, and a panic ends the process.
CHECK_DEADLOCK FALSE
