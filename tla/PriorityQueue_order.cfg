\* Four tasks that are pushed, popped, changed, and promoted as they age.
CONSTANTS
  t1 = t1  t2 = t2  t3 = t3  t4 = t4
  PriorityTasks <- FourTasks
  Priorities = {1, 2}
  MaxWaitTime = 0
  PriorityBoostAmount = 2
  MaxPriorityBoost = 3
  MaxTime = 2
SPECIFICATION QueueSpec
INVARIANTS StatsAccountForTasks TakesHighest OlderIsBoostedMore
SYMMETRY Symmetry
\* Every task has left and the guard is gone.
CHECK_DEADLOCK FALSE
