\* Two tasks, and a boost that does not divide its maximum.
CONSTANTS
  t1 = t1  t2 = t2  t3 = t3  t4 = t4
  PriorityTasks = {t1, t2}
  Priorities = {1, 2}
  MaxWaitTime = 0
  PriorityBoostAmount = 2
  MaxPriorityBoost = 3
  MaxTime = 2
SPECIFICATION QueueSpec
INVARIANTS BoostWithinMax
\* Every task has left and the guard is gone.
CHECK_DEADLOCK FALSE
