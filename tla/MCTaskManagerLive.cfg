CONSTANTS
  NoTask = NoTask
  t1 = t1
  t2 = t2
  Workers = {w1, w2}
  Tasks <- MCTasks
  Delay <- MCDelay
  MaxEnqueues = 1
  MaxStarts = 1
SPECIFICATION FairSpec
PROPERTIES
  QueuedSettled
  DelayedHandedOn
  StopReturns
CHECK_DEADLOCK FALSE
