CONSTANTS
  NoTask = NoTask
  t1 = t1
  t2 = t2
  Workers = {w1, w2}
  Tasks <- MCTasks
  Delay <- MCDelay
  MaxEnqueues = 2
  MaxStarts = 2
SPECIFICATION Spec
SYMMETRY WorkerSymmetry
INVARIANTS
  TypeOK
  NoTaskLost
  NoLostWakeup
  Cancelable
PROPERTIES
  DelayedReleased
  ImplementsTaskRunner
CHECK_DEADLOCK FALSE
