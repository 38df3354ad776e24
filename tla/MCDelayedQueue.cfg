CONSTANTS
  Tasks = {t1, t2}
  kCheckDelayQueueInterval = 2
  Delays <- MCDelays
  MaxTime = 9
SPECIFICATION Spec
INVARIANTS
  NeverEarly
  NeverTwiceLate
CHECK_DEADLOCK FALSE
