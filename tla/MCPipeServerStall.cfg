CONSTANTS
  MaxPipes = 2
  MaxMsgs = 1
  Faults = {}
SPECIFICATION Spec
INVARIANT QueueMeansWriteInProgress
CHECK_DEADLOCK FALSE
