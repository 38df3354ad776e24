CONSTANTS
  MaxPipes = 3
  MaxMsgs = 1
  Faults = {}
SPECIFICATION Spec
PROPERTY ConnectedMeansClient
CHECK_DEADLOCK FALSE
