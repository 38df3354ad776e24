CONSTANTS
  MaxPipes = 3
  MaxMsgs = 2
  Faults = {"create", "event", "wait", "oversize"}
SPECIFICATION Spec
INVARIANTS
  TypeOK
  OneInstance
PROPERTIES
  ImplementsMessageChannel
CHECK_DEADLOCK FALSE
