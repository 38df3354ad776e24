CONSTANTS
  MaxRegisters = 2
  MaxReplies = 1
  Handshake = TRUE
SPECIFICATION FairSpec
INVARIANTS
  TypeOK
  PipeUsedByOne
  ClosedWhenEnded
PROPERTIES
  RegisterWritten
  ClientThreadLeaves
  
CHECK_DEADLOCK FALSE
