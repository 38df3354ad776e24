CONSTANTS
  MaxPipes = 3
  MaxMsgs = 1
  Faults = {"wait", "oversize"}
SPECIFICATION FairSpec
PROPERTIES
  StopIsFinal
  Relisten
  ClientNoticed
  
  
CHECK_DEADLOCK FALSE
