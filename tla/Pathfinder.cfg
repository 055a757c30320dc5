SPECIFICATION Spec
CONSTANTS
  None = None
  Node <- Nodes
  Source = 2
  Dest = 3
  Networks <- Nets
  Minute = 2
  MaxTime = 6
  Scenarios <- AllScenarios
  MaxTries = 4
INVARIANTS  LoopFree
 
CHECK_DEADLOCK FALSE
