SPECIFICATION FairSpec
CONSTANTS
  MaxQueued = 3
  MaxDirect = 3
  Big = {}
INVARIANTS InOrder SomeoneAsks
PROPERTIES AllLeave
CHECK_DEADLOCK FALSE
