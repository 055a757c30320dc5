SPECIFICATION FairSpec
CONSTANTS
  DialInfo = {"d"}
  AcceptInfo = {"t", "s"}
  RemoveInfo = {"d"}
  SharedInfo = {}
  TlsInfo = {"s"}
  MaxG = 3
  MaxBackoff = 1
INVARIANTS Tracked
PROPERTIES PersistentStays StopEnds
CHECK_DEADLOCK FALSE
