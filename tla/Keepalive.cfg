SPECIFICATION FairSpec
CONSTANTS
  PeerTimeout = 4
  KeepAliveDelay = 1
  MaxDelay = 1
  MayCrash = {2}
INVARIANTS NoFalseTimeout
PROPERTIES GoneIsNoticed
CHECK_DEADLOCK FALSE
