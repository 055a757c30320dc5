SPECIFICATION FairSpec
CONSTANTS
  Reader = {1}
  MaxPackets = 3
  MaxSets = 2
  MaxPops = 2
INVARIANTS NoPanicInTime InOrder
PROPERTIES ReadsReturn OnlyLatestFires
CHECK_DEADLOCK FALSE
