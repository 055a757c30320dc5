SPECIFICATION FairSpec
CONSTANTS
  Node <- Nodes
  AddressSets <- Addrs
  InitialAddrs = {1}
  Scenarios <- AllScenarios
  MaxInterval = 2
  MaxDelay = 2
  None = None
INVARIANTS Audible
PROPERTIES Discovers StopEnds
