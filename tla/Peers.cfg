SPECIFICATION FairSpec
CONSTANTS
  Key <- TwoKeys
  Conn <- ThreeConns
  KeyOf <- Owners
  MaxPackets = 1
INVARIANTS PortsAgree NoStalePort HandledWhileKnown
PROPERTIES CloseEmpties
CHECK_DEADLOCK FALSE
