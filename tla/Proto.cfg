SPECIFICATION Spec
CONSTANTS
  Conn = {c1, c2}
  Key <- Remotes
  Cases <- TheCases
  NumPeers <- Peers
  NumTree <- Tree
  KeySize = 2
  PacketMTU = 12
  MaxMTU = 6
  MaxNodeInfo = 5
  Wait = 1
  HalfMinute = 2
  MaxTime = 7
  MaxRequests = 3
  None = None
INVARIANTS NeverBlocks Forgotten
PROPERTY Answered
SYMMETRY Conns
CHECK_DEADLOCK FALSE
