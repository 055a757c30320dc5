SPECIFICATION FairSpec
CONSTANTS
  Node <- Nodes
  Conn <- Conns
  Ends <- ConnEnds
  Worlds <- BothWorlds
  Period = 2
  SeqMod = 3
INVARIANTS Known
PROPERTIES Complete Agree
