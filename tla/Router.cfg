SPECIFICATION FairSpec
CONSTANTS
  Node <- Nodes
  Link <- Links
  Ends <- LinkEnds
  Joined = {"13", "13b"}
  Costs = {1}
  Nonce = {0, 1, 2}
  FirstNonce = {1}
  MaxSeq = 20
  Scenarios <- AllScenarios
INVARIANTS TypeOK SentKnown OwnIsNewest SentArrives
PROPERTIES InfosOnlyImprove Converges Quiesces
