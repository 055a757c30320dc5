----------------------------- MODULE MCPathfinder -----------------------------
EXTENDS Pathfinder

Nodes == 1 .. 3
Net(parent) ==
  [parent |-> parent, links |-> {{n, parent[n]} : n \in {k \in Nodes : parent[k] # k}}]
Far == Net(<<1, 1, 1>>)
Near == Net(<<1, 1, 2>>)
Nets == {Far, Near}

Scenario(start, writes, kinds, moves, losses) ==
  [start |-> start, writes |-> [n \in {2, 3} |-> writes[n - 1]], kinds |-> kinds,
   moves |-> moves, losses |-> losses]
AllScenarios ==
  {Scenario(Far, <<5, 0>>, {"address"}, 1, 1)}
    \cup {Scenario(start, <<2, 0>>, Kinds, 1, 1) : start \in Nets}
    \cup {Scenario(start, <<1, 1>>, Kinds, 1, 0) : start \in Nets}
====
