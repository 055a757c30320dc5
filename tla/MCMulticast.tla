----------------------------- MODULE MCMulticast -----------------------------
(* Two nodes: one that sends beacons and one that listens, or both doing both. *)
EXTENDS Multicast

Nodes == 1 .. 2
Addrs == {{}, {1}, {2}}
Does(beacon, listen, password) == [beacon |-> beacon, listen |-> listen, password |-> password]
OneWay == <<Does(TRUE, FALSE, 1), Does(FALSE, TRUE, 1)>>
BothWays == <<Does(TRUE, TRUE, 1), Does(TRUE, TRUE, 1)>>
Scenario(nodes, faults, calls, stops) ==
  [config |-> nodes, left |-> [faults |-> faults, calls |-> calls, stops |-> stops]]
AllScenarios == {Scenario(OneWay, 2, 0, 0), Scenario(OneWay, 1, 0, 1), Scenario(OneWay, 0, 2, 1),
                 Scenario(BothWays, 1, 0, 0)}
=============================================================================
