------------------------------ MODULE MCRouter ------------------------------
(* The instance of Router for TLC: one set of nodes and links, in which the  *)
(* initial state picks the links that are configured and the events that may *)
(* happen.                                                                   *)
EXTENDS Router

Nodes == {1, 2, 3}
Links == {"13", "13b", "23"}
LinkEnds == [l \in Links |-> IF l = "23" THEN {2, 3} ELSE {1, 3}]

Events(d, e, f, r) ==
  [k \in Kinds |-> CASE k = "drop" -> d [] k = "expire" -> e
                     [] k = "refresh" -> f [] k = "restart" -> r]

\* Three nodes in a line, the best root at one end, and one refresh.
Line == [links |-> {"13", "23"}, may |-> Events(0, 0, 1, 0)]

\* Two nodes connected twice: one end of a connection fails, or an info expires.
Pairs == {[links |-> {"13", "13b"}, may |-> m] :
            m \in {Events(1, 0, 0, 0), Events(0, 1, 0, 0)}}

\* Two nodes with one link, which fails, and one of which restarts.
Restarting == [links |-> {"13"}, may |-> Events(1, 0, 0, 1)]

AllScenarios == {Line, Restarting} \cup Pairs
=============================================================================
