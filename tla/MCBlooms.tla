------------------------------- MODULE MCBlooms -------------------------------
(* Three nodes in two networks. *)
EXTENDS Blooms

Nodes == {1, 2, 3}
ConnEnds == [x |-> {1, 2}, y |-> {1, 2}, bc |-> {2, 3}, ac |-> {1, 3}]
Conns == DOMAIN ConnEnds

\* Each node is connected to the others; the tree goes from the line 1 - 2 - 3 to
\* the line 2 - 1 - 3, so that 2 and 3 are no longer neighbours on it.
Turning == [conns |-> {"x", "bc", "ac"}, joined |-> {"x", "bc", "ac"}, mayBreak |-> {},
            before |-> <<1, 1, 2>>, after |-> <<1, 1, 1>>]

\* 2 gets a second connection to 1, which breaks, and 2 joins the tree of 1 and 3.
Twice == [conns |-> {"x", "y", "ac"}, joined |-> {"x", "ac"}, mayBreak |-> {"y"},
          before |-> <<1, 2, 1>>, after |-> <<1, 1, 1>>]

BothWorlds == {Turning, Twice}
=============================================================================
