------------------------------- MODULE MCPeers -------------------------------
(* Two connections to one node and one to another. *)
EXTENDS Peers

TwoKeys == {"a", "b"}
ThreeConns == 1..3
Owners == <<"a", "a", "b">>
=============================================================================
