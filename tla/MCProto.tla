------------------------------- MODULE MCProto -------------------------------
(* One remote node, a response of whose peers or tree just does not fit. *)
EXTENDS Proto, TLC

Remotes == {1}
Peers == [n \in Remotes |-> 6]
Tree == [n \in Remotes |-> 2]
TheCases == {{"getself"}, {"getpeers"}, {"gettree"}, {"getnodeinfo"}}
Conns == Permutations(Conn)
=============================================================================
