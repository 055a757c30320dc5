-------------------------------- MODULE Blooms --------------------------------
(***************************************************************************)
(* The bloom filters that nodes exchange along the tree                    *)
(* (ironwood/network/bloomfilter.go): for each neighbour on the tree, a    *)
(* node sends the union of its own key and of what it receives from the    *)
(* other neighbours on the tree, so that a lookup is sent only where the   *)
(* key it looks for may be.                                                *)
(*                                                                         *)
(* A filter is the set of keys put into it.  The tree comes from the       *)
(* router: every node goes from its parent in the tree before to its       *)
(* parent in the tree after at a time of its own, once it is connected to  *)
(* that one, and its neighbours learn of it later.                         *)
(* A connection is added and removed at each end separately; what was sent *)
(* before it broke may still be read.                                      *)
(***************************************************************************)
EXTENDS Naturals, Sequences, FiniteSets, Functions

CONSTANTS
  Node,
  Conn,      \* connections; there may be several between two nodes
  Ends,      \* conn -> its two nodes
  Worlds,    \* the networks that are checked, see World
  Period,    \* maintenances after which a filter is sent again (3600)
  SeqMod     \* the values of their counter, a uint16

\* A network: the connections there are, those up at both ends to begin with and
\* those that may break, and the trees as node -> parent, a root its own parent.
World == [conns : SUBSET Conn, joined : SUBSET Conn, mayBreak : SUBSET Conn,
          before : [Node -> Node], after : [Node -> Node]]

ASSUME BloomsAssumption ==
  /\ Ends \in [Conn -> SUBSET Node]
  /\ \A c \in Conn : Cardinality(Ends[c]) = 2
  /\ Worlds \subseteq World
  /\ Period \in Nat \ {0, 1} /\ SeqMod \in Nat /\ SeqMod > Period

VARIABLES
  world,   \* the member of Worlds this behaviour belongs to
  up,      \* node -> its connections, router.peers
  broken,  \* connections that are broken
  net,     \* node -> connection -> filters on their way to the node
  parent,  \* node -> router.infos: node -> parent, as the node knows it
  blooms   \* node -> blooms.blooms: neighbour -> bloomInfo

vars == <<world, up, broken, net, parent, blooms>>

Other(c, n) == CHOOSE m \in Ends[c] : m # n
PeersOf(n, conns) == {Other(c, n) : c \in conns}
Between(n, k, conns) == {c \in conns : Other(c, n) = k}

\* _addInfo
NewInfo == [send |-> {}, recv |-> {}, seq |-> 0, onTree |-> FALSE, zDirty |-> FALSE]

Init ==
  /\ world \in Worlds
  /\ up = [n \in Node |-> {c \in world.joined : n \in Ends[c]}]
  /\ broken = {}
  /\ net = [n \in Node |-> [c \in Conn |-> <<>>]]
  /\ parent = [n \in Node |-> world.before]
  /\ blooms = [n \in Node |-> [k \in PeersOf(n, up[n]) |-> NewInfo]]

\* The filters f[k] sent to each peer k in the domain of f over all connections
\* to it; what is sent into a broken connection is lost.
SendFrom(n, f) ==
  net' = [m \in Node |-> [c \in Conn |->
    IF c \in up[n] \ broken /\ m = Other(c, n) /\ m \in DOMAIN f
      THEN Append(net[m][c], f[m])
      ELSE net[m][c]]]

-----------------------------------------------------------------------------
(* The tree *)

Reparent(n) ==
  /\ parent[n][n] # world.after[n]
  /\ world.after[n] \in {n} \cup PeersOf(n, up[n])
  /\ parent' = [parent EXCEPT ![n][n] = world.after[n]]
  /\ UNCHANGED <<world, up, broken, net, blooms>>

Learn(n, k) ==
  /\ parent[n][k] # parent[k][k]
  /\ k \in PeersOf(n, up[n])
  /\ parent' = [parent EXCEPT ![n][k] = parent[k][k]]
  /\ UNCHANGED <<world, up, broken, net, blooms>>

-----------------------------------------------------------------------------
(* addPeer, removePeer and handleBloom *)

AddPeer(n, c) ==
  LET k == Other(c, n)
  IN  /\ c \in world.conns \ broken /\ n \in Ends[c] /\ c \notin up[n]
      /\ up' = [up EXCEPT ![n] = @ \cup {c}]
      /\ blooms' = IF k \in DOMAIN blooms[n] THEN blooms
                   ELSE [blooms EXCEPT ![n] = [j \in DOMAIN @ \cup {k} |->
                           IF j = k THEN NewInfo ELSE @[j]]]
      /\ net' = [net EXCEPT ![k][c] = Append(@, blooms'[n][k].send)]
      /\ UNCHANGED <<world, broken, parent>>

Break(c) ==
  /\ c \in world.mayBreak \ broken
  /\ \E n \in Ends[c] : c \in up[n]
  /\ broken' = broken \cup {c}
  /\ UNCHANGED <<world, up, net, parent, blooms>>

\* The network with the filter for k sent again over the connections left to it:
\* the one that ended may have delivered an old filter last.
Resent(n, k, left) ==
  [net EXCEPT ![k] = [c \in Conn |->
     IF c \in Between(n, k, left) \ broken THEN Append(net[k][c], blooms[n][k].send)
                                           ELSE net[k][c]]]

\* Mutant: the filters go with the first connection of a neighbour.
RemovePeer_Mutant(n, c) ==
  LET k == Other(c, n)
      left == up[n] \ {c}
  IN  /\ c \in up[n] \cap broken
      /\ up' = [up EXCEPT ![n] = left]
      /\ net' = [net EXCEPT ![n][c] = <<>>]
      /\ blooms' = [blooms EXCEPT ![n] = Restrict(@, DOMAIN @ \ {k})]
      /\ UNCHANGED <<world, broken, parent>>

\* Whatever has arrived and was not read yet is lost.
RemovePeer(n, c) ==
  LET k == Other(c, n)
      left == up[n] \ {c}
  IN  /\ c \in up[n] \cap broken
      /\ up' = [up EXCEPT ![n] = left]
      /\ net' = [Resent(n, k, left) EXCEPT ![n][c] = <<>>]
      /\ blooms' = IF Between(n, k, left) # {} THEN blooms
                   ELSE [blooms EXCEPT ![n] = Restrict(@, DOMAIN @ \ {k})]
      /\ UNCHANGED <<world, broken, parent>>

HandleBloom(n, c) ==
  /\ c \in up[n]
  /\ net[n][c] # <<>>
  /\ net' = [net EXCEPT ![n][c] = Tail(@)]
  /\ blooms' = [blooms EXCEPT ![n][Other(c, n)].recv = Head(net[n][c])]
  /\ UNCHANGED <<world, up, broken, parent>>

-----------------------------------------------------------------------------
(* Maintenance *)

OnTree(n, k) == parent[n][n] = k \/ parent[n][k] = n

\* A neighbour that leaves the tree gets a blank filter.
FixOnTree(n, k) ==
  LET pbi == blooms[n][k]
  IN  [pbi EXCEPT !.onTree = OnTree(n, k),
                  !.send = IF pbi.onTree /\ ~OnTree(n, k) THEN {} ELSE @]

\* Mutant: the test for the neighbour itself is the wrong way round.
Needed_Mutant(n, k, infos) ==
  {n} \cup UNION {infos[j].recv : j \in {i \in DOMAIN infos : infos[i].onTree /\ i = k}}

\* What a neighbour should be told: our key, and what the others tell us.
Needed(n, k, infos) ==
  {n} \cup UNION {infos[j].recv : j \in {i \in DOMAIN infos : infos[i].onTree /\ i # k}}

\* _getBloomFor, with keepOnes = ~zDirty: old keys stay for one more round.  The
\* flag that says so is stored only if the filter is new.
GetBloomFor(n, k, infos) ==
  LET pbi == infos[k]
      need == Needed(n, k, infos)
      b == IF pbi.zDirty THEN need ELSE need \cup pbi.send
  IN  IF b = pbi.send
        THEN pbi
        ELSE [pbi EXCEPT !.send = b, !.zDirty = ~pbi.zDirty /\ b # need]

\* Mutant: only changes are sent.
Due_Mutant(old, new) == new.send # old.send

\* _sendAllBlooms: a filter that is new, or has not been sent for a Period.
Due(old, new) == new.send # old.send \/ (new.seq + 1) % SeqMod >= Period

Maintained(n, k, infos) ==
  IF ~infos[k].onTree THEN infos[k]
  ELSE LET new == GetBloomFor(n, k, infos)
       IN  [new EXCEPT !.seq = IF Due(infos[k], new) THEN 0 ELSE (@ + 1) % SeqMod]

\* The blank filter, then the new one, if there are both, go out in this order;
\* there never are: a neighbour that left the tree gets only the first.
Maintenance(n) ==
  LET fixed == [k \in DOMAIN blooms[n] |-> FixOnTree(n, k)]
      done == [k \in DOMAIN fixed |-> Maintained(n, k, fixed)]
      blank == {k \in DOMAIN fixed : blooms[n][k].onTree /\ ~fixed[k].onTree}
      fresh == {k \in DOMAIN fixed : fixed[k].onTree
                                       /\ Due(fixed[k], GetBloomFor(n, k, fixed))}
  IN  /\ \A c \in up[n] : net[Other(c, n)][c] = <<>>  \* a second is a long time
      /\ blooms' = [blooms EXCEPT ![n] = done]
      /\ SendFrom(n, [k \in blank \cup fresh |-> done[k].send])
      /\ UNCHANGED <<world, up, broken, parent>>

-----------------------------------------------------------------------------

\* What the router and the connections do to the filters, finitely often.
Settle ==
  \E n \in Node : \/ Reparent(n)
                 \/ \E k \in Node : Learn(n, k)
                 \/ \E c \in Conn : AddPeer(n, c) \/ RemovePeer(n, c)

Next ==
  \/ Settle
  \/ \E c \in Conn : Break(c)
  \/ \E n \in Node : Maintenance(n) \/ \E c \in Conn : HandleBloom(n, c)

Spec == Init /\ [][Next]_vars

\* The maintenance timer of every node goes off again and again, and by then the
\* connections have delivered what was sent; the tree and the connections settle.
FairSpec ==
  /\ Spec
  /\ WF_vars(Settle)
  /\ \A n \in Node : []<><<Maintenance(n)>>_vars

-----------------------------------------------------------------------------
(* Properties *)

\* The neighbours known to the filters are those of the router: the panics of
\* _getBloomFor and _sendAllBlooms are out of reach.
Known == \A n \in Node : DOMAIN blooms[n] = PeersOf(n, up[n])

\* The nodes that n reaches through its neighbour k on the final tree.
Neighbours(n) == {m \in Node : m # n /\ (world.after[n] = m \/ world.after[m] = n)}
RECURSIVE Behind(_, _)
Behind(n, k) == {k} \cup UNION {Behind(k, m) : m \in Neighbours(k) \ {n}}

Branch(n) == Neighbours(n) \cap DOMAIN blooms[n]

\* Once the tree has settled, the filter of every neighbour on the tree comes to
\* have all the keys behind that neighbour, and keeps them: lookups reach the
\* node they look for.
Complete ==
  <>[](\A n \in Node : \A k \in Branch(n) : Behind(n, k) \subseteq blooms[n][k].recv)

\* What a neighbour uses is what we remember to have sent to it, eventually: only
\* changes are sent, so one that is lost for good would never be made up for.
Agree ==
  <>[](\A n \in Node : \A k \in DOMAIN blooms[n] :
         n \in DOMAIN blooms[k] /\ (\A c \in up[n] : net[Other(c, n)][c] = <<>>)
           => blooms[k][n].recv = blooms[n][k].send)
=============================================================================
