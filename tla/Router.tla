------------------------------- MODULE Router -------------------------------
(***************************************************************************)
(* The spanning-tree half of ironwood's router actor                       *)
(* (ironwood/network/router.go): every node keeps the announcements        *)
(* ("infos") of the nodes it has heard of, picks a parent, and gossips the *)
(* ancestries of itself and of its peers over its connections.             *)
(*                                                                         *)
(* A node is its public key; keys are naturals, so publicKey.less is <.    *)
(* A link is one connection between two nodes, so two nodes may have       *)
(* several.  One end of a link is one *peer of the code.                   *)
(*                                                                         *)
(* What is abstracted: signatures, ports and latencies.  The cost of a     *)
(* link (latency plus penalty) is any value of Costs, chosen afresh each   *)
(* time it is read.  All requests of one run of a node carry that run's    *)
(* nonce; a restart draws another.                                         *)
(***************************************************************************)
EXTENDS Integers, FiniteSets, Sequences, SequencesExt

CONSTANTS
  Node,         \* public keys
  Link,         \* connections that may exist
  Ends,         \* Ends[l] is the set of the two nodes link l connects
  Joined,       \* configured links both ends have registered before the first step
  Costs,        \* values router._getCost may return
  Nonce,        \* values a request's nonce may take
  FirstNonce,   \* those of them a node's first run may draw
  MaxSeq,       \* bound: a node whose own info has this seq does not renew it
  Scenarios     \* the links configured in a behaviour, and the bound: how often
                \* each kind of event of Kinds may happen in it

ASSUME NodeAssumption == Node \subseteq Nat /\ IsFiniteSet(Node) /\ Node # {}
ASSUME LinkAssumption ==
  /\ \A l \in Link : \E a, b \in Node : a # b /\ Ends[l] = {a, b}
  /\ Joined \subseteq Link
ASSUME CostAssumption == Costs \subseteq Nat \ {0} /\ IsFiniteSet(Costs)
ASSUME NonceAssumption == Nonce \subseteq Nat /\ FirstNonce \subseteq Nonce

\* An end of a link goes away, an info times out, a node's refresh timer
\* fires, a node restarts.
Kinds == {"drop", "expire", "refresh", "restart"}

ASSUME BoundAssumption ==
  MaxSeq \in Nat /\ Scenarios \subseteq [links : SUBSET Link, may : [Kinds -> Nat]]

VARIABLES
  infos,      \* r.infos: what each node knows, key -> info
  sent,       \* r.sent: for each peer key, the keys already sent to it
  up,         \* r.peers: the links registered in each node's router
  pend,       \* links each node has connected and not yet given its router
  requests,   \* r.requests: peer key -> sequence number asked to be signed
  responses,  \* r.responses: peer keys that signed the current request
  refresh,    \* r.refresh
  doRoot1,    \* r.doRoot1 (r.doRoot2 is only ever set within maintenance)
  chan,       \* chan[n][l]: announcements on their way to n over l
  nonce,      \* the nonces drawn by each node's runs, the current one last
  scenario,   \* the member of Scenarios that this behaviour belongs to
  spent       \* how many events of each kind have happened

vars == <<infos, sent, up, pend, requests, responses, refresh, doRoot1, chan, nonce,
          scenario, spent>>

-----------------------------------------------------------------------------
(* Data *)

Info == [parent : Node, seq : Nat, nonce : Nonce]
Announce == [key : Node, info : Info]

\* The other end of link l, and the peer keys of node n.
Other(l, n) == CHOOSE m \in Ends[l] : m # n
PeerKeys(n) == {Other(l, n) : l \in up[n]}

Put(f, k, v) == [x \in DOMAIN f \cup {k} |-> IF x = k THEN v ELSE f[x]]
Drop(f, k) == [x \in DOMAIN f \ {k} |-> f[x]]

CurrentNonce(n) == nonce[n][Len(nonce[n])]

Better_Mutant(a, b) ==
  \/ a.seq > b.seq
  \/ a.seq = b.seq /\ a.parent < b.parent

\* The order of router._update: a replaces b.
Better(a, b) ==
  \/ a.seq > b.seq
  \/ a.seq = b.seq /\ a.parent < b.parent
  \/ a.seq = b.seq /\ a.parent = b.parent /\ a.nonce < b.nonce

Accepts_Mutant(inf, ann) == TRUE
Accepts(inf, ann) ==
  ann.key \in DOMAIN inf => Better(ann.info, inf[ann.key])

-----------------------------------------------------------------------------
(* Ancestries *)

\* From key along the parents, until a node would repeat or is not known.
BackwardsAncestry(inf, key) ==
  LET walk[i \in 0..Cardinality(DOMAIN inf)] ==
        IF i = 0
          THEN <<>>
          ELSE LET anc == walk[i - 1]
                   here == IF anc = <<>> THEN key ELSE inf[Last(anc)].parent
               IN  IF here \in DOMAIN inf \ ToSet(anc) THEN Append(anc, here) ELSE anc
  IN  walk[Cardinality(DOMAIN inf)]

GetAncestry(inf, key) == Reverse(BackwardsAncestry(inf, key))

\* The walk of _getRootAndDists is the same: the root is where it ends, and
\* its distance is the number of hops to it.
RootOf(inf, key) == Last(BackwardsAncestry(inf, key))
DistToRoot(inf, key) == Len(BackwardsAncestry(inf, key)) - 1

-----------------------------------------------------------------------------
(* Sending *)

\* A message sent on l reaches the far end m while m's end of the connection
\* exists, whether or not m's router has been told of it yet.
Reaches(m, l) == l \in up[m] \cup pend[m]

\* The channels once n has sent out[l] on every link l of DOMAIN out.
Send(ch, n, out) ==
  [m \in Node |-> [l \in Link |->
    IF l \in DOMAIN out /\ Ends[l] = {n, m} /\ m # n /\ Reaches(m, l)
      THEN ch[m][l] \o out[l]
      ELSE ch[m][l]]]

Spend(kind) ==
  /\ spent[kind] < scenario.may[kind]
  /\ spent' = [spent EXCEPT ![kind] = @ + 1]

AnnouncesOf(inf, keys) ==
  [i \in 1..Len(keys) |-> [key |-> keys[i], info |-> inf[keys[i]]]]

-----------------------------------------------------------------------------
(* Connections: router.addPeer and router.removePeer, called by the        *)
(* connection handler of either end at its own time.                       *)

Connect(l) ==
  /\ l \in scenario.links
  /\ \A n \in Ends[l] : l \notin up[n] \cup pend[n]
  /\ pend' = [n \in Node |-> IF n \in Ends[l] THEN pend[n] \cup {l} ELSE pend[n]]
  /\ UNCHANGED <<infos, sent, up, requests, responses, refresh, doRoot1, chan, nonce, scenario, spent>>

\* A second connection to the same node first repeats what was sent on the
\* others, in the order of a map iteration.
AddPeer(n, l) ==
  LET pk == Other(l, n)
      known == pk \in PeerKeys(n)
  IN  /\ l \in pend[n]
      /\ pend' = [pend EXCEPT ![n] = @ \ {l}]
      /\ up' = [up EXCEPT ![n] = @ \cup {l}]
      /\ \/ /\ ~known
            /\ sent' = [sent EXCEPT ![n] = Put(@, pk, {})]
            /\ UNCHANGED chan
         \/ /\ known
            /\ \E keys \in SetToSeqs(sent[n][pk]) :
                 chan' = Send(chan, n, [x \in {l} |-> AnnouncesOf(infos[n], keys)])
            /\ UNCHANGED sent
      /\ requests' = IF pk \in DOMAIN requests[n]
                       THEN requests
                       ELSE [requests EXCEPT ![n] = Put(@, pk, infos[n][n].seq + 1)]
      /\ UNCHANGED <<infos, responses, refresh, doRoot1, nonce, scenario, spent>>

\* What goes with n's end of the links in ls: everything on its way to n.
CloseEnds(n, ls) ==
  chan' = [chan EXCEPT ![n] = [l \in Link |-> IF l \in ls THEN <<>> ELSE @[l]]]

\* l is the only connection n has left to its far end.
LastTo_Mutant(n, l) == FALSE
LastTo(n, l) == \A x \in up[n] \ {l} : Other(x, n) # Other(l, n)

RemovePeer_Mutant(n, l) ==
  LET Left(f) == IF LastTo(n, l) THEN [f EXCEPT ![n] = Drop(@, Other(l, n))] ELSE f
  IN  /\ l \in up[n]
      /\ IF Reaches(Other(l, n), l) THEN Spend("drop") ELSE UNCHANGED spent
      /\ up' = [up EXCEPT ![n] = @ \ {l}]
      /\ sent' = Left(sent)
      /\ requests' = Left(requests)
      /\ CloseEnds(n, {l})
      /\ UNCHANGED <<infos, pend, responses, refresh, doRoot1, nonce, scenario>>

\* Once one end is gone the other end's reads fail; only the first is a fault.
RemovePeer(n, l) ==
  LET pk == Other(l, n)
      last == LastTo(n, l)
  IN  /\ l \in up[n]
      /\ IF Reaches(pk, l) THEN Spend("drop") ELSE UNCHANGED spent
      /\ up' = [up EXCEPT ![n] = @ \ {l}]
      /\ sent' = IF last THEN [sent EXCEPT ![n] = Drop(@, pk)] ELSE sent
      /\ requests' = IF last THEN [requests EXCEPT ![n] = Drop(@, pk)] ELSE requests
      /\ responses' = IF last THEN [responses EXCEPT ![n] = @ \ {pk}] ELSE responses
      /\ CloseEnds(n, {l})
      /\ UNCHANGED <<infos, pend, refresh, doRoot1, nonce, scenario>>

-----------------------------------------------------------------------------
(* Signatures: a node asks each peer to sign its next sequence number; the *)
(* answer is what lets it take that peer as its parent.                    *)

\* The far end answers a request from no state of its own (handleRequest), so
\* asking, signing and answering are not told apart: the answer to the current
\* request arrives at any time once the far end's router has the connection.
\* Answers to earlier requests are ignored.
HandleResponse(n, l) ==
  LET pk == Other(l, n)
  IN  /\ l \in up[n]
      /\ l \notin pend[pk]
      /\ pk \notin responses[n]
      /\ responses' = [responses EXCEPT ![n] = @ \cup {pk}]
      /\ UNCHANGED <<infos, sent, up, pend, requests, refresh, doRoot1, chan,
                     nonce, scenario, spent>>

-----------------------------------------------------------------------------
(* Announcements: router._handleAnnounce and router._update.               *)

\* What _update leaves of sent: the key is no longer sent to anybody.
Forget_Mutant(snt, k) == snt
Forget(snt, k) == [pk \in DOMAIN snt |-> snt[pk] \ {k}]

\* k counts as sent to pk.
Tell(snt, pk, k) == [snt EXCEPT ![pk] = @ \cup {k}]

\* The keys told back to a peer that sent an info that is not accepted: what
\* is known is better, unless it is the same.
Reply_MutantNever(inf, ann) == <<>>
Reply(inf, ann) == IF ann.info = inf[ann.key] THEN <<>> ELSE <<ann.key>>

HandleAnnounce(n, l) ==
  LET ann == Head(chan[n][l])
      pk == Other(l, n)
      popped == [chan EXCEPT ![n][l] = Tail(@)]
  IN  /\ l \in up[n]
      /\ chan[n][l] # <<>>
      /\ \/ /\ Accepts(infos[n], ann)
            /\ infos' = [infos EXCEPT ![n] = Put(@, ann.key, ann.info)]
            /\ sent' = [sent EXCEPT ![n] = Tell(Forget(@, ann.key), pk, ann.key)]
            /\ refresh' = [refresh EXCEPT ![n] = @ \/ ann.key = n]
            /\ chan' = popped
         \/ /\ ~Accepts(infos[n], ann)
            /\ sent' = [sent EXCEPT ![n] = Tell(@, pk, ann.key)]
            /\ chan' = Send(popped, n, [x \in {l} |->
                          AnnouncesOf(infos[n], Reply(infos[n], ann))])
            /\ UNCHANGED <<infos, refresh>>
      /\ UNCHANGED <<up, pend, requests, responses, doRoot1, nonce,
                     scenario, spent>>

\* The timer of _update: an info that is not renewed is forgotten.
Expire(n, k) ==
  /\ k \in DOMAIN infos[n] \ {n}
  /\ Spend("expire")
  /\ infos' = [infos EXCEPT ![n] = Drop(@, k)]
  /\ sent' = [sent EXCEPT ![n] = Forget(@, k)]
  /\ UNCHANGED <<up, pend, requests, responses, refresh, doRoot1, chan,
                 nonce, scenario>>

\* The timer of _update for the node's own info.
RefreshTimer(n) ==
  /\ ~refresh[n]
  /\ Spend("refresh")
  /\ refresh' = [refresh EXCEPT ![n] = TRUE]
  /\ UNCHANGED <<infos, sent, up, pend, requests, responses, doRoot1, chan, nonce, scenario>>

\* The process of n ends and starts again with the same key.  router.init runs
\* maintenance once before anything else reaches the actor, so a running node
\* has at least its own info: itself as root.
RootInfo(n, s, x) == [parent |-> n, seq |-> s, nonce |-> x]

Restart(n) ==
  /\ Spend("restart")
  /\ \E x \in Nonce \ ToSet(nonce[n]) :
       /\ nonce' = [nonce EXCEPT ![n] = Append(@, x)]
       /\ infos' = [infos EXCEPT ![n] = [k \in {n} |-> RootInfo(n, 1, x)]]
  /\ sent' = [sent EXCEPT ![n] = [pk \in {} |-> {}]]
  /\ up' = [up EXCEPT ![n] = {}]
  /\ pend' = [pend EXCEPT ![n] = {}]
  /\ requests' = [requests EXCEPT ![n] = [pk \in {} |-> 0]]
  /\ responses' = [responses EXCEPT ![n] = {}]
  /\ refresh' = [refresh EXCEPT ![n] = FALSE]
  /\ doRoot1' = [doRoot1 EXCEPT ![n] = FALSE]
  /\ CloseEnds(n, up[n] \cup pend[n])
  /\ UNCHANGED scenario

-----------------------------------------------------------------------------
(* Maintenance: router._doMaintenance, once a second. *)

\* A larger cost than any path has.
Infinity == 2 * Cardinality(Node) * Max(Costs) + 1

PathCost(n, pk, from, cost) ==
  DistToRoot(infos[n], from) * Min({cost[l] : l \in {x \in up[n] : Other(x, n) = pk}})

\* The parent _fix starts from: the current one if it leads to a better root.
FixStart(n, cost) ==
  LET parent == infos[n][n].parent
      root == RootOf(infos[n], n)
  IN  IF parent \in PeerKeys(n) /\ root < n
        THEN [root |-> root, parent |-> parent, cost |-> PathCost(n, parent, n, cost)]
        ELSE [root |-> n, parent |-> n, cost |-> Infinity]

\* One turn of _fix's loop over the responses.
FixStep(n, cost, best, pk) ==
  LET root == RootOf(infos[n], pk)
      c == PathCost(n, pk, pk, cost)
      better == \/ root < best.root
                \/ /\ root = best.root
                   /\ \/ refresh[n] /\ c * 2 < best.cost
                      \/ best.parent # infos[n][n].parent /\ c < best.cost
  IN  IF /\ pk \in DOMAIN infos[n]
         /\ n \notin ToSet(BackwardsAncestry(infos[n], pk))
         /\ better
        THEN [root |-> root, parent |-> pk, cost |-> c]
        ELSE best

Fix(n, cost, order) ==
  FoldLeft(LAMBDA best, pk : FixStep(n, cost, best, pk), FixStart(n, cost), order)

\* What pk has not been sent of n's ancestry and then of its own, the root
\* side first.
ToSend(inf, n, pk, known) ==
  LET self == GetAncestry(inf, n)
  IN  SelectSeq(self, LAMBDA k : k \notin known)
        \o SelectSeq(GetAncestry(inf, pk), LAMBDA k : k \notin known \cup ToSet(self))

\* Announcing a key there is no info for is a panic.
SendAnnounces(n, inf, snt) ==
  LET keys == [pk \in DOMAIN snt |-> ToSend(inf, n, pk, snt[pk])]
  IN  /\ \A pk \in DOMAIN snt : keys[pk] \in Seq(DOMAIN inf)
      /\ sent' = [sent EXCEPT ![n] = [pk \in DOMAIN snt |-> snt[pk] \cup ToSet(keys[pk])]]
      /\ chan' = Send(chan, n,
                      [l \in up[n] |-> AnnouncesOf(inf, keys[Other(l, n)])])

\* The node's own info becomes info: _update, then new requests to everybody.
Renew(n, info) ==
  LET inf == Put(infos[n], n, info)
  IN  /\ infos[n][n].seq < MaxSeq
      /\ infos' = [infos EXCEPT ![n] = inf]
      /\ SendAnnounces(n, inf, Forget(sent[n], n))
      /\ requests' = [requests EXCEPT ![n] = [pk \in PeerKeys(n) |-> info.seq + 1]]
      /\ responses' = [responses EXCEPT ![n] = {}]
      /\ refresh' = [refresh EXCEPT ![n] = FALSE]
      /\ doRoot1' = [doRoot1 EXCEPT ![n] = FALSE]

Maintenance(n) ==
  /\ \E cost \in [up[n] -> Costs], order \in SetToSeqs(responses[n]) :
       LET self == infos[n][n]
           best == Fix(n, cost, order)
           change == refresh[n] \/ doRoot1[n] \/ self.parent # best.parent
           new == [parent |-> best.parent, seq |-> requests[n][best.parent],
                   nonce |-> CurrentNonce(n)]
           use == best.parent \in responses[n] /\ best.root # n /\ Better(new, self)
       IN  \/ change /\ use /\ Renew(n, new)
           \/ /\ change /\ ~use /\ doRoot1[n]
              /\ Renew(n, RootInfo(n, self.seq + 1, CurrentNonce(n)))
           \/ /\ ~(change /\ (use \/ doRoot1[n]))
              /\ doRoot1' = [doRoot1 EXCEPT ![n] = change]
              /\ SendAnnounces(n, infos[n], sent[n])
              /\ UNCHANGED <<infos, requests, responses, refresh>>
  /\ UNCHANGED <<up, pend, nonce, scenario, spent>>

-----------------------------------------------------------------------------

\* Every node has run maintenance once, alone, and added its Joined links.
Init ==
  /\ scenario \in Scenarios
  /\ nonce \in [Node -> {<<x>> : x \in FirstNonce}]
  /\ infos = [n \in Node |-> [k \in {n} |-> RootInfo(n, 1, nonce[n][1])]]
  /\ up = [n \in Node |-> {l \in Joined \cap scenario.links : n \in Ends[l]}]
  /\ sent = [n \in Node |-> [pk \in PeerKeys(n) |-> {}]]
  /\ pend = [n \in Node |-> {}]
  /\ requests = [n \in Node |-> [pk \in PeerKeys(n) |-> 2]]
  /\ responses = [n \in Node |-> {}]
  /\ refresh = [n \in Node |-> FALSE]
  /\ doRoot1 = [n \in Node |-> FALSE]
  /\ chan = [n \in Node |-> [l \in Link |-> <<>>]]
  /\ spent = [k \in Kinds |-> 0]

\* What happens by itself: configured links are dialled again until they are
\* up, the read of a connection whose far end is gone fails, the actor runs
\* what is in its inbox, and its timer fires every second.
System ==
  \/ \E l \in Link : Connect(l)
  \/ \E n \in Node, l \in Link :
       \/ AddPeer(n, l)
       \/ ~Reaches(Other(l, n), l) /\ RemovePeer(n, l)
       \/ HandleResponse(n, l)
       \/ HandleAnnounce(n, l)
  \/ \E n \in Node : Maintenance(n)

\* What may happen: links fail, timers fire, nodes restart.
Environment ==
  \/ \E n \in Node, l \in Link : Reaches(Other(l, n), l) /\ RemovePeer(n, l)
  \/ \E n, k \in Node : Expire(n, k)
  \/ \E n \in Node : RefreshTimer(n) \/ Restart(n)

Next == System \/ Environment

Spec == Init /\ [][Next]_vars

\* ENABLED <<System>>_vars, spelled out: an end of some link is missing, a
\* message or an answer is due, or maintenance has something to do.
CanStep ==
  \/ \E l \in scenario.links : \E n \in Ends[l] : l \notin up[n]
  \/ \E n \in Node, l \in Link : l \in up[n] /\ chan[n][l] # <<>>
  \/ \E n \in Node : \/ responses[n] # PeerKeys(n)
                     \/ refresh[n] \/ doRoot1[n]
                     \/ \E cost \in [up[n] -> Costs], order \in SetToSeqs(responses[n]) :
                          Fix(n, cost, order).parent # infos[n][n].parent
                     \/ \E pk \in PeerKeys(n) : ToSend(infos[n], n, pk, sent[n][pk]) # <<>>

\* Weak fairness of System as a whole, which is less than the code provides:
\* while the system can take a step, it goes on taking steps.
FairSpec == Spec /\ ([]<>(~CanStep) \/ []<><<System>>_vars)

-----------------------------------------------------------------------------
(* Properties *)

\* The shape of a node's router state and of what travels between nodes.
TypeOK ==
  /\ DOMAIN infos = Node /\ DOMAIN sent = Node /\ DOMAIN requests = Node
  /\ \A n \in Node : /\ n \in DOMAIN infos[n]
                     /\ DOMAIN infos[n] \subseteq Node
                     /\ infos[n] \in [DOMAIN infos[n] -> Info]
                     /\ sent[n] \in [DOMAIN sent[n] -> SUBSET Node]
                     /\ requests[n] \in [DOMAIN requests[n] -> Nat]
                     /\ responses[n] \subseteq DOMAIN requests[n]
  /\ responses \in [Node -> SUBSET Node]
  /\ up \in [Node -> SUBSET Link]
  /\ pend \in [Node -> SUBSET Link]
  /\ refresh \in [Node -> BOOLEAN]
  /\ doRoot1 \in [Node -> BOOLEAN]
  /\ chan \in [Node -> [Link -> Seq(Announce)]]
  /\ nonce \in [Node -> Seq(Nonce) \ {<<>>}]
  /\ scenario \in Scenarios
  /\ spent \in [Kinds -> Nat]

\* The maps of a router stay in step: there is a sent-set and a request for
\* exactly the keys it has peers for, and whatever it counts as sent it still
\* has.  This is what keeps addPeer and _sendAnnounces from their
\* "this should never happen" panics, and _handleAnnounce from writing to a
\* sent-set that is gone.
SentKnown ==
  \A n \in Node :
    /\ DOMAIN sent[n] = PeerKeys(n)
    /\ DOMAIN requests[n] = PeerKeys(n)
    /\ \A pk \in DOMAIN sent[n] : sent[n][pk] \subseteq DOMAIN infos[n]

\* An info only ever gives way to a better one, while the node runs and does
\* not let it time out: _update never goes back.
InfosOnlyImprove ==
  [][\A n \in Node : \A k \in DOMAIN infos[n] :
       \/ k \in DOMAIN infos'[n] /\ infos'[n][k] = infos[n][k]
       \/ k \in DOMAIN infos'[n] /\ Better(infos'[n][k], infos[n][k])
       \/ k # n /\ k \notin DOMAIN infos'[n] /\ spent'["expire"] > spent["expire"]
       \/ nonce'[n] # nonce[n]]_vars

\* Copies of k's info: in the memory of nodes and on their way between them.
Copies(k) ==
  {infos[n][k] : n \in {m \in Node : k \in DOMAIN infos[m]}}
    \cup {a.info : a \in {x \in UNION {ToSet(chan[n][l]) : n \in Node, l \in Link} : x.key = k}}

\* As long as a node has not restarted, nobody holds or carries an info of it
\* that is better than its own: _update makes a node's own info the newest.
OwnIsNewest ==
  \A k \in Node : Len(nonce[k]) = 1 =>
    \A c \in Copies(k) : ~Better(c, infos[k][k])

\* Two things leave a hole in the gossip that is closed only when the info
\* concerned is renewed: a node lets an info expire that its peer believes it
\* has, and one of several connections between two nodes fails with an
\* announcement on it that the sender, still connected, will not repeat.
NoHoles ==
  /\ spent["expire"] = 0
  /\ \/ spent["drop"] = 0
     \/ \A a, b \in scenario.links : Ends[a] = Ends[b] => a = b

\* What a router counts as sent to a peer has arrived there, or is on its way,
\* in that version or a better one.  Gossip would stall otherwise: nothing is
\* sent twice.
SentArrives ==
  NoHoles => \A n \in Node : \A l \in up[n] :
    LET m == Other(l, n)
    IN  Reaches(m, l) => \A k \in sent[n][m] :
          \/ k \in DOMAIN infos[m] /\ ~Better(infos[n][k], infos[m][k])
          \/ \E x \in up[n] : /\ Other(x, n) = m
                              /\ \E i \in 1..Len(chan[m][x]) :
                                   /\ chan[m][x][i].key = k
                                   /\ ~Better(infos[n][k], chan[m][x][i].info)

\* The tree every connected node sees for itself and its peers is the tree
\* there is: it ends at the lowest key and every info on it is the current one
\* of its node.
TreeAgrees ==
  \A n \in UNION {Ends[l] : l \in scenario.links} :
    /\ RootOf(infos[n], n) = Min(Node)
    /\ \A pk \in {n} \cup PeerKeys(n) :
         /\ pk \in DOMAIN infos[n]
         /\ \A a \in ToSet(BackwardsAncestry(infos[n], pk)) :
              infos[n][a] = infos[a][a]

\* Once links stay up and nodes stay alive, all nodes settle on one tree rooted
\* at the lowest key (every scenario connects its nodes to that one) and stay
\* there: what _fix, _handleAnnounce and _sendAnnounces are for.
Converges == <>[](NoHoles => TreeAgrees)

\* Announcements stop: two nodes never go on correcting each other, which is
\* what the comment in _update is worried about.
Quiesces == <>[](\A n \in Node, l \in Link : chan[n][l] = <<>>)
=============================================================================
