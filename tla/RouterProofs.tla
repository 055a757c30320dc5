----------------------------- MODULE RouterProofs -----------------------------
(***************************************************************************)
(* What TLAPS proves about Router, for any set of nodes and links and any  *)
(* bounds: the invariant that keeps a router's maps in step, that infos    *)
(* only improve, and that a node's own info is the newest copy there is.   *)
(***************************************************************************)
EXTENDS Router, FiniteSetTheorems, TLAPS

\* The far end of a link is a node, and not the near end.
LEMMA OtherType ==
  ASSUME NEW l \in Link, NEW n
  PROVE  /\ Other(l, n) \in Node
         /\ Other(l, n) \in Ends[l]
         /\ Other(l, n) # n
<1>1. PICK a, b \in Node : a # b /\ Ends[l] = {a, b}
  BY LinkAssumption
<1>2. \E m \in Ends[l] : m # n
  BY <1>1
<1>. QED  BY <1>1, <1>2 DEF Other

\* The order of _update is a strict total order on infos: this is what its
\* "must be the same on every node" comment rests on.
LEMMA BetterOrder ==
  ASSUME NEW a \in Info, NEW b \in Info, NEW c \in Info
  PROVE  /\ ~Better(a, a)
         /\ Better(a, b) /\ Better(b, c) => Better(a, c)
         /\ a # b => Better(a, b) \/ Better(b, a)
<1>1. /\ a.seq \in Nat /\ b.seq \in Nat /\ c.seq \in Nat
      /\ a.parent \in Nat /\ b.parent \in Nat /\ c.parent \in Nat
      /\ a.nonce \in Nat /\ b.nonce \in Nat /\ c.nonce \in Nat
  BY NodeAssumption, NonceAssumption, ZenonT(30) DEF Info
<1>2. (a.seq = b.seq /\ a.parent = b.parent /\ a.nonce = b.nonce) => a = b
  BY DEF Info
<1>. QED  BY <1>1, <1>2 DEF Better

\* What getAnnounce makes of known keys is a sequence of announcements.
LEMMA AnnouncesOfType ==
  ASSUME NEW inf, DOMAIN inf \subseteq Node, inf \in [DOMAIN inf -> Info],
         NEW keys \in Seq(DOMAIN inf)
  PROVE  /\ AnnouncesOf(inf, keys) \in Seq(Announce)
         /\ \A a \in ToSet(AnnouncesOf(inf, keys)) :
              a.key \in DOMAIN inf /\ a.info = inf[a.key]
<1>1. \A i \in 1..Len(keys) : keys[i] \in DOMAIN inf
  OBVIOUS
<1>2. Len(keys) \in Nat
  OBVIOUS
<1>. QED  BY <1>1, <1>2 DEF AnnouncesOf, Announce, ToSet

\* The elements of a concatenation.
LEMMA ToSetConcat ==
  ASSUME NEW S, NEW s \in Seq(S), NEW t \in Seq(S)
  PROVE  ToSet(s \o t) \subseteq ToSet(s) \cup ToSet(t)
<1>. SUFFICES ASSUME NEW i \in DOMAIN (s \o t)
              PROVE  (s \o t)[i] \in ToSet(s) \cup ToSet(t)
  BY DEF ToSet
<1>1. /\ Len(s) \in Nat /\ Len(t) \in Nat /\ i \in 1..(Len(s) + Len(t))
      /\ DOMAIN s = 1..Len(s) /\ DOMAIN t = 1..Len(t)
  OBVIOUS
<1>2. CASE i <= Len(s)
  BY <1>1, <1>2 DEF ToSet
<1>3. CASE i > Len(s)
  <2>1. i - Len(s) \in DOMAIN t /\ (s \o t)[i] = t[i - Len(s)]
    BY <1>1, <1>3
  <2>. QED  BY <2>1 DEF ToSet
<1>. QED  BY <1>1, <1>2, <1>3

\* Send keeps the channels' type, and puts into a channel only what is sent.
LEMMA SendChannel ==
  ASSUME NEW ch \in [Node -> [Link -> Seq(Announce)]], NEW n \in Node,
         NEW out, \A l \in DOMAIN out : out[l] \in Seq(Announce)
  PROVE  /\ Send(ch, n, out) \in [Node -> [Link -> Seq(Announce)]]
         /\ \A m \in Node, l \in Link : \A a \in ToSet(Send(ch, n, out)[m][l]) :
              \/ a \in ToSet(ch[m][l])
              \/ l \in DOMAIN out /\ a \in ToSet(out[l])
<1>. DEFINE S == Send(ch, n, out)
<1>1. \A m \in Node, l \in Link :
        \/ S[m][l] = ch[m][l]
        \/ l \in DOMAIN out /\ S[m][l] = ch[m][l] \o out[l]
  BY ZenonT(30) DEF Send
<1>2. S = [m \in Node |-> [l \in Link |-> S[m][l]]]
  BY DEF Send
<1>. HIDE DEF S
<1>3. ASSUME NEW m \in Node, NEW l \in Link
      PROVE  /\ S[m][l] \in Seq(Announce)
             /\ \A a \in ToSet(S[m][l]) :
                  \/ a \in ToSet(ch[m][l])
                  \/ l \in DOMAIN out /\ a \in ToSet(out[l])
  <2>1. ch[m][l] \in Seq(Announce)
    OBVIOUS
  <2>2. CASE l \in DOMAIN out /\ S[m][l] = ch[m][l] \o out[l]
    <3>1. out[l] \in Seq(Announce)
      BY <2>2
    <3>2. ch[m][l] \o out[l] \in Seq(Announce)
      BY <2>1, <3>1
    <3>3. ToSet(ch[m][l] \o out[l]) \subseteq ToSet(ch[m][l]) \cup ToSet(out[l])
      BY <2>1, <3>1, ToSetConcat
    <3>. QED  BY <2>2, <3>2, <3>3
  <2>. QED  BY <1>1, <2>1, <2>2, ZenonT(30)
<1>4. S \in [Node -> [Link -> Seq(Announce)]]
  BY <1>2, <1>3
<1>. QED  BY <1>3, <1>4, ZenonT(30) DEF S

-----------------------------------------------------------------------------
(* The invariant: TypeOK and SentKnown, preserved by every action. *)

\* A node that has run router.init and its first maintenance.
LEMMA InitInv == Init => TypeOK /\ SentKnown
<1>. SUFFICES ASSUME Init PROVE TypeOK /\ SentKnown
  OBVIOUS
<1>1. nonce \in [Node -> Seq(Nonce) \ {<<>>}] /\ \A n \in Node : nonce[n][1] \in Nonce
  <2>1. \A x \in Nonce : <<x>> \in Seq(Nonce) /\ <<x>> # <<>> /\ <<x>>[1] = x
    OBVIOUS
  <2>2. DOMAIN nonce = Node /\ nonce \in [Node -> {<<x>> : x \in FirstNonce}]
    BY DEF Init
  <2>3. \A n \in Node : \E x \in Nonce : nonce[n] = <<x>>
    BY <2>2, NonceAssumption
  <2>4. \A n \in Node : nonce[n] \in Seq(Nonce) \ {<<>>} /\ nonce[n][1] \in Nonce
    BY <2>1, <2>3
  <2>. QED  BY <2>2, <2>4
<1>2. \A n \in Node : RootInfo(n, 1, nonce[n][1]) \in Info
  BY <1>1 DEF RootInfo, Info
<1>3. up \in [Node -> SUBSET Link]
  BY LinkAssumption DEF Init
<1>4. \A n \in Node : PeerKeys(n) \subseteq Node
  BY <1>3, OtherType DEF PeerKeys
<1>5. TypeOK
  BY <1>1, <1>2, <1>3, <1>4, SMTT(30) DEF TypeOK, Init
<1>6. SentKnown
  BY DEF SentKnown, Init
<1>. QED  BY <1>5, <1>6

\* A new connection, before either router knows of it.
LEMMA ConnectInv ==
  ASSUME TypeOK, SentKnown, NEW l \in Link, Connect(l)
  PROVE  TypeOK' /\ SentKnown'
<1>1. TypeOK'
  BY DEF TypeOK, Connect
<1>2. SentKnown'
  BY DEF SentKnown, PeerKeys, Connect
<1>. QED  BY <1>1, <1>2

\* _handleResponse keeps the invariant: the answer is from a peer.
LEMMA HandleResponseInv ==
  ASSUME TypeOK, SentKnown, NEW n \in Node, NEW l \in Link, HandleResponse(n, l)
  PROVE  TypeOK' /\ SentKnown'
<1>1. Other(l, n) \in PeerKeys(n) /\ Other(l, n) \in Node
  BY OtherType DEF HandleResponse, PeerKeys
<1>2. TypeOK'
  BY <1>1 DEF TypeOK, SentKnown, HandleResponse
<1>3. SentKnown'
  BY DEF SentKnown, PeerKeys, HandleResponse
<1>. QED  BY <1>2, <1>3

\* The refresh timer only sets a flag.
LEMMA RefreshTimerInv ==
  ASSUME TypeOK, SentKnown, NEW n \in Node, RefreshTimer(n)
  PROVE  TypeOK' /\ SentKnown'
<1>1. spent' \in [Kinds -> Nat]
  BY DEF TypeOK, Kinds, RefreshTimer, Spend
<1>2. TypeOK'
  BY <1>1 DEF TypeOK, RefreshTimer
<1>3. SentKnown'
  BY DEF SentKnown, PeerKeys, RefreshTimer
<1>. QED  BY <1>2, <1>3

\* The expiry timer forgets a key in infos and in every sent-set.
LEMMA ExpireInv ==
  ASSUME TypeOK, SentKnown, NEW n \in Node, NEW k \in Node, Expire(n, k)
  PROVE  TypeOK' /\ SentKnown'
<1>1. spent' \in [Kinds -> Nat]
  BY DEF TypeOK, Kinds, Expire, Spend
<1>2. TypeOK'
  BY <1>1 DEF TypeOK, Expire, Drop, Forget
<1>3. SentKnown'
  BY DEF TypeOK, SentKnown, PeerKeys, Expire, Drop, Forget
<1>. QED  BY <1>2, <1>3

\* A restarted node has empty maps and its own info.
LEMMA RestartInv ==
  ASSUME TypeOK, SentKnown, NEW n \in Node, Restart(n)
  PROVE  TypeOK' /\ SentKnown'
<1>1. spent' \in [Kinds -> Nat]
  BY DEF TypeOK, Kinds, Restart, Spend
<1>2. chan' \in [Node -> [Link -> Seq(Announce)]]
  BY DEF TypeOK, Restart, CloseEnds
<1>3. PICK x \in Nonce :
        /\ nonce' = [nonce EXCEPT ![n] = Append(@, x)]
        /\ infos' = [infos EXCEPT ![n] = [k \in {n} |-> RootInfo(n, 1, x)]]
  BY ZenonT(30) DEF Restart
<1>4. nonce' \in [Node -> Seq(Nonce) \ {<<>>}]
  <2>1. nonce[n] \in Seq(Nonce)
    BY DEF TypeOK
  <2>2. Append(nonce[n], x) \in Seq(Nonce) /\ Append(nonce[n], x) # <<>>
    BY <2>1
  <2>. QED  BY <1>3, <2>2 DEF TypeOK
<1>5. RootInfo(n, 1, x) \in Info
  BY DEF RootInfo, Info
<1>6. TypeOK'
  BY <1>1, <1>2, <1>3, <1>4, <1>5, SMTT(30) DEF TypeOK, Restart
<1>7. SentKnown'
  BY <1>3 DEF TypeOK, SentKnown, PeerKeys, Restart
<1>. QED  BY <1>6, <1>7, SMTT(30)

\* The sequences of a set of known keys that addPeer may send.
LEMMA SentSequence ==
  ASSUME TypeOK, SentKnown, NEW n \in Node, NEW pk \in DOMAIN sent[n],
         NEW keys \in SetToSeqs(sent[n][pk])
  PROVE  keys \in Seq(DOMAIN infos[n])
<1>1. sent[n][pk] \subseteq DOMAIN infos[n] /\ sent[n][pk] \subseteq Node
  BY DEF TypeOK, SentKnown
<1>2. IsFiniteSet(sent[n][pk])
  BY <1>1, FS_Subset, NodeAssumption, SMTT(30)
<1>3. Cardinality(sent[n][pk]) \in Nat
  BY <1>2, FS_CardinalityType
<1>4. keys \in [1..Cardinality(sent[n][pk]) -> sent[n][pk]]
  BY DEF SetToSeqs
<1>. QED  BY <1>1, <1>3, <1>4, SMTT(30)

\* addPeer keeps the maps of its node in step, for a first and for a second connection.
LEMMA AddPeerInv ==
  ASSUME TypeOK, SentKnown, NEW n \in Node, NEW l \in Link, AddPeer(n, l)
  PROVE  TypeOK' /\ SentKnown'
<1>. DEFINE pk == Other(l, n)
<1>1. pk \in Node
  BY OtherType
<1>2. up' = [up EXCEPT ![n] = @ \cup {l}] /\ up' \in [Node -> SUBSET Link]
  BY DEF AddPeer, TypeOK
<1>3. /\ PeerKeys(n)' = PeerKeys(n) \cup {pk}
      /\ \A m \in Node : m # n => PeerKeys(m)' = PeerKeys(m)
  BY <1>2 DEF PeerKeys, TypeOK
<1>. HIDE DEF pk
<1>4. /\ requests' = IF pk \in DOMAIN requests[n]
                       THEN requests
                       ELSE [requests EXCEPT ![n] = Put(@, pk, infos[n][n].seq + 1)]
      /\ infos[n][n].seq + 1 \in Nat
  BY SMTT(30) DEF AddPeer, TypeOK, Info, pk
<1>5. /\ DOMAIN requests' = Node
      /\ \A m \in Node : /\ requests'[m] \in [DOMAIN requests'[m] -> Nat]
                         /\ DOMAIN requests'[m] = PeerKeys(m)'
                         /\ DOMAIN requests[m] \subseteq DOMAIN requests'[m]
  <2>1. CASE pk \in DOMAIN requests[n]
    <3>1. PeerKeys(n)' = PeerKeys(n)
      BY <1>3, <2>1 DEF SentKnown
    <3>. QED  BY <1>3, <1>4, <2>1, <3>1, SMTT(30) DEF TypeOK, SentKnown
  <2>2. CASE pk \notin DOMAIN requests[n]
    <3>1. requests' = [requests EXCEPT ![n] = Put(@, pk, infos[n][n].seq + 1)]
      BY <1>4, <2>2
    <3>2. requests'[n] = Put(requests[n], pk, infos[n][n].seq + 1)
      BY <3>1 DEF TypeOK
    <3>3. /\ DOMAIN requests'[n] = PeerKeys(n) \cup {pk}
          /\ requests'[n] \in [DOMAIN requests'[n] -> Nat]
      BY <1>4, <3>2 DEF Put, TypeOK, SentKnown
    <3>. QED  BY <1>3, <3>1, <3>3, ZenonT(30) DEF TypeOK, SentKnown
  <2>. QED  BY <2>1, <2>2, SMTT(30)
<1>6. pend' \in [Node -> SUBSET Link]
  BY DEF AddPeer, TypeOK
<1>7. CASE pk \notin PeerKeys(n)
  <2>1. sent' = [sent EXCEPT ![n] = Put(@, pk, {})] /\ chan' = chan
    BY <1>7 DEF AddPeer, pk
  <2>2. /\ DOMAIN sent' = Node
        /\ \A m \in Node : /\ sent'[m] \in [DOMAIN sent'[m] -> SUBSET Node]
                           /\ DOMAIN sent'[m] = PeerKeys(m)'
                           /\ \A x \in DOMAIN sent'[m] : sent'[m][x] \subseteq DOMAIN infos[m]
    BY <1>1, <1>3, <2>1, SMTT(30) DEF TypeOK, SentKnown, Put
  <2>3. TypeOK'
    BY <1>2, <1>5, <1>6, <2>1, <2>2, SMTT(30) DEF TypeOK, AddPeer
  <2>4. SentKnown'
    BY <1>5, <2>2 DEF SentKnown, AddPeer
  <2>. QED  BY <2>3, <2>4
<1>8. CASE pk \in PeerKeys(n)
  <2>1. PICK keys \in SetToSeqs(sent[n][pk]) :
          chan' = Send(chan, n, [x \in {l} |-> AnnouncesOf(infos[n], keys)])
    BY <1>8 DEF AddPeer, pk
  <2>2. sent' = sent
    BY <1>8 DEF AddPeer, pk
  <2>3. AnnouncesOf(infos[n], keys) \in Seq(Announce)
    <3>1. pk \in DOMAIN sent[n]
      BY <1>8 DEF SentKnown
    <3>2. keys \in Seq(DOMAIN infos[n])
      BY <3>1, SentSequence
    <3>. QED  BY <3>2, AnnouncesOfType, ZenonT(30) DEF TypeOK
  <2>4. chan' \in [Node -> [Link -> Seq(Announce)]]
    <3>. DEFINE out == [x \in {l} |-> AnnouncesOf(infos[n], keys)]
    <3>1. \A x \in DOMAIN out : out[x] \in Seq(Announce)
      BY <2>3, SMTT(30)
    <3>2. chan \in [Node -> [Link -> Seq(Announce)]]
      BY DEF TypeOK
    <3>. HIDE DEF out
    <3>3. Send(chan, n, out) \in [Node -> [Link -> Seq(Announce)]]
      BY <3>1, <3>2, SendChannel, ZenonT(30)
    <3>. QED  BY <2>1, <3>3 DEF out
  <2>5. PeerKeys(n)' = PeerKeys(n)
    BY <1>3, <1>8
  <2>6. TypeOK'
    BY <1>2, <1>5, <1>6, <2>2, <2>4, SMTT(30) DEF TypeOK, AddPeer
  <2>7. SentKnown'
    BY <1>3, <1>5, <2>2, <2>5, SMTT(30) DEF SentKnown, AddPeer
  <2>. QED  BY <2>6, <2>7, SMTT(30)
<1>. QED  BY <1>7, <1>8

\* removePeer clears the maps with the last connection to a key, and only then.
LEMMA RemovePeerInv ==
  ASSUME TypeOK, SentKnown, NEW n \in Node, NEW l \in Link, RemovePeer(n, l)
  PROVE  TypeOK' /\ SentKnown'
<1>. DEFINE pk == Other(l, n)
<1>1. up' = [up EXCEPT ![n] = @ \ {l}] /\ up' \in [Node -> SUBSET Link] /\ l \in up[n]
  BY DEF RemovePeer, TypeOK
<1>2. /\ PeerKeys(n)' = IF LastTo(n, l) THEN PeerKeys(n) \ {pk} ELSE PeerKeys(n)
      /\ \A m \in Node : m # n => PeerKeys(m)' = PeerKeys(m)
  BY <1>1 DEF PeerKeys, LastTo, TypeOK
<1>3. spent' \in [Kinds -> Nat]
  <2>1. Spend("drop") \/ spent' = spent
    BY DEF RemovePeer
  <2>2. spent \in [Kinds -> Nat]
    BY DEF TypeOK
  <2>. QED  BY <2>1, <2>2 DEF Spend, Kinds
<1>4. chan' \in [Node -> [Link -> Seq(Announce)]]
  BY DEF RemovePeer, CloseEnds, TypeOK
<1>. HIDE DEF pk
<1>5. /\ DOMAIN requests' = Node /\ DOMAIN sent' = Node
      /\ responses' \in [Node -> SUBSET Node]
      /\ \A m \in Node : /\ requests'[m] \in [DOMAIN requests'[m] -> Nat]
                         /\ sent'[m] \in [DOMAIN sent'[m] -> SUBSET Node]
                         /\ responses'[m] \subseteq DOMAIN requests'[m]
                         /\ DOMAIN requests'[m] = PeerKeys(m)'
                         /\ DOMAIN sent'[m] = PeerKeys(m)'
                         /\ \A x \in DOMAIN sent'[m] : sent'[m][x] \subseteq DOMAIN infos[m]
  <2>1. CASE LastTo(n, l)
    <3>1. /\ sent' = [sent EXCEPT ![n] = Drop(@, pk)]
          /\ requests' = [requests EXCEPT ![n] = Drop(@, pk)]
          /\ responses' = [responses EXCEPT ![n] = @ \ {pk}]
      BY <2>1 DEF RemovePeer, pk
    <3>. QED  BY <1>2, <2>1, <3>1, SMTT(30) DEF TypeOK, SentKnown, Drop
  <2>2. CASE ~LastTo(n, l)
    <3>1. sent' = sent /\ requests' = requests /\ responses' = responses
      BY <2>2 DEF RemovePeer
    <3>. QED  BY <1>2, <2>2, <3>1, SMTT(30) DEF TypeOK, SentKnown
  <2>. QED  BY <2>1, <2>2
<1>6. TypeOK'
  BY <1>1, <1>3, <1>4, <1>5, ZenonT(30) DEF TypeOK, RemovePeer
<1>7. SentKnown'
  BY <1>5 DEF SentKnown, RemovePeer
<1>. QED  BY <1>6, <1>7

\* The announcement at the head of a channel, and the channels without it.
LEMMA HeadType ==
  ASSUME TypeOK, NEW n \in Node, NEW l \in Link, chan[n][l] # <<>>
  PROVE  /\ Head(chan[n][l]) \in Announce
         /\ Head(chan[n][l]) \in ToSet(chan[n][l])
         /\ [chan EXCEPT ![n][l] = Tail(@)] \in [Node -> [Link -> Seq(Announce)]]
         /\ ToSet(Tail(chan[n][l])) \subseteq ToSet(chan[n][l])
<1>1. chan[n][l] \in Seq(Announce) /\ chan \in [Node -> [Link -> Seq(Announce)]]
  BY DEF TypeOK
<1>2. Head(chan[n][l]) \in Announce /\ Tail(chan[n][l]) \in Seq(Announce)
  BY <1>1
<1>3. [chan EXCEPT ![n][l] = Tail(@)] \in [Node -> [Link -> Seq(Announce)]]
  BY <1>1, <1>2
<1>4. Head(chan[n][l]) = chan[n][l][1] /\ 1 \in DOMAIN chan[n][l]
  BY <1>1
<1>5. \A i \in DOMAIN Tail(chan[n][l]) :
        i + 1 \in DOMAIN chan[n][l] /\ Tail(chan[n][l])[i] = chan[n][l][i + 1]
  BY <1>1
<1>. QED  BY <1>2, <1>3, <1>4, <1>5 DEF ToSet

\* _handleAnnounce keeps the invariant whether or not it accepts the info.
LEMMA HandleAnnounceInv ==
  ASSUME TypeOK, SentKnown, NEW n \in Node, NEW l \in Link, HandleAnnounce(n, l)
  PROVE  TypeOK' /\ SentKnown'
<1>. DEFINE ann == Head(chan[n][l])
            pk == Other(l, n)
            popped == [chan EXCEPT ![n][l] = Tail(@)]
<1>0. /\ l \in up[n] /\ chan[n][l] # <<>>
      /\ UNCHANGED <<up, pend, requests, responses, doRoot1, nonce, scenario, spent>>
  BY DEF HandleAnnounce
<1>1. ann \in Announce /\ popped \in [Node -> [Link -> Seq(Announce)]]
  BY <1>0, HeadType
<1>2. pk \in DOMAIN sent[n] /\ ann.key \in Node /\ ann.info \in Info
  <2>1. pk \in PeerKeys(n)
    BY <1>0 DEF PeerKeys
  <2>. QED  BY <1>1, <2>1 DEF SentKnown, Announce
<1>3. \A m \in Node : PeerKeys(m)' = PeerKeys(m)
  BY <1>0, SMTT(30) DEF PeerKeys
<1>4. CASE Accepts(infos[n], ann)
  <2>1. /\ infos' = [infos EXCEPT ![n] = Put(@, ann.key, ann.info)]
        /\ sent' = [sent EXCEPT ![n] = Tell(Forget(@, ann.key), pk, ann.key)]
        /\ refresh' = [refresh EXCEPT ![n] = @ \/ ann.key = n]
        /\ chan' = popped
    BY <1>4 DEF HandleAnnounce
  <2>. HIDE DEF ann, pk, popped
  <2>2. /\ infos'[n] \in [DOMAIN infos'[n] -> Info]
        /\ DOMAIN infos'[n] = DOMAIN infos[n] \cup {ann.key}
    BY <1>2, <2>1 DEF TypeOK, Put
  <2>3. /\ sent'[n] \in [DOMAIN sent[n] -> SUBSET Node]
        /\ \A x \in DOMAIN sent[n] : sent'[n][x] \subseteq DOMAIN infos[n] \cup {ann.key}
    <3>1. sent'[n] = Tell(Forget(sent[n], ann.key), pk, ann.key)
      BY <2>1 DEF TypeOK
    <3>2. sent'[n] = [x \in DOMAIN sent[n] |-> IF x = pk
                                                THEN (sent[n][x] \ {ann.key}) \cup {ann.key}
                                                ELSE sent[n][x] \ {ann.key}]
      BY <1>2, <3>1, ZenonT(30) DEF Forget, Tell
    <3>3. \A x \in DOMAIN sent[n] : sent[n][x] \subseteq Node /\ sent[n][x] \subseteq DOMAIN infos[n]
      BY DEF TypeOK, SentKnown
    <3>. QED  BY <1>2, <3>2, <3>3, SMTT(30)
  <2>4. refresh' \in [Node -> BOOLEAN]
    BY <2>1 DEF TypeOK
  <2>5. TypeOK'
    BY <1>0, <1>1, <1>2, <2>1, <2>2, <2>3, <2>4, SMTT(30) DEF TypeOK
  <2>6. SentKnown'
    BY <1>0, <1>3, <2>1, <2>2, <2>3, SMTT(30) DEF TypeOK, SentKnown
  <2>. QED  BY <2>5, <2>6
<1>5. CASE ~Accepts(infos[n], ann)
  <2>1. /\ infos' = infos
        /\ sent' = [sent EXCEPT ![n] = Tell(@, pk, ann.key)]
        /\ refresh' = refresh
        /\ chan' = Send(popped, n, [x \in {l} |-> AnnouncesOf(infos[n], Reply(infos[n], ann))])
    BY <1>5 DEF HandleAnnounce
  <2>. HIDE DEF ann, pk, popped
  <2>2. ann.key \in DOMAIN infos[n]
    BY <1>5 DEF Accepts
  <2>3. AnnouncesOf(infos[n], Reply(infos[n], ann)) \in Seq(Announce)
    <3>1. Reply(infos[n], ann) \in Seq(DOMAIN infos[n])
      <4>1. \A S, x : x \in S => <<>> \in Seq(S) /\ <<x>> \in Seq(S)
        OBVIOUS
      <4>2. <<>> \in Seq(DOMAIN infos[n]) /\ <<ann.key>> \in Seq(DOMAIN infos[n])
        BY <2>2, <4>1, ZenonT(30)
      <4>. QED  BY <4>2, ZenonT(30) DEF Reply
    <3>. QED  BY <3>1, AnnouncesOfType, ZenonT(30) DEF TypeOK
  <2>4. chan' \in [Node -> [Link -> Seq(Announce)]]
    <3>. DEFINE out == [x \in {l} |-> AnnouncesOf(infos[n], Reply(infos[n], ann))]
    <3>1. \A x \in DOMAIN out : out[x] \in Seq(Announce)
      BY <2>3
    <3>. HIDE DEF out
    <3>2. Send(popped, n, out) \in [Node -> [Link -> Seq(Announce)]]
      BY <1>1, <3>1, SendChannel, SMTT(30)
    <3>. QED  BY <2>1, <3>2, SMTT(30) DEF out
  <2>5. /\ DOMAIN sent' = Node
        /\ \A m \in Node : /\ sent'[m] \in [DOMAIN sent[m] -> SUBSET Node]
                           /\ \A x \in DOMAIN sent[m] : sent'[m][x] \subseteq DOMAIN infos[m]
    BY <1>2, <2>1, <2>2 DEF TypeOK, SentKnown, Tell
  <2>6. TypeOK'
    BY <1>0, <2>1, <2>4, <2>5, ZenonT(30) DEF TypeOK
  <2>7. SentKnown'
    BY <1>0, <1>3, <2>1, <2>5 DEF TypeOK, SentKnown
  <2>. QED  BY <2>6, <2>7
<1>. QED  BY <1>4, <1>5, SMTT(30)

\* _sendAnnounces sends and counts as sent only keys there is an info for.
LEMMA SendAnnouncesType ==
  ASSUME TypeOK, NEW n \in Node,
         NEW inf, DOMAIN inf \subseteq Node, inf \in [DOMAIN inf -> Info],
         NEW snt \in [PeerKeys(n) -> SUBSET DOMAIN inf],
         SendAnnounces(n, inf, snt)
  PROVE  /\ chan' \in [Node -> [Link -> Seq(Announce)]]
         /\ sent' = [sent EXCEPT ![n] = sent'[n]]
         /\ sent'[n] \in [PeerKeys(n) -> SUBSET DOMAIN inf]
         /\ \A m \in Node, l \in Link : \A a \in ToSet(chan'[m][l]) :
              \/ a \in ToSet(chan[m][l])
              \/ a.key \in DOMAIN inf /\ a.info = inf[a.key]
<1>. DEFINE keys == [pk \in DOMAIN snt |-> ToSend(inf, n, pk, snt[pk])]
            out == [l \in up[n] |-> AnnouncesOf(inf, keys[Other(l, n)])]
<1>1. /\ \A pk \in PeerKeys(n) : keys[pk] \in Seq(DOMAIN inf)
      /\ sent' = [sent EXCEPT ![n] = [pk \in PeerKeys(n) |-> snt[pk] \cup ToSet(keys[pk])]]
      /\ chan' = Send(chan, n, out)
  BY DEF SendAnnounces
<1>. HIDE DEF keys
<1>2. \A l \in up[n] : l \in Link /\ Other(l, n) \in PeerKeys(n)
  BY DEF PeerKeys, TypeOK
<1>3. \A l \in DOMAIN out :
        /\ out[l] \in Seq(Announce)
        /\ \A a \in ToSet(out[l]) : a.key \in DOMAIN inf /\ a.info = inf[a.key]
  BY <1>1, <1>2, AnnouncesOfType, SMTT(30)
<1>. HIDE DEF out
<1>4. chan \in [Node -> [Link -> Seq(Announce)]]
  BY DEF TypeOK
<1>5. \A l \in DOMAIN out : out[l] \in Seq(Announce)
  BY <1>3
<1>6. /\ chan' \in [Node -> [Link -> Seq(Announce)]]
      /\ \A m \in Node, l \in Link : \A a \in ToSet(chan'[m][l]) :
           \/ a \in ToSet(chan[m][l])
           \/ l \in DOMAIN out /\ a \in ToSet(out[l])
  BY <1>1, <1>4, <1>5, SendChannel, ZenonT(30)
<1>7. DOMAIN sent = Node
  BY DEF TypeOK
<1>8. \A pk \in PeerKeys(n) : snt[pk] \cup ToSet(keys[pk]) \subseteq DOMAIN inf
  BY <1>1 DEF ToSet
<1>. QED  BY <1>1, <1>3, <1>6, <1>7, <1>8, ZenonT(30)

\* What maintenance can do: renew the node's own info with a better one, or
\* leave the infos alone.
LEMMA MaintenanceCases ==
  ASSUME TypeOK, SentKnown, NEW n \in Node, Maintenance(n)
  PROVE  /\ UNCHANGED <<up, pend, nonce, scenario, spent>>
         /\ \/ \E info \in Info : Better(info, infos[n][n]) /\ Renew(n, info)
            \/ /\ doRoot1' \in [Node -> BOOLEAN]
               /\ SendAnnounces(n, infos[n], sent[n])
               /\ UNCHANGED <<infos, requests, responses, refresh>>
<1>1. PICK cost \in [up[n] -> Costs], order \in SetToSeqs(responses[n]) :
       LET self == infos[n][n]
           best == Fix(n, cost, order)
           change == refresh[n] \/ doRoot1[n] \/ self.parent # best.parent
           new == [parent |-> best.parent, seq |-> requests[n][best.parent],
                   nonce |-> CurrentNonce(n)]
           use == best.parent \in responses[n] /\ best.root # n /\ Better(new, self)
       IN  \/ change /\ use /\ Renew(n, new)
           \/ /\ change /\ ~use /\ doRoot1[n]
              /\ Renew(n, RootInfo(n, self.seq + 1, CurrentNonce(n)))
           \/ /\ ~(change /\ (use \/ doRoot1[n]))
              /\ doRoot1' = [doRoot1 EXCEPT ![n] = change]
              /\ SendAnnounces(n, infos[n], sent[n])
              /\ UNCHANGED <<infos, requests, responses, refresh>>
  BY ZenonT(30) DEF Maintenance
<1>. DEFINE self == infos[n][n]
            best == Fix(n, cost, order)
            change == refresh[n] \/ doRoot1[n] \/ self.parent # best.parent
            new == [parent |-> best.parent, seq |-> requests[n][best.parent],
                    nonce |-> CurrentNonce(n)]
<1>2. CurrentNonce(n) \in Nonce
  <2>1. nonce[n] \in Seq(Nonce) /\ nonce[n] # <<>>
    BY DEF TypeOK
  <2>. QED  BY <2>1 DEF CurrentNonce
<1>3. self \in Info
  BY SMTT(30) DEF TypeOK
<1>. HIDE DEF best
<1>4. CASE best.parent \in responses[n] /\ Better(new, self) /\ Renew(n, new)
  <2>1. best.parent \in Node /\ requests[n][best.parent] \in Nat
    BY <1>4, SMTT(30) DEF TypeOK
  <2>2. new \in Info
    BY <1>2, <2>1, SMTT(30) DEF Info
  <2>. QED  BY <1>4, <2>2, ZenonT(30) DEF Maintenance
<1>5. CASE Renew(n, RootInfo(n, self.seq + 1, CurrentNonce(n)))
  <2>1. self.seq \in Nat
    BY <1>3, SMTT(30) DEF Info
  <2>2. RootInfo(n, self.seq + 1, CurrentNonce(n)) \in Info
    BY <1>2, <2>1 DEF RootInfo, Info
  <2>3. Better(RootInfo(n, self.seq + 1, CurrentNonce(n)), self)
    BY <2>1, SMTT(30) DEF RootInfo, Better
  <2>. QED  BY <1>5, <2>2, <2>3, ZenonT(30) DEF Maintenance
<1>6. CASE /\ doRoot1' = [doRoot1 EXCEPT ![n] = change]
           /\ SendAnnounces(n, infos[n], sent[n])
           /\ UNCHANGED <<infos, requests, responses, refresh>>
  <2>1. change \in BOOLEAN
    BY SMTT(30) DEF TypeOK
  <2>2. doRoot1' \in [Node -> BOOLEAN]
    BY <1>6, <2>1, SMTT(30) DEF TypeOK
  <2>. QED  BY <1>6, <2>2, ZenonT(30) DEF Maintenance
<1>. QED  BY <1>1, <1>4, <1>5, <1>6, ZenonT(30) DEF best

\* _doMaintenance keeps the invariant, with a new parent, as a new root, or as before.
LEMMA MaintenanceInv ==
  ASSUME TypeOK, SentKnown, NEW n \in Node, Maintenance(n)
  PROVE  TypeOK' /\ SentKnown'
<1>1. /\ UNCHANGED <<up, pend, nonce, scenario, spent>>
      /\ \A m \in Node : PeerKeys(m)' = PeerKeys(m) /\ PeerKeys(m) \subseteq Node
  <2>1. UNCHANGED <<up, pend, nonce, scenario, spent>>
    BY MaintenanceCases
  <2>2. \A m \in Node : PeerKeys(m) \subseteq Node
    BY OtherType DEF PeerKeys, TypeOK
  <2>3. \A m \in Node : PeerKeys(m)' = PeerKeys(m)
    BY <2>1 DEF PeerKeys
  <2>. QED  BY <2>1, <2>2, <2>3, SMTT(30)
<1>2. ASSUME NEW info \in Info, Renew(n, info)
      PROVE  TypeOK' /\ SentKnown'
  <2>. DEFINE inf == Put(infos[n], n, info)
              snt == Forget(sent[n], n)
  <2>1. /\ infos' = [infos EXCEPT ![n] = inf]
        /\ SendAnnounces(n, inf, snt)
        /\ requests' = [requests EXCEPT ![n] = [pk \in PeerKeys(n) |-> info.seq + 1]]
        /\ responses' = [responses EXCEPT ![n] = {}]
        /\ refresh' = [refresh EXCEPT ![n] = FALSE]
        /\ doRoot1' = [doRoot1 EXCEPT ![n] = FALSE]
    BY <1>2 DEF Renew
  <2>2. DOMAIN inf = DOMAIN infos[n] /\ DOMAIN inf \subseteq Node /\ inf \in [DOMAIN inf -> Info]
    BY DEF Put, TypeOK
  <2>3. snt \in [PeerKeys(n) -> SUBSET DOMAIN inf]
    BY <2>2 DEF Forget, SentKnown
  <2>. HIDE DEF inf, snt
  <2>4. /\ chan' \in [Node -> [Link -> Seq(Announce)]]
        /\ sent' = [sent EXCEPT ![n] = sent'[n]]
        /\ sent'[n] \in [PeerKeys(n) -> SUBSET DOMAIN inf]
    BY <2>1, <2>2, <2>3, SendAnnouncesType
  <2>5. info.seq + 1 \in Nat
    BY DEF Info
  <2>6. TypeOK'
    BY <1>1, <2>1, <2>2, <2>4, <2>5, SMTT(30) DEF TypeOK
  <2>7. SentKnown'
    BY <1>1, <2>1, <2>2, <2>4, SMTT(30) DEF TypeOK, SentKnown
  <2>. QED  BY <2>6, <2>7, SMTT(30)
<1>3. ASSUME doRoot1' \in [Node -> BOOLEAN],
             SendAnnounces(n, infos[n], sent[n]),
             UNCHANGED <<infos, requests, responses, refresh>>
      PROVE  TypeOK' /\ SentKnown'
  <2>1. /\ DOMAIN infos[n] \subseteq Node /\ infos[n] \in [DOMAIN infos[n] -> Info]
        /\ sent[n] \in [PeerKeys(n) -> SUBSET DOMAIN infos[n]]
    BY DEF TypeOK, SentKnown
  <2>2. /\ chan' \in [Node -> [Link -> Seq(Announce)]]
        /\ sent' = [sent EXCEPT ![n] = sent'[n]]
        /\ sent'[n] \in [PeerKeys(n) -> SUBSET DOMAIN infos[n]]
    BY <1>3, <2>1, SendAnnouncesType, SMTT(30)
  <2>3. DOMAIN sent' = Node /\ \A m \in Node : m # n => sent'[m] = sent[m]
    BY <2>2 DEF TypeOK
  <2>4. \A m \in Node : /\ sent'[m] \in [DOMAIN sent'[m] -> SUBSET Node]
                        /\ DOMAIN sent'[m] = PeerKeys(m)
                        /\ \A pk \in DOMAIN sent'[m] : sent'[m][pk] \subseteq DOMAIN infos[m]
    <3>. SUFFICES ASSUME NEW m \in Node
                  PROVE  /\ sent'[m] \in [DOMAIN sent'[m] -> SUBSET Node]
                         /\ DOMAIN sent'[m] = PeerKeys(m)
                         /\ \A pk \in DOMAIN sent'[m] : sent'[m][pk] \subseteq DOMAIN infos[m]
      OBVIOUS
    <3>1. CASE m = n
      BY <2>1, <2>2, <3>1, SMTT(30)
    <3>2. CASE m # n
      BY <2>3, <3>2, SMTT(30) DEF TypeOK, SentKnown
    <3>. QED  BY <3>1, <3>2
  <2>5. TypeOK'
    BY <1>1, <1>3, <2>2, <2>3, <2>4, SMTT(30) DEF TypeOK
  <2>6. SentKnown'
    BY <1>1, <1>3, <2>4, SMTT(30) DEF SentKnown
  <2>. QED  BY <2>5, <2>6
<1>. QED  BY <1>2, <1>3, MaintenanceCases

\* Every step keeps the invariant.
LEMMA NextInv ==
  ASSUME TypeOK, SentKnown, [Next]_vars
  PROVE  TypeOK' /\ SentKnown'
<1>1. ASSUME NEW l \in Link, Connect(l) PROVE TypeOK' /\ SentKnown'
  BY <1>1, ConnectInv
<1>2. ASSUME NEW n \in Node, NEW l \in Link,
             AddPeer(n, l) \/ RemovePeer(n, l) \/ HandleResponse(n, l) \/ HandleAnnounce(n, l)
      PROVE  TypeOK' /\ SentKnown'
  BY <1>2, AddPeerInv, RemovePeerInv, HandleResponseInv, HandleAnnounceInv, SMTT(30)
<1>3. ASSUME NEW n \in Node, Maintenance(n) \/ RefreshTimer(n) \/ Restart(n)
      PROVE  TypeOK' /\ SentKnown'
  BY <1>3, MaintenanceInv, RefreshTimerInv, RestartInv, SMTT(30)
<1>4. ASSUME NEW n \in Node, NEW k \in Node, Expire(n, k) PROVE TypeOK' /\ SentKnown'
  BY <1>4, ExpireInv, SMTT(30)
<1>5. CASE UNCHANGED vars
  BY <1>5 DEF vars, TypeOK, SentKnown, PeerKeys
<1>. QED  BY <1>1, <1>2, <1>3, <1>4, <1>5, SMTT(30) DEF Next, System, Environment

\* In every run a router's maps stay in step with its peers, and what it
\* counts as sent it still knows, so that neither addPeer nor _sendAnnounces
\* meets a key without an info.
THEOREM RouterInvariant == Spec => [](TypeOK /\ SentKnown)
<1>1. Init => TypeOK /\ SentKnown
  BY InitInv
<1>2. TypeOK /\ SentKnown /\ [Next]_vars => (TypeOK /\ SentKnown)'
  BY NextInv, SMTT(30)
<1>. QED  BY <1>1, <1>2, PTL DEF Spec

\* In every run the state of every router, and what travels between routers,
\* has the shape the handlers rely on; in particular a node always has its own
\* info, which _fix reads unchecked, and answers only to requests it has made.
THEOREM RouterTypes == Spec => []TypeOK
<1>1. TypeOK /\ SentKnown => TypeOK
  OBVIOUS
<1>. QED  BY <1>1, RouterInvariant, PTL

-----------------------------------------------------------------------------
(* Infos only improve, and a node's own info is the newest. *)

\* What a step of n leaves of the info of any key, unless n restarts.
LEMMA ImproveStep ==
  ASSUME TypeOK, SentKnown, [Next]_vars, NEW n \in Node, NEW k \in DOMAIN infos[n]
  PROVE  \/ k \in DOMAIN infos'[n] /\ infos'[n][k] = infos[n][k]
         \/ k \in DOMAIN infos'[n] /\ Better(infos'[n][k], infos[n][k])
         \/ k # n /\ k \notin DOMAIN infos'[n] /\ spent'["expire"] > spent["expire"]
         \/ nonce'[n] # nonce[n]
<1>. DEFINE Goal == \/ k \in DOMAIN infos'[n] /\ infos'[n][k] = infos[n][k]
                    \/ k \in DOMAIN infos'[n] /\ Better(infos'[n][k], infos[n][k])
                    \/ k # n /\ k \notin DOMAIN infos'[n] /\ spent'["expire"] > spent["expire"]
                    \/ nonce'[n] # nonce[n]
<1>1. ASSUME UNCHANGED infos PROVE Goal
  BY <1>1, SMTT(30)
<1>2. ASSUME NEW m \in Node, NEW l \in Link, HandleAnnounce(m, l) PROVE Goal
  <2>. DEFINE ann == Head(chan[m][l])
  <2>1. \/ UNCHANGED infos
        \/ /\ infos' = [infos EXCEPT ![m] = Put(@, ann.key, ann.info)]
           /\ Accepts(infos[m], ann)
    BY <1>2, SMTT(30) DEF HandleAnnounce
  <2>. HIDE DEF ann
  <2>2. CASE infos' = [infos EXCEPT ![m] = Put(@, ann.key, ann.info)] /\ Accepts(infos[m], ann)
    <3>1. CASE m = n
      <4>1. infos'[n] = Put(infos[n], ann.key, ann.info)
        BY <2>2, <3>1 DEF TypeOK
      <4>2. k \in DOMAIN infos'[n] /\ infos'[n][k] = IF k = ann.key THEN ann.info ELSE infos[n][k]
        BY <4>1, SMTT(30) DEF Put
      <4>. QED  BY <2>2, <3>1, <4>2, SMTT(30) DEF Accepts
    <3>2. CASE m # n
      BY <2>2, <3>2, SMTT(30) DEF TypeOK
    <3>. QED  BY <3>1, <3>2, SMTT(30)
  <2>. QED  BY <1>1, <2>1, <2>2, SMTT(30)
<1>3. ASSUME NEW m \in Node, Maintenance(m) PROVE Goal
  <2>1. \/ UNCHANGED infos
        \/ \E info \in Info : /\ Better(info, infos[m][m])
                              /\ infos' = [infos EXCEPT ![m] = Put(@, m, info)]
    BY <1>3, MaintenanceCases, SMTT(30) DEF Renew
  <2>2. ASSUME NEW info \in Info, Better(info, infos[m][m]),
               infos' = [infos EXCEPT ![m] = Put(@, m, info)]
        PROVE  Goal
    <3>1. CASE m = n
      <4>1. infos'[n] = Put(infos[n], n, info)
        BY <2>2, <3>1, SMTT(30) DEF TypeOK
      <4>2. k \in DOMAIN infos'[n] /\ infos'[n][k] = IF k = n THEN info ELSE infos[n][k]
        BY <4>1 DEF Put
      <4>. QED  BY <2>2, <3>1, <4>2, SMTT(30)
    <3>2. CASE m # n
      BY <2>2, <3>2, SMTT(30) DEF TypeOK
    <3>. QED  BY <3>1, <3>2, SMTT(30)
  <2>. QED  BY <1>1, <2>1, <2>2, SMTT(30)
<1>4. ASSUME NEW m \in Node, NEW j \in Node, Expire(m, j) PROVE Goal
  <2>1. /\ infos' = [infos EXCEPT ![m] = Drop(@, j)]
        /\ j # m
        /\ spent' = [spent EXCEPT !["expire"] = @ + 1]
    BY <1>4 DEF Expire, Spend
  <2>2. spent'["expire"] > spent["expire"]
    BY <2>1, SMTT(30) DEF TypeOK, Kinds
  <2>. QED  BY <2>1, <2>2 DEF TypeOK, Drop
<1>5. ASSUME NEW m \in Node, Restart(m) PROVE Goal
  <2>1. PICK x \in Nonce : /\ nonce' = [nonce EXCEPT ![m] = Append(@, x)]
                           /\ infos' = [infos EXCEPT ![m] = [i \in {m} |-> RootInfo(m, 1, x)]]
    BY <1>5, ZenonT(30) DEF Restart
  <2>2. nonce[m] \in Seq(Nonce)
    BY DEF TypeOK
  <2>3. Append(nonce[m], x) # nonce[m]
    BY <2>2
  <2>. QED  BY <2>1, <2>3 DEF TypeOK
<1>6. ASSUME NEW m \in Node, RefreshTimer(m) PROVE Goal
  BY <1>1, <1>6 DEF RefreshTimer
<1>7. ASSUME NEW l \in Link, Connect(l) PROVE Goal
  BY <1>1, <1>7, SMTT(30) DEF Connect
<1>8. ASSUME NEW m \in Node, NEW l \in Link,
             AddPeer(m, l) \/ RemovePeer(m, l) \/ HandleResponse(m, l)
      PROVE  Goal
  <2>1. UNCHANGED infos
    BY <1>8, ZenonT(30) DEF AddPeer, RemovePeer, HandleResponse
  <2>. QED  BY <1>1, <2>1, SMTT(30)
<1>9. ASSUME UNCHANGED vars PROVE Goal
  BY <1>1, <1>9, ZenonT(30) DEF vars
<1>. HIDE DEF Goal
<1>10. Goal
  BY <1>2, <1>3, <1>4, <1>5, <1>6, <1>7, <1>8, <1>9, SMTT(30) DEF Next, System, Environment
<1>. QED  BY <1>10 DEF Goal

\* An info in a router's memory is only ever replaced by a better one in the
\* order of _update, and only forgotten when it times out.
THEOREM InfosImprove == Spec => InfosOnlyImprove
<1>1. TypeOK /\ SentKnown /\ [Next]_vars =>
        [\A n \in Node : \A k \in DOMAIN infos[n] :
           \/ k \in DOMAIN infos'[n] /\ infos'[n][k] = infos[n][k]
           \/ k \in DOMAIN infos'[n] /\ Better(infos'[n][k], infos[n][k])
           \/ k # n /\ k \notin DOMAIN infos'[n] /\ spent'["expire"] > spent["expire"]
           \/ nonce'[n] # nonce[n]]_vars
  BY ImproveStep, SMTT(30)
<1>. QED  BY <1>1, RouterInvariant, PTL DEF Spec, InfosOnlyImprove

\* Where the infos after a step come from: they were there, they arrived, or
\* they are the node's own.
LEMMA InfosFrom ==
  ASSUME TypeOK, SentKnown, [Next]_vars, NEW n \in Node, NEW k \in DOMAIN infos'[n]
  PROVE  \/ k \in DOMAIN infos[n] /\ infos'[n][k] = infos[n][k]
         \/ \E m \in Node, l \in Link : \E a \in ToSet(chan[m][l]) :
              a.key = k /\ infos'[n][k] = a.info
         \/ k = n
<1>. DEFINE Goal == \/ k \in DOMAIN infos[n] /\ infos'[n][k] = infos[n][k]
                    \/ \E m \in Node, l \in Link : \E a \in ToSet(chan[m][l]) :
                         a.key = k /\ infos'[n][k] = a.info
                    \/ k = n
<1>1. ASSUME UNCHANGED infos PROVE Goal
  BY <1>1, SMTT(30)
<1>2. ASSUME NEW m \in Node, NEW l \in Link, HandleAnnounce(m, l) PROVE Goal
  <2>. DEFINE ann == Head(chan[m][l])
  <2>1. UNCHANGED infos \/ infos' = [infos EXCEPT ![m] = Put(@, ann.key, ann.info)]
    BY <1>2, SMTT(30) DEF HandleAnnounce
  <2>2. ann \in ToSet(chan[m][l])
    BY <1>2, HeadType, SMTT(30) DEF HandleAnnounce
  <2>. HIDE DEF ann
  <2>3. CASE infos' = [infos EXCEPT ![m] = Put(@, ann.key, ann.info)]
    <3>1. CASE m = n
      <4>1. infos'[n] = Put(infos[n], ann.key, ann.info)
        BY <2>3, <3>1, SMTT(30) DEF TypeOK
      <4>2. \/ k = ann.key /\ infos'[n][k] = ann.info
            \/ k \in DOMAIN infos[n] /\ infos'[n][k] = infos[n][k]
        BY <4>1 DEF Put
      <4>. QED  BY <2>2, <4>2, SMTT(30)
    <3>2. CASE m # n
      BY <2>3, <3>2, SMTT(30) DEF TypeOK
    <3>. QED  BY <3>1, <3>2, SMTT(30)
  <2>. QED  BY <1>1, <2>1, <2>3, SMTT(30)
<1>3. ASSUME NEW m \in Node, Maintenance(m) PROVE Goal
  <2>1. UNCHANGED infos \/ \E info \in Info : infos' = [infos EXCEPT ![m] = Put(@, m, info)]
    BY <1>3, MaintenanceCases, SMTT(30) DEF Renew
  <2>2. ASSUME NEW info \in Info, infos' = [infos EXCEPT ![m] = Put(@, m, info)]
        PROVE  Goal
    BY <2>2 DEF TypeOK, Put
  <2>. QED  BY <1>1, <2>1, <2>2, SMTT(30)
<1>4. ASSUME NEW m \in Node, NEW j \in Node, Expire(m, j) PROVE Goal
  <2>1. infos' = [infos EXCEPT ![m] = Drop(@, j)]
    BY <1>4, SMTT(30) DEF Expire
  <2>. QED  BY <2>1 DEF TypeOK, Drop
<1>5. ASSUME NEW m \in Node, Restart(m) PROVE Goal
  <2>1. PICK x \in Nonce : infos' = [infos EXCEPT ![m] = [i \in {m} |-> RootInfo(m, 1, x)]]
    BY <1>5, ZenonT(30) DEF Restart
  <2>. QED  BY <2>1 DEF TypeOK
<1>6. ASSUME NEW m \in Node, RefreshTimer(m) PROVE Goal
  BY <1>1, <1>6 DEF RefreshTimer
<1>7. ASSUME NEW l \in Link, Connect(l) PROVE Goal
  BY <1>1, <1>7 DEF Connect
<1>8. ASSUME NEW m \in Node, NEW l \in Link,
             AddPeer(m, l) \/ RemovePeer(m, l) \/ HandleResponse(m, l)
      PROVE  Goal
  <2>1. UNCHANGED infos
    BY <1>8, ZenonT(30) DEF AddPeer, RemovePeer, HandleResponse
  <2>. QED  BY <1>1, <2>1, SMTT(30)
<1>9. ASSUME UNCHANGED vars PROVE Goal
  BY <1>1, <1>9, ZenonT(30) DEF vars
<1>. HIDE DEF Goal
<1>10. Goal
  BY <1>2, <1>3, <1>4, <1>5, <1>6, <1>7, <1>8, <1>9, SMTT(30) DEF Next, System, Environment
<1>. QED  BY <1>10, SMTT(30) DEF Goal

\* Where the announcements on their way after a step come from: they were
\* already, or they are what their sender knows.
LEMMA AnnouncesFrom ==
  ASSUME TypeOK, SentKnown, [Next]_vars,
         NEW m \in Node, NEW l \in Link, NEW a \in ToSet(chan'[m][l])
  PROVE  \/ a \in ToSet(chan[m][l])
         \/ \E n \in Node : a.key \in DOMAIN infos'[n] /\ a.info = infos'[n][a.key]
<1>. DEFINE Goal == \/ a \in ToSet(chan[m][l])
                    \/ \E n \in Node : a.key \in DOMAIN infos'[n] /\ a.info = infos'[n][a.key]
           <1>0. chan \in [Node -> [Link -> Seq(Announce)]]
  BY DEF TypeOK
<1>1. ASSUME UNCHANGED chan PROVE Goal
  BY <1>1, SMTT(30)
<1>2. ASSUME NEW n \in Node, NEW ls, CloseEnds(n, ls) PROVE Goal
  <2>1. chan'[m][l] = chan[m][l] \/ chan'[m][l] = <<>>
    BY <1>0, <1>2, SMTT(30) DEF CloseEnds
  <2>. QED  BY <2>1 DEF ToSet
\* A single link is sent what is known.
<1>3. ASSUME NEW ch \in [Node -> [Link -> Seq(Announce)]], NEW n \in Node, NEW y \in Link,
             NEW keys \in Seq(DOMAIN infos[n]),
             \A i \in Node, x \in Link : ToSet(ch[i][x]) \subseteq ToSet(chan[i][x]),
             chan' = Send(ch, n, [x \in {y} |-> AnnouncesOf(infos[n], keys)]),
             infos' = infos
      PROVE  Goal
  <2>. DEFINE out == [x \in {y} |-> AnnouncesOf(infos[n], keys)]
  <2>1. /\ AnnouncesOf(infos[n], keys) \in Seq(Announce)
        /\ \A b \in ToSet(AnnouncesOf(infos[n], keys)) :
             b.key \in DOMAIN infos[n] /\ b.info = infos[n][b.key]
    BY AnnouncesOfType, ZenonT(30) DEF TypeOK
  <2>2. \A x \in DOMAIN out : /\ out[x] \in Seq(Announce)
                              /\ out[x] = AnnouncesOf(infos[n], keys)
    BY <2>1
  <2>3. chan' = Send(ch, n, out)
    BY <1>3, ZenonT(30)
  <2>. HIDE DEF out
  <2>4. \A i \in Node, x \in Link : \A b \in ToSet(chan'[i][x]) :
          b \in ToSet(ch[i][x]) \/ (x \in DOMAIN out /\ b \in ToSet(out[x]))
    <3>1. \A x \in DOMAIN out : out[x] \in Seq(Announce)
      BY <2>2
    <3>2. /\ Send(ch, n, out) \in [Node -> [Link -> Seq(Announce)]]
          /\ \A i \in Node, x \in Link : \A b \in ToSet(Send(ch, n, out)[i][x]) :
               b \in ToSet(ch[i][x]) \/ (x \in DOMAIN out /\ b \in ToSet(out[x]))
      BY <3>1, SendChannel, ZenonT(30)
    <3>. QED  BY <2>3, <3>2, ZenonT(30)
  <2>5. a \in ToSet(ch[m][l]) \/ (l \in DOMAIN out /\ a \in ToSet(out[l]))
    BY <2>4, ZenonT(30)
  <2>. QED  BY <1>3, <2>1, <2>2, <2>5, ZenonT(30)
<1>4. ASSUME NEW n \in Node, NEW y \in Link, HandleAnnounce(n, y) PROVE Goal
  <2>. DEFINE ann == Head(chan[n][y])
              popped == [chan EXCEPT ![n][y] = Tail(@)]
  <2>1. /\ popped \in [Node -> [Link -> Seq(Announce)]]
        /\ ToSet(Tail(chan[n][y])) \subseteq ToSet(chan[n][y])
    BY <1>4, HeadType, ZenonT(30) DEF HandleAnnounce
  <2>2. \A i \in Node, x \in Link : ToSet(popped[i][x]) \subseteq ToSet(chan[i][x])
    BY <1>0, <2>1
  <2>3. CASE Accepts(infos[n], ann)
    <3>1. chan' = popped
      BY <1>4, <2>3, SMTT(30) DEF HandleAnnounce
    <3>. QED  BY <2>2, <3>1, SMTT(30)
  <2>4. CASE ~Accepts(infos[n], ann)
    <3>1. /\ chan' = Send(popped, n, [x \in {y} |-> AnnouncesOf(infos[n], Reply(infos[n], ann))])
          /\ infos' = infos
      BY <1>4, <2>4 DEF HandleAnnounce
    <3>2. \A S, x : x \in S => <<>> \in Seq(S) /\ <<x>> \in Seq(S)
      OBVIOUS
    <3>3. Reply(infos[n], ann) \in Seq(DOMAIN infos[n])
      BY <2>4, <3>2, ZenonT(30) DEF Reply, Accepts
    <3>. HIDE DEF ann, popped
    <3>. QED  BY <1>3, <2>1, <2>2, <3>1, <3>3, ZenonT(30)
  <2>. QED  BY <2>3, <2>4
<1>5. ASSUME NEW n \in Node, NEW y \in Link, AddPeer(n, y) PROVE Goal
  <2>. DEFINE pk == Other(y, n)
  <2>1. CASE pk \in PeerKeys(n)
    <3>1. PICK keys \in SetToSeqs(sent[n][pk]) :
            chan' = Send(chan, n, [x \in {y} |-> AnnouncesOf(infos[n], keys)])
      BY <1>5, <2>1 DEF AddPeer
    <3>2. infos' = infos
      BY <1>5, SMTT(30) DEF AddPeer
    <3>3. pk \in DOMAIN sent[n]
      BY <2>1 DEF SentKnown
    <3>4. keys \in Seq(DOMAIN infos[n])
      BY <3>3, SentSequence, SMTT(30)
    <3>. QED  BY <1>0, <1>3, <3>1, <3>2, <3>4, ZenonT(30)
  <2>2. CASE pk \notin PeerKeys(n)
    BY <1>1, <1>5, <2>2, ZenonT(30) DEF AddPeer
  <2>. QED  BY <2>1, <2>2
<1>6. ASSUME NEW n \in Node, Maintenance(n) PROVE Goal
  <2>1. ASSUME NEW info \in Info, Renew(n, info) PROVE Goal
    <3>. DEFINE inf == Put(infos[n], n, info)
                snt == Forget(sent[n], n)
    <3>1. infos' = [infos EXCEPT ![n] = inf] /\ SendAnnounces(n, inf, snt)
      BY <2>1, SMTT(30) DEF Renew
    <3>2. DOMAIN inf \subseteq Node /\ inf \in [DOMAIN inf -> Info] /\ DOMAIN inf = DOMAIN infos[n]
      BY DEF Put, TypeOK
    <3>3. snt \in [PeerKeys(n) -> SUBSET DOMAIN inf]
      BY <3>2 DEF Forget, SentKnown
    <3>. HIDE DEF inf, snt
    <3>4. \A i \in Node, x \in Link : \A b \in ToSet(chan'[i][x]) :
            \/ b \in ToSet(chan[i][x])
            \/ b.key \in DOMAIN inf /\ b.info = inf[b.key]
      BY <3>1, <3>2, <3>3, SendAnnouncesType, SMTT(30)
    <3>5. infos'[n] = inf
      BY <3>1, SMTT(30) DEF TypeOK
    <3>. QED  BY <3>4, <3>5, SMTT(30)
  <2>2. ASSUME SendAnnounces(n, infos[n], sent[n]), UNCHANGED infos PROVE Goal
    <3>1. /\ DOMAIN infos[n] \subseteq Node /\ infos[n] \in [DOMAIN infos[n] -> Info]
          /\ sent[n] \in [PeerKeys(n) -> SUBSET DOMAIN infos[n]]
      BY DEF TypeOK, SentKnown
    <3>2. \A i \in Node, x \in Link : \A b \in ToSet(chan'[i][x]) :
            \/ b \in ToSet(chan[i][x])
            \/ b.key \in DOMAIN infos[n] /\ b.info = infos[n][b.key]
      BY <2>2, <3>1, SendAnnouncesType, SMTT(30)
    <3>. QED  BY <2>2, <3>2, SMTT(30)
  <2>. QED  BY <1>6, <2>1, <2>2, MaintenanceCases, SMTT(30)
<1>7. ASSUME NEW n \in Node, Restart(n) PROVE Goal
  <2>1. CloseEnds(n, up[n] \cup pend[n])
    BY <1>7 DEF Restart
  <2>. QED  BY <1>2, <2>1, SMTT(30)
<1>8. ASSUME NEW n \in Node, NEW y \in Link, RemovePeer(n, y) PROVE Goal
  <2>1. CloseEnds(n, {y})
    BY <1>8, SMTT(30) DEF RemovePeer
  <2>. QED  BY <1>2, <2>1, SMTT(30)
<1>9. ASSUME NEW n \in Node, NEW k \in Node, Expire(n, k) \/ RefreshTimer(n) PROVE Goal
  <2>1. UNCHANGED chan
    BY <1>9, ZenonT(30) DEF Expire, RefreshTimer
  <2>. QED  BY <1>1, <2>1, SMTT(30)
<1>10. ASSUME NEW n \in Node, NEW y \in Link, Connect(y) \/ HandleResponse(n, y) PROVE Goal
  <2>1. UNCHANGED chan
    BY <1>10, SMTT(30) DEF Connect, HandleResponse
  <2>. QED  BY <1>1, <2>1, SMTT(30)
<1>11. ASSUME UNCHANGED vars PROVE Goal
  BY <1>1, <1>11, SMTT(30) DEF vars
<1>. HIDE DEF Goal
<1>12. Goal
  BY <1>4, <1>5, <1>6, <1>7, <1>8, <1>9, <1>10, <1>11, SMTT(30) DEF Next, System, Environment
<1>. QED  BY <1>12, SMTT(30) DEF Goal

\* OwnIsNewest, copy by copy.
Newest ==
  \A k \in Node : Len(nonce[k]) = 1 =>
    /\ \A n \in Node : k \in DOMAIN infos[n] => ~Better(infos[n][k], infos[k][k])
    /\ \A n \in Node, l \in Link : \A a \in ToSet(chan[n][l]) :
         a.key = k => ~Better(a.info, infos[k][k])

\* The inductive form implies the property.
LEMMA NewestIsOwn == Newest => OwnIsNewest
<1>. SUFFICES ASSUME Newest, NEW k \in Node, Len(nonce[k]) = 1, NEW c \in Copies(k)
              PROVE  ~Better(c, infos[k][k])
  BY SMTT(30) DEF OwnIsNewest
<1>1. CASE \E n \in Node : k \in DOMAIN infos[n] /\ c = infos[n][k]
  BY <1>1, SMTT(30) DEF Newest
<1>2. CASE \E n \in Node, l \in Link : \E a \in ToSet(chan[n][l]) : a.key = k /\ c = a.info
  BY <1>2, SMTT(30) DEF Newest
<1>. QED  BY <1>1, <1>2 DEF Copies

\* Only a restart changes a node's nonce, and then it has had more than one.
LEMMA NonceStep ==
  ASSUME TypeOK, SentKnown, [Next]_vars, NEW k \in Node, Len(nonce'[k]) = 1
  PROVE  nonce'[k] = nonce[k]
<1>1. ASSUME NEW m \in Node, Restart(m) PROVE nonce'[k] = nonce[k]
  <2>1. PICK x \in Nonce : nonce' = [nonce EXCEPT ![m] = Append(@, x)]
    BY <1>1, ZenonT(30) DEF Restart
  <2>2. nonce[m] \in Seq(Nonce) /\ nonce[m] # <<>>
    BY DEF TypeOK
  <2>3. Len(Append(nonce[m], x)) # 1
    BY <2>2
  <2>. QED  BY <2>1, <2>3, SMTT(30) DEF TypeOK
<1>2. ASSUME NEW n \in Node, NEW l \in Link,
             AddPeer(n, l) \/ RemovePeer(n, l) \/ HandleResponse(n, l) \/ HandleAnnounce(n, l)
      PROVE  nonce'[k] = nonce[k]
  BY <1>2, ZenonT(30) DEF AddPeer, RemovePeer, HandleResponse, HandleAnnounce
<1>3. ASSUME NEW n \in Node, Maintenance(n) \/ RefreshTimer(n) PROVE nonce'[k] = nonce[k]
  BY <1>3, ZenonT(30) DEF Maintenance, RefreshTimer
<1>4. ASSUME NEW n \in Node, NEW j \in Node, Expire(n, j) PROVE nonce'[k] = nonce[k]
  BY <1>4 DEF Expire
<1>5. ASSUME NEW l \in Link, Connect(l) PROVE nonce'[k] = nonce[k]
  BY <1>5 DEF Connect
<1>6. ASSUME UNCHANGED vars PROVE nonce'[k] = nonce[k]
  BY <1>6, SMTT(30) DEF vars
<1>. QED  BY <1>1, <1>2, <1>3, <1>4, <1>5, <1>6, ZenonT(30) DEF Next, System, Environment

\* Every step keeps the inductive form of OwnIsNewest.
LEMMA NewestStep ==
  ASSUME TypeOK, SentKnown, Newest, [Next]_vars
  PROVE  Newest'
<1>. SUFFICES ASSUME NEW k \in Node, Len(nonce'[k]) = 1
              PROVE  /\ \A n \in Node : k \in DOMAIN infos'[n] =>
                          ~Better(infos'[n][k], infos'[k][k])
                     /\ \A n \in Node, l \in Link : \A a \in ToSet(chan'[n][l]) :
                          a.key = k => ~Better(a.info, infos'[k][k])
  BY DEF Newest
<1>1. nonce'[k] = nonce[k] /\ Len(nonce[k]) = 1
  BY NonceStep
<1>2. TypeOK'
  BY NextInv, SMTT(30)
<1>3. infos[k][k] \in Info /\ infos'[k][k] \in Info
  BY <1>2, ZenonT(30) DEF TypeOK
<1>4. infos'[k][k] = infos[k][k] \/ Better(infos'[k][k], infos[k][k])
  <2>1. k \in DOMAIN infos[k]
    BY SMTT(30) DEF TypeOK
  <2>. QED  BY <1>1, <2>1, ImproveStep, SMTT(30)
<1>5. ASSUME NEW c \in Info, ~Better(c, infos[k][k])
      PROVE  ~Better(c, infos'[k][k])
  BY <1>3, <1>4, <1>5, BetterOrder, ZenonT(30)
<1>6. ASSUME NEW n \in Node, NEW l \in Link, NEW a \in ToSet(chan[n][l]), a.key = k
      PROVE  ~Better(a.info, infos'[k][k])
  <2>1. chan[n][l] \in Seq(Announce)
    BY DEF TypeOK
  <2>2. a \in Announce
    BY <2>1 DEF ToSet
  <2>3. a.info \in Info
    BY <2>2, SMTT(30) DEF Announce
  <2>4. ~Better(a.info, infos[k][k])
    BY <1>1, <1>6, SMTT(30) DEF Newest
  <2>. QED  BY <1>5, <2>3, <2>4, SMTT(30)
<1>7. ASSUME NEW n \in Node, k \in DOMAIN infos'[n]
      PROVE  ~Better(infos'[n][k], infos'[k][k])
  <2>1. CASE k \in DOMAIN infos[n] /\ infos'[n][k] = infos[n][k]
    <3>1. infos[n][k] \in Info
      BY <2>1, SMTT(30) DEF TypeOK
    <3>2. ~Better(infos[n][k], infos[k][k])
      BY <1>1, <2>1, SMTT(30) DEF Newest
    <3>. QED  BY <1>5, <2>1, <3>1, <3>2, SMTT(30)
  <2>2. CASE \E m \in Node, l \in Link : \E a \in ToSet(chan[m][l]) :
               a.key = k /\ infos'[n][k] = a.info
    BY <1>6, <2>2, ZenonT(30)
  <2>3. CASE k = n
    BY <1>3, <2>3, BetterOrder, SMTT(30)
  <2>. QED  BY <1>7, <2>1, <2>2, <2>3, InfosFrom, SMTT(30)
<1>8. ASSUME NEW n \in Node, NEW l \in Link, NEW a \in ToSet(chan'[n][l]), a.key = k
      PROVE  ~Better(a.info, infos'[k][k])
  <2>1. \/ a \in ToSet(chan[n][l])
        \/ \E m \in Node : a.key \in DOMAIN infos'[m] /\ a.info = infos'[m][a.key]
    BY AnnouncesFrom
  <2>. QED  BY <1>6, <1>7, <1>8, <2>1, SMTT(30)
<1>. QED  BY <1>7, <1>8, SMTT(30)

\* Until a node restarts, no copy of its info, in any memory or on any
\* connection, is better than its own.
THEOREM OwnNewest == Spec => []OwnIsNewest
<1>1. Init => Newest
  <2>. SUFFICES ASSUME Init PROVE Newest
    OBVIOUS
  <2>1. \A n \in Node : infos[n] = [k \in {n} |-> RootInfo(n, 1, nonce[n][1])]
    BY SMTT(30) DEF Init
  <2>2. \A n \in Node : DOMAIN infos[n] = {n} /\ infos[n][n] \in Info
    BY <2>1, InitInv, ZenonT(30) DEF TypeOK
  <2>3. \A n \in Node, l \in Link : ToSet(chan[n][l]) = {}
    BY DEF Init, ToSet
  <2>. QED  BY <2>2, <2>3, BetterOrder, SMTT(30) DEF Newest
<1>2. TypeOK /\ SentKnown /\ Newest /\ [Next]_vars => Newest'
  BY NewestStep
<1>3. Spec => []Newest
  BY <1>1, <1>2, RouterInvariant, PTL DEF Spec
<1>. QED  BY <1>3, NewestIsOwn, PTL
=============================================================================
