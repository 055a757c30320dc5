----------------------------- MODULE LinksProofs -----------------------------
(***************************************************************************)
(* What TLAPS proves about Links, for any number of goroutines and links:  *)
(* the registry knows every connection in use, and a persistent link stays *)
(* until it is removed.  Both take that an accepted connection has a link  *)
(* of its own, as the remote address of any socket but a unix socket gives *)
(* it (Distinct).                                                          *)
(***************************************************************************)
EXTENDS Links, TLAPS

\* Accepted connections have links of their own, and there is a link at all.
Distinct == SharedInfo = {} /\ DialInfo \cap AcceptInfo = {} /\ Info # {}

Dialler(g) == ltype[g] \in {"persistent", "ephemeral"}
Accepted(g) == ltype[g] = "incoming"
InUse == {"sni", "handshake", "peered"}

\* A goroutine that has not started has left no trace; one that has has a type.
Unborn ==
  \A g \in G :
    /\ pc[g] = "none" => /\ conn[g] = 0 /\ state[g] = g /\ ~open[g]
                         /\ \A i \in Info : links[i] # g
    /\ pc[g] = "none" <=> ltype[g] = "none"

\* A goroutine that dials has a record of its own, in the registry from its
\* start to its end; the connection in the record is there while it is in use.
Diallers ==
  \A g \in G : Dialler(g) =>
    /\ info[g] \in DialInfo /\ state[g] = g
    /\ pc[g] \notin {"none", "accepted", "sni"}
    /\ pc[g] # "done" => links[info[g]] = g
    /\ pc[g] \in {"top", "dialing", "dialed", "backoff"} => conn[g] = 0
    /\ pc[g] \in {"handshake", "peered", "closing"} => conn[g] = g

\* An accepted connection in use is that of its own record, and as long as it is
\* open that record is in the registry and no other connection has its link.  One
\* that is refused was given the record of another, and is open to the end.
Accepteds ==
  \A g \in G : Accepted(g) =>
    /\ info[g] \in AcceptInfo
    /\ pc[g] \in {"accepted", "closing", "exiting", "done"} \cup InUse
    /\ pc[g] \in {"closing"} \cup InUse => state[g] = g /\ conn[g] = g
    /\ pc[g] \in InUse /\ open[g] => links[info[g]] = g
    /\ pc[g] = "accepted" => state[g] = g /\ conn[g] = 0 /\ open[g]
    /\ pc[g] = "exiting" /\ state[g] # g => conn[g] = 0 /\ open[g]
    /\ pc[g] = "done" => ~open[g]

\* No two accepted connections of one link are open at a time.
Single ==
  \A g, h \in G : Accepted(g) /\ Accepted(h) /\ open[g] /\ open[h] /\ info[g] = info[h]
    => g = h

\* A record in the registry is under its link, a record of an accepted connection
\* has a connection, and the connection of a record is that of its goroutine.
Records ==
  /\ \A s \in G : conn[s] \in {0, s}
  /\ \A i \in Info : links[i] # 0 =>
       /\ info[links[i]] = i
       /\ ltype[links[i]] # "none"
       /\ Accepted(links[i]) => conn[links[i]] # 0

\* A persistent link does not end by itself.
Lasting ==
  \A g \in G : ltype[g] = "persistent" /\ ~cancelled[g] /\ stop = 0
    => pc[g] \notin {"exiting", "done"}

\* The next step neither ends a persistent link nor takes out its entry.
Keeps ==
  \A g \in G : ltype[g] = "persistent" /\ ~cancelled[g] /\ stop = 0
    => pc'[g] \notin {"exiting", "done"} /\ links'[info[g]] = links[info[g]]

IInv == TypeOK /\ Unborn /\ Diallers /\ Accepteds /\ Single /\ Records

\* Goroutines are positive numbers up to MaxG.
LEMMA GFacts ==
  /\ 0 \notin G
  /\ \A x : x \in 0..MaxG <=> x = 0 \/ x \in G
BY LinksAssumption DEF G

\* AddPeer or a configured peer: a new goroutine with a record of its own, or a kick.
LEMMA AddStep ==
  ASSUME Distinct, IInv, NEW i \in DialInfo, NEW t \in {"persistent", "ephemeral"}, Add(i, t)
  PROVE  IInv'
<1>. USE LinksAssumption, GFacts DEF IInv, TypeOK, Info, Distinct, Goto, Set, reg, born, env, Add, Kicked, Next_G
<1>1. TypeOK'
  <2>1. CASE links[i] # 0 /\ Kicked(links[i])
    <3>1. pc' = [pc EXCEPT ![links[i]] = "top"]
      BY <2>1
    <3>. QED  BY <2>1, <3>1
  <2>2. CASE links[i] = 0
    <3>1. PICK g \in G : /\ links' = [links EXCEPT ![i] = g]
                         /\ pc' = [pc EXCEPT ![g] = "top"]
                         /\ ltype' = [ltype EXCEPT ![g] = t]
                         /\ info' = [info EXCEPT ![g] = i]
      BY <2>2
    <3>2. UNCHANGED <<conn, cancelled, state, open, backoff, stop>>
      BY <2>2
    <3>. QED  BY <3>1, <3>2
  <2>. QED  BY <2>1, <2>2
<1>2. Unborn'
  BY DEF Unborn, Diallers, Accepteds, Dialler, Accepted, InUse
<1>3. Diallers'
  BY DEF Unborn, Diallers, Accepteds, Records, Dialler, Accepted, InUse
<1>4. Accepteds'
  BY DEF Unborn, Diallers, Accepteds, Single, Records, Dialler, Accepted, InUse
<1>5. Single'
  BY DEF Unborn, Single, Accepteds, Records, Accepted, Dialler, InUse
<1>6. Records'
  BY DEF Unborn, Records, Diallers, Accepteds, Dialler, Accepted, InUse
<1>. QED  BY <1>1, <1>2, <1>3, <1>4, <1>5, <1>6 DEF IInv

\* Removing a link closes its connection and leaves its entry to its goroutine.
LEMMA RemoveStep ==
  ASSUME Distinct, IInv, NEW i \in RemoveInfo, Remove(i)
  PROVE  IInv'
<1>. USE LinksAssumption, GFacts DEF IInv, TypeOK, Info, Distinct, Goto, Set, reg, born, env, Remove
<1>1. TypeOK'
  <2>1. open' \in [G -> BOOLEAN]
    BY ZenonT(30)
  <2>2. cancelled' \in [G -> BOOLEAN]
    BY ZenonT(30)
  <2>3. UNCHANGED <<links, conn, pc, ltype, info, state, backoff, stop>>
    OBVIOUS
  <2>. QED  BY <2>1, <2>2, <2>3
<1>2. Unborn'
  BY DEF Unborn, Diallers, Accepteds, Dialler, Accepted, InUse
<1>3. Diallers'
  BY DEF Unborn, Diallers, Accepteds, Records, Dialler, Accepted, InUse
<1>4. Accepteds'
  BY DEF Unborn, Diallers, Accepteds, Single, Records, Dialler, Accepted, InUse
<1>5. Single'
  BY DEF Unborn, Single, Accepteds, Records, Accepted, Dialler, InUse
<1>6. Records'
  BY DEF Unborn, Records, Diallers, Accepteds, Dialler, Accepted, InUse
<1>. QED  BY <1>1, <1>2, <1>3, <1>4, <1>5, <1>6 DEF IInv

\* Kicking wakes goroutines that back off, and no others.
LEMMA RetryPeersNowStep ==
  ASSUME Distinct, IInv, RetryPeersNow
  PROVE  IInv'
<1>. USE LinksAssumption, GFacts DEF IInv, TypeOK, Info, Distinct, Goto, Set, reg, born, env, RetryPeersNow, Kicked
<1>1. TypeOK'
  BY DEF TypeOK, Diallers
<1>2. Unborn'
  BY DEF Unborn, Diallers, Accepteds, Dialler, Accepted, InUse
<1>3. Diallers'
  BY DEF Unborn, Diallers, Accepteds, Records, Dialler, Accepted, InUse
<1>4. Accepteds'
  BY DEF Unborn, Diallers, Accepteds, Single, Records, Dialler, Accepted, InUse
<1>5. Single'
  BY DEF Unborn, Single, Accepteds, Records, Accepted, Dialler, InUse
<1>6. Records'
  BY DEF Unborn, Records, Diallers, Accepteds, Dialler, Accepted, InUse
<1>. QED  BY <1>1, <1>2, <1>3, <1>4, <1>5, <1>6 DEF IInv

\* Stopping the node closes connections, in the order of Core._close.
LEMMA StopStep ==
  ASSUME Distinct, IInv, Stop
  PROVE  IInv'
<1>. USE LinksAssumption, GFacts DEF IInv, TypeOK, Info, Distinct, Goto, Set, reg, born, env, Stop, Shutdown
<1>1. TypeOK'
  BY DEF TypeOK, Diallers
<1>2. Unborn'
  BY DEF Unborn, Diallers, Accepteds, Dialler, Accepted, InUse
<1>3. Diallers'
  BY DEF Unborn, Diallers, Accepteds, Records, Dialler, Accepted, InUse
<1>4. Accepteds'
  BY DEF Unborn, Diallers, Accepteds, Single, Records, Dialler, Accepted, InUse
<1>5. Single'
  BY DEF Unborn, Single, Accepteds, Records, Accepted, Dialler, InUse
<1>6. Records'
  BY DEF Unborn, Records, Diallers, Accepteds, Dialler, Accepted, InUse
<1>. QED  BY <1>1, <1>2, <1>3, <1>4, <1>5, <1>6 DEF IInv

\* The head of the loop of links.add.
LEMMA TopStep ==
  ASSUME Distinct, IInv, NEW g \in G, Top(g)
  PROVE  IInv'
<1>. USE LinksAssumption, GFacts DEF IInv, TypeOK, Info, Distinct, Goto, Set, reg, born, env, Top
<1>1. TypeOK'
  BY DEF TypeOK, Diallers
<1>2. Unborn'
  BY DEF Unborn, Diallers, Accepteds, Dialler, Accepted, InUse
<1>3. Diallers'
  BY DEF Unborn, Diallers, Accepteds, Records, Dialler, Accepted, InUse
<1>4. Accepteds'
  BY DEF Unborn, Diallers, Accepteds, Single, Records, Dialler, Accepted, InUse
<1>5. Single'
  BY DEF Unborn, Single, Accepteds, Records, Accepted, Dialler, InUse
<1>6. Records'
  BY DEF Unborn, Records, Diallers, Accepteds, Dialler, Accepted, InUse
<1>. QED  BY <1>1, <1>2, <1>3, <1>4, <1>5, <1>6 DEF IInv

\* A failed dial.
LEMMA DialFailsStep ==
  ASSUME Distinct, IInv, NEW g \in G, DialFails(g)
  PROVE  IInv'
<1>. USE LinksAssumption, GFacts DEF IInv, TypeOK, Info, Distinct, Goto, Set, reg, born, env, DialFails, AgainOrExit, BackOff
<1>1. TypeOK'
  BY DEF TypeOK, Diallers
<1>2. Unborn'
  BY DEF Unborn, Diallers, Accepteds, Dialler, Accepted, InUse
<1>3. Diallers'
  BY DEF Unborn, Diallers, Accepteds, Records, Dialler, Accepted, InUse
<1>4. Accepteds'
  BY DEF Unborn, Diallers, Accepteds, Single, Records, Dialler, Accepted, InUse
<1>5. Single'
  BY DEF Unborn, Single, Accepteds, Records, Accepted, Dialler, InUse
<1>6. Records'
  BY DEF Unborn, Records, Diallers, Accepteds, Dialler, Accepted, InUse
<1>. QED  BY <1>1, <1>2, <1>3, <1>4, <1>5, <1>6 DEF IInv

\* A dial that succeeded.
LEMMA DialSucceedsStep ==
  ASSUME Distinct, IInv, NEW g \in G, DialSucceeds(g)
  PROVE  IInv'
<1>. USE LinksAssumption, GFacts DEF IInv, TypeOK, Info, Distinct, Goto, Set, reg, born, env, DialSucceeds
<1>1. TypeOK'
  BY DEF TypeOK, Diallers
<1>2. Unborn'
  BY DEF Unborn, Diallers, Accepteds, Dialler, Accepted, InUse
<1>3. Diallers'
  BY DEF Unborn, Diallers, Accepteds, Records, Dialler, Accepted, InUse
<1>4. Accepteds'
  BY DEF Unborn, Diallers, Accepteds, Single, Records, Dialler, Accepted, InUse
<1>5. Single'
  BY DEF Unborn, Single, Accepteds, Records, Accepted, Dialler, InUse
<1>6. Records'
  BY DEF Unborn, Records, Diallers, Accepteds, Dialler, Accepted, InUse
<1>. QED  BY <1>1, <1>2, <1>3, <1>4, <1>5, <1>6 DEF IInv

\* The dialled connection becomes that of the record, which has none.
LEMMA PublishStep ==
  ASSUME Distinct, IInv, NEW g \in G, Publish(g)
  PROVE  IInv'
<1>. USE LinksAssumption, GFacts DEF IInv, TypeOK, Info, Distinct, Goto, Set, reg, born, env, Publish
<1>1. TypeOK'
  BY DEF TypeOK, Diallers
<1>2. Unborn'
  BY DEF Unborn, Diallers, Accepteds, Dialler, Accepted, InUse
<1>3. Diallers'
  BY DEF Unborn, Diallers, Accepteds, Records, Dialler, Accepted, InUse
<1>4. Accepteds'
  BY DEF Unborn, Diallers, Accepteds, Single, Records, Dialler, Accepted, InUse
<1>5. Single'
  BY DEF Unborn, Single, Accepteds, Records, Accepted, Dialler, InUse
<1>6. Records'
  BY DEF Unborn, Records, Diallers, Accepteds, Dialler, Accepted, InUse
<1>. QED  BY <1>1, <1>2, <1>3, <1>4, <1>5, <1>6 DEF IInv

\* The end of a backoff.
LEMMA BackoffTimeoutStep ==
  ASSUME Distinct, IInv, NEW g \in G, BackoffTimeout(g)
  PROVE  IInv'
<1>. USE LinksAssumption, GFacts DEF IInv, TypeOK, Info, Distinct, Goto, Set, reg, born, env, BackoffTimeout
<1>1. TypeOK'
  BY DEF TypeOK, Diallers
<1>2. Unborn'
  BY DEF Unborn, Diallers, Accepteds, Dialler, Accepted, InUse
<1>3. Diallers'
  BY DEF Unborn, Diallers, Accepteds, Records, Dialler, Accepted, InUse
<1>4. Accepteds'
  BY DEF Unborn, Diallers, Accepteds, Single, Records, Dialler, Accepted, InUse
<1>5. Single'
  BY DEF Unborn, Single, Accepteds, Records, Accepted, Dialler, InUse
<1>6. Records'
  BY DEF Unborn, Records, Diallers, Accepteds, Dialler, Accepted, InUse
<1>. QED  BY <1>1, <1>2, <1>3, <1>4, <1>5, <1>6 DEF IInv

\* A link that is cancelled while it backs off.
LEMMA GiveUpStep ==
  ASSUME Distinct, IInv, NEW g \in G, GiveUp(g)
  PROVE  IInv'
<1>. USE LinksAssumption, GFacts DEF IInv, TypeOK, Info, Distinct, Goto, Set, reg, born, env, GiveUp
<1>1. TypeOK'
  BY DEF TypeOK, Diallers
<1>2. Unborn'
  BY DEF Unborn, Diallers, Accepteds, Dialler, Accepted, InUse
<1>3. Diallers'
  BY DEF Unborn, Diallers, Accepteds, Records, Dialler, Accepted, InUse
<1>4. Accepteds'
  BY DEF Unborn, Diallers, Accepteds, Single, Records, Dialler, Accepted, InUse
<1>5. Single'
  BY DEF Unborn, Single, Accepteds, Records, Accepted, Dialler, InUse
<1>6. Records'
  BY DEF Unborn, Records, Diallers, Accepteds, Dialler, Accepted, InUse
<1>. QED  BY <1>1, <1>2, <1>3, <1>4, <1>5, <1>6 DEF IInv

\* A connection from an address that has no other open connection.
LEMMA AcceptStep ==
  ASSUME Distinct, IInv, NEW i \in AcceptInfo, Accept(i)
  PROVE  IInv'
<1>. USE LinksAssumption, GFacts DEF IInv, TypeOK, Info, Distinct, Goto, Set, reg, born, env, Accept, Next_G
<1>1. TypeOK'
  BY DEF TypeOK, Diallers
<1>2. Unborn'
  BY DEF Unborn, Diallers, Accepteds, Dialler, Accepted, InUse
<1>3. Diallers'
  BY DEF Unborn, Diallers, Accepteds, Records, Dialler, Accepted, InUse
<1>4. Accepteds'
  BY DEF Unborn, Diallers, Accepteds, Single, Records, Dialler, Accepted, InUse
<1>5. Single'
  BY DEF Unborn, Single, Accepteds, Records, Accepted, Dialler, InUse
<1>6. Records'
  BY DEF Unborn, Records, Diallers, Accepteds, Dialler, Accepted, InUse
<1>. QED  BY <1>1, <1>2, <1>3, <1>4, <1>5, <1>6 DEF IInv

\* An accepted connection gets a new record, or is refused because there is one.
LEMMA RegisterStep ==
  ASSUME Distinct, IInv, NEW g \in G, Register(g)
  PROVE  IInv'
<1>. USE LinksAssumption, GFacts DEF IInv, TypeOK, Info, Distinct, Goto, Set, reg, born, env, Register
<1>a. Accepted(g) /\ info[g] \in AcceptInfo /\ conn[g] = 0 /\ state[g] = g
  BY DEF Unborn, Diallers, Accepteds, Dialler, Accepted, InUse
<1>b. \/ links[info[g]] = 0
      \/ links[info[g]] \in G /\ conn[links[info[g]]] # 0
  BY <1>a DEF Unborn, Diallers, Records, Dialler, Accepted
<1>c. \/ UNCHANGED <<links, conn>>
      \/ /\ links' = [links EXCEPT ![info[g]] = g]
         /\ conn' = [conn EXCEPT ![g] = g]
  BY <1>b
<1>1. TypeOK'
  BY DEF TypeOK
<1>2. Unborn'
  BY DEF Unborn, Diallers, Accepteds, Dialler, Accepted, InUse
<1>3. Diallers'
  BY <1>a, <1>c DEF Unborn, Diallers, Accepteds, Records, Dialler, Accepted, InUse
<1>4. Accepteds'
  BY DEF Unborn, Diallers, Accepteds, Single, Records, Dialler, Accepted, InUse
<1>5. Single'
  BY DEF Unborn, Single, Accepteds, Records, Accepted, Dialler, InUse
<1>6. Records'
  <2>1. UNCHANGED <<info, ltype>>
    OBVIOUS
  <2>2. CASE UNCHANGED <<links, conn>>
    BY <2>1, <2>2 DEF Records, Accepted
  <2>3. CASE /\ links' = [links EXCEPT ![info[g]] = g]
             /\ conn' = [conn EXCEPT ![g] = g]
    <3>1. \A h \in G : conn'[h] = IF h = g THEN g ELSE conn[h]
      BY <2>3
    <3>2. \A x \in Info : links'[x] = IF x = info[g] THEN g ELSE links[x]
      BY <2>3
    <3>. HIDE DEF Register
    <3>. QED  BY <1>a, <2>1, <3>1, <3>2 DEF Records, Accepted
  <2>. QED  BY <1>c, <2>2, <2>3
<1>. QED  BY <1>1, <1>2, <1>3, <1>4, <1>5, <1>6 DEF IInv

\* The end of the TLS handshake.
LEMMA ConnSNIStep ==
  ASSUME Distinct, IInv, NEW g \in G, ConnSNI(g)
  PROVE  IInv'
<1>. USE LinksAssumption, GFacts DEF IInv, TypeOK, Info, Distinct, Goto, Set, reg, born, env, ConnSNI
<1>1. TypeOK'
  BY DEF TypeOK, Diallers
<1>2. Unborn'
  BY DEF Unborn, Diallers, Accepteds, Dialler, Accepted, InUse
<1>3. Diallers'
  BY DEF Unborn, Diallers, Accepteds, Records, Dialler, Accepted, InUse
<1>4. Accepteds'
  BY DEF Unborn, Diallers, Accepteds, Single, Records, Dialler, Accepted, InUse
<1>5. Single'
  BY DEF Unborn, Single, Accepteds, Records, Accepted, Dialler, InUse
<1>6. Records'
  BY DEF Unborn, Records, Diallers, Accepteds, Dialler, Accepted, InUse
<1>. QED  BY <1>1, <1>2, <1>3, <1>4, <1>5, <1>6 DEF IInv

\* A handshake that succeeds.
LEMMA HandshakeSucceedsStep ==
  ASSUME Distinct, IInv, NEW g \in G, HandshakeSucceeds(g)
  PROVE  IInv'
<1>. USE LinksAssumption, GFacts DEF IInv, TypeOK, Info, Distinct, Goto, Set, reg, born, env, HandshakeSucceeds
<1>1. TypeOK'
  BY DEF TypeOK, Diallers
<1>2. Unborn'
  BY DEF Unborn, Diallers, Accepteds, Dialler, Accepted, InUse
<1>3. Diallers'
  BY DEF Unborn, Diallers, Accepteds, Records, Dialler, Accepted, InUse
<1>4. Accepteds'
  BY DEF Unborn, Diallers, Accepteds, Single, Records, Dialler, Accepted, InUse
<1>5. Single'
  BY DEF Unborn, Single, Accepteds, Records, Accepted, Dialler, InUse
<1>6. Records'
  BY DEF Unborn, Records, Diallers, Accepteds, Dialler, Accepted, InUse
<1>. QED  BY <1>1, <1>2, <1>3, <1>4, <1>5, <1>6 DEF IInv

\* A handshake with the node itself.
LEMMA HandshakeToSelfStep ==
  ASSUME Distinct, IInv, NEW g \in G, HandshakeToSelf(g)
  PROVE  IInv'
<1>. USE LinksAssumption, GFacts DEF IInv, TypeOK, Info, Distinct, Goto, Set, reg, born, env, HandshakeToSelf
<1>1. TypeOK'
  BY DEF TypeOK, Diallers
<1>2. Unborn'
  BY DEF Unborn, Diallers, Accepteds, Dialler, Accepted, InUse
<1>3. Diallers'
  BY DEF Unborn, Diallers, Accepteds, Records, Dialler, Accepted, InUse
<1>4. Accepteds'
  BY DEF Unborn, Diallers, Accepteds, Single, Records, Dialler, Accepted, InUse
<1>5. Single'
  BY DEF Unborn, Single, Accepteds, Records, Accepted, Dialler, InUse
<1>6. Records'
  BY DEF Unborn, Records, Diallers, Accepteds, Dialler, Accepted, InUse
<1>. QED  BY <1>1, <1>2, <1>3, <1>4, <1>5, <1>6 DEF IInv

\* A handshake that fails.
LEMMA HandshakeFailsStep ==
  ASSUME Distinct, IInv, NEW g \in G, HandshakeFails(g)
  PROVE  IInv'
<1>. USE LinksAssumption, GFacts DEF IInv, TypeOK, Info, Distinct, Goto, Set, reg, born, env, HandshakeFails
<1>1. TypeOK'
  BY DEF TypeOK, Diallers
<1>2. Unborn'
  BY DEF Unborn, Diallers, Accepteds, Dialler, Accepted, InUse
<1>3. Diallers'
  BY DEF Unborn, Diallers, Accepteds, Records, Dialler, Accepted, InUse
<1>4. Accepteds'
  BY DEF Unborn, Diallers, Accepteds, Single, Records, Dialler, Accepted, InUse
<1>5. Single'
  BY DEF Unborn, Single, Accepteds, Records, Accepted, Dialler, InUse
<1>6. Records'
  BY DEF Unborn, Records, Diallers, Accepteds, Dialler, Accepted, InUse
<1>. QED  BY <1>1, <1>2, <1>3, <1>4, <1>5, <1>6 DEF IInv

\* The end of a connection.
LEMMA ConnLostStep ==
  ASSUME Distinct, IInv, NEW g \in G, ConnLost(g)
  PROVE  IInv'
<1>. USE LinksAssumption, GFacts DEF IInv, TypeOK, Info, Distinct, Goto, Set, reg, born, env, ConnLost
<1>1. TypeOK'
  BY DEF TypeOK, Diallers
<1>2. Unborn'
  BY DEF Unborn, Diallers, Accepteds, Dialler, Accepted, InUse
<1>3. Diallers'
  BY DEF Unborn, Diallers, Accepteds, Records, Dialler, Accepted, InUse
<1>4. Accepteds'
  BY DEF Unborn, Diallers, Accepteds, Single, Records, Dialler, Accepted, InUse
<1>5. Single'
  BY DEF Unborn, Single, Accepteds, Records, Accepted, Dialler, InUse
<1>6. Records'
  BY DEF Unborn, Records, Diallers, Accepteds, Dialler, Accepted, InUse
<1>. QED  BY <1>1, <1>2, <1>3, <1>4, <1>5, <1>6 DEF IInv

\* HandleConn notices the end.
LEMMA HandleConnReturnsStep ==
  ASSUME Distinct, IInv, NEW g \in G, HandleConnReturns(g)
  PROVE  IInv'
<1>. USE LinksAssumption, GFacts DEF IInv, TypeOK, Info, Distinct, Goto, Set, reg, born, env, HandleConnReturns
<1>1. TypeOK'
  BY DEF TypeOK, Diallers
<1>2. Unborn'
  BY DEF Unborn, Diallers, Accepteds, Dialler, Accepted, InUse
<1>3. Diallers'
  BY DEF Unborn, Diallers, Accepteds, Records, Dialler, Accepted, InUse
<1>4. Accepteds'
  BY DEF Unborn, Diallers, Accepteds, Single, Records, Dialler, Accepted, InUse
<1>5. Single'
  BY DEF Unborn, Single, Accepteds, Records, Accepted, Dialler, InUse
<1>6. Records'
  BY DEF Unborn, Records, Diallers, Accepteds, Dialler, Accepted, InUse
<1>. QED  BY <1>1, <1>2, <1>3, <1>4, <1>5, <1>6 DEF IInv

\* What follows the handler of a dialled connection.
LEMMA ClosedStep ==
  ASSUME Distinct, IInv, NEW g \in G, Closed(g)
  PROVE  IInv'
<1>. USE LinksAssumption, GFacts DEF IInv, TypeOK, Info, Distinct, Goto, Set, reg, born, env, Closed, AgainOrExit, BackOff
<1>1. TypeOK'
  <2>1. backoff' \in [G -> -1..MaxBackoff]
    OBVIOUS
  <2>2. pc' = [pc EXCEPT ![g] = "backoff"] \/ pc' = [pc EXCEPT ![g] = "exiting"]
    OBVIOUS
  <2>3. open' = [open EXCEPT ![g] = FALSE] /\ conn' = [conn EXCEPT ![state[g]] = 0]
    OBVIOUS
  <2>4. UNCHANGED <<links, cancelled, ltype, info, state, stop>>
    OBVIOUS
  <2>5. TypeOK
    OBVIOUS
  <2>. HIDE DEF Closed, AgainOrExit, BackOff, IInv, Distinct, Info
  <2>6. open' \in [G -> BOOLEAN]
    BY <2>3, <2>5, Zenon
  <2>7. conn' \in [G -> 0..MaxG]
    BY <2>3, <2>5
  <2>. QED  BY <2>1, <2>2, <2>4, <2>5, <2>6, <2>7
<1>2. Unborn'
  BY DEF Unborn, Diallers, Accepteds, Dialler, Accepted, InUse
<1>3. Diallers'
  BY DEF Unborn, Diallers, Accepteds, Records, Dialler, Accepted, InUse
<1>4. Accepteds'
  BY DEF Unborn, Diallers, Accepteds, Single, Records, Dialler, Accepted, InUse
<1>5. Single'
  BY DEF Unborn, Single, Accepteds, Records, Accepted, Dialler, InUse
<1>6. Records'
  BY DEF Unborn, Records, Diallers, Accepteds, Dialler, Accepted, InUse
<1>. QED  BY <1>1, <1>2, <1>3, <1>4, <1>5, <1>6 DEF IInv

\* What follows the handler of an accepted connection.
LEMMA AcceptedClosedStep ==
  ASSUME Distinct, IInv, NEW g \in G, AcceptedClosed(g)
  PROVE  IInv'
<1>. USE LinksAssumption, GFacts DEF IInv, TypeOK, Info, Distinct, Goto, Set, reg, born, env, AcceptedClosed
<1>1. TypeOK'
  BY DEF TypeOK, Diallers
<1>2. Unborn'
  BY DEF Unborn, Diallers, Accepteds, Dialler, Accepted, InUse
<1>3. Diallers'
  BY DEF Unborn, Diallers, Accepteds, Records, Dialler, Accepted, InUse
<1>4. Accepteds'
  BY DEF Unborn, Diallers, Accepteds, Single, Records, Dialler, Accepted, InUse
<1>5. Single'
  BY DEF Unborn, Single, Accepteds, Records, Accepted, Dialler, InUse
<1>6. Records'
  BY DEF Unborn, Records, Diallers, Accepteds, Dialler, Accepted, InUse
<1>. QED  BY <1>1, <1>2, <1>3, <1>4, <1>5, <1>6 DEF IInv

\* The deferred clean-up takes out the own record, or that of a connection that is no
\* longer open: while one is, nothing else was accepted from its address.
LEMMA ExitStep ==
  ASSUME Distinct, IInv, NEW g \in G, Exit(g)
  PROVE  IInv'
<1>. USE LinksAssumption, GFacts DEF IInv, TypeOK, Info, Distinct, Goto, Set, reg, born, env, Exit
<1>1. TypeOK'
  BY DEF TypeOK, Diallers
<1>2. Unborn'
  BY DEF Unborn, Diallers, Accepteds, Dialler, Accepted, InUse
<1>3. Diallers'
  BY DEF Unborn, Diallers, Accepteds, Records, Dialler, Accepted, InUse
<1>4. Accepteds'
  BY DEF Unborn, Diallers, Accepteds, Single, Records, Dialler, Accepted, InUse
<1>5. Single'
  BY DEF Unborn, Single, Accepteds, Records, Accepted, Dialler, InUse
<1>6. Records'
  BY DEF Unborn, Records, Diallers, Accepteds, Dialler, Accepted, InUse
<1>. QED  BY <1>1, <1>2, <1>3, <1>4, <1>5, <1>6 DEF IInv

-----------------------------------------------------------------------------
(* The theorems *)

\* Every step keeps the registry, the records and the goroutines in line.
LEMMA NextStep ==
  ASSUME Distinct, IInv, [Next]_vars
  PROVE  IInv'
<1>1. CASE \E i \in DialInfo : Add(i, "persistent") \/ Add(i, "ephemeral")
  BY <1>1, AddStep
<1>2. CASE \E i \in RemoveInfo : Remove(i)
  BY <1>2, RemoveStep
<1>3. CASE \E i \in AcceptInfo : Accept(i)
  BY <1>3, AcceptStep
<1>4. ASSUME NEW g \in G, Runs(g) \/ ConnLost(g) \/ (open[g] /\ ConnSNI(g))
      PROVE  IInv'
  BY <1>4, TopStep, DialFailsStep, DialSucceedsStep, PublishStep, BackoffTimeoutStep,
     GiveUpStep, RegisterStep, ConnSNIStep, HandshakeSucceedsStep, HandshakeToSelfStep,
     HandshakeFailsStep, ConnLostStep, HandleConnReturnsStep, ClosedStep,
     AcceptedClosedStep, ExitStep DEF Runs
<1>5. CASE RetryPeersNow
  BY <1>5, RetryPeersNowStep
<1>6. CASE Stop
  BY <1>6, StopStep
<1>7. CASE UNCHANGED vars
  BY <1>7 DEF vars, IInv, TypeOK, Unborn, Diallers, Accepteds, Single, Records, Dialler, Accepted
<1>. QED  BY <1>1, <1>2, <1>3, <1>4, <1>5, <1>6, <1>7 DEF Next

\* The invariant holds: goroutines, records and registry start empty.
LEMMA Invariant ==
  ASSUME Distinct
  PROVE  Spec => []IInv
<1>1. Init => IInv
  <2>. SUFFICES ASSUME Init PROVE IInv
    OBVIOUS
  <2>1. (CHOOSE i \in Info : TRUE) \in Info
    BY DEF Distinct
  <2>2. TypeOK
    BY <2>1, LinksAssumption, GFacts DEF Init, TypeOK
  <2>3. Unborn /\ Diallers /\ Accepteds /\ Single /\ Records
    BY GFacts DEF Init, Unborn, Diallers, Accepteds, Single, Records, Dialler, Accepted
  <2>. QED  BY <2>2, <2>3 DEF IInv
<1>2. IInv /\ [Next]_vars => IInv'
  BY NextStep
<1>. QED  BY <1>1, <1>2, PTL DEF Spec

\* Links!Tracked: however dials, accepts, removals, deferred clean-ups and stops
\* interleave, a connection in use is the one the registry has for its link.
THEOREM ConnectionsTracked ==
  ASSUME Distinct
  PROVE  Spec => []Tracked
<1>1. IInv => Tracked
  <2>. SUFFICES ASSUME IInv, NEW g \in G, Connected(g)
                PROVE  links[info[g]] # 0 /\ conn[links[info[g]]] = g
    BY DEF Tracked
  <2>1. CASE Dialler(g)
    BY <2>1, GFacts DEF IInv, Connected, Diallers
  <2>2. CASE Accepted(g)
    BY <2>2, GFacts DEF IInv, Connected, Accepteds, InUse
  <2>3. Dialler(g) \/ Accepted(g)
    BY DEF IInv, TypeOK, Unborn, Connected, Dialler, Accepted
  <2>. QED  BY <2>1, <2>2, <2>3
<1>. QED  BY <1>1, Invariant, PTL

\* A goroutine that runs keeps its own link going, if that is persistent, and
\* leaves the entries of the other links that dial alone.
LEMMA RunsKeeps ==
  ASSUME Distinct, IInv, Lasting, NEW g \in G,
         Runs(g) \/ ConnLost(g) \/ (open[g] /\ ConnSNI(g))
  PROVE  Keeps /\ Lasting'
<1>. USE GFacts DEF IInv, TypeOK, Goto, Set, reg, born, env
<1>1. UNCHANGED <<ltype, info, cancelled, stop>>
  BY SMTT(30) DEF Runs, Top, DialFails, DialSucceeds, Publish, BackoffTimeout, GiveUp, Register,
         ConnSNI, HandshakeSucceeds, HandshakeToSelf, HandshakeFails, ConnLost,
         HandleConnReturns, Closed, AcceptedClosed, Exit
<1>2. ASSUME ltype[g] = "persistent", ~cancelled[g], stop = 0
      PROVE  pc'[g] \notin {"exiting", "done"} /\ links' = links
  <2>1. pc[g] \notin {"accepted", "sni", "exiting", "done"}
    BY <1>2 DEF Lasting, Diallers, Dialler
  <2>2. pc[g] = "dialed" => conn[state[g]] = 0
    BY SMTT(30), <1>2 DEF Diallers, Dialler
  <2>3. links' = links
    BY SMTT(30), <2>1
    DEF Runs, Top, DialFails, DialSucceeds, Publish, BackoffTimeout, GiveUp, Register,
        ConnSNI, HandshakeSucceeds, HandshakeToSelf, HandshakeFails, ConnLost,
        HandleConnReturns, Closed, AcceptedClosed, Exit
  <2>4. CASE DialFails(g) \/ Closed(g)
    BY <1>2, <2>3, <2>4 DEF DialFails, Closed, AgainOrExit, BackOff
  <2>5. CASE Top(g) \/ GiveUp(g) \/ Publish(g)
    BY <1>2, <2>2, <2>3, <2>5 DEF Top, Done, GiveUp, Publish
  <2>6. CASE ~(DialFails(g) \/ Closed(g) \/ Top(g) \/ GiveUp(g) \/ Publish(g))
    BY SMTT(30), <1>2, <2>1, <2>3, <2>6
    DEF Runs, DialSucceeds, BackoffTimeout, Register, ConnSNI, HandshakeSucceeds,
        HandshakeToSelf, HandshakeFails, ConnLost, HandleConnReturns, AcceptedClosed, Exit
  <2>. QED  BY <2>4, <2>5, <2>6
<1>3. \A h \in G : h # g => pc'[h] = pc[h]
  BY SMTT(30) DEF Runs, Top, DialFails, DialSucceeds, Publish, BackoffTimeout, GiveUp, Register,
         ConnSNI, HandshakeSucceeds, HandshakeToSelf, HandshakeFails, ConnLost,
         HandleConnReturns, Closed, AcceptedClosed, Exit, AgainOrExit, BackOff
<1>4. \A i \in Info : i # info[g] => links'[i] = links[i]
  BY SMTT(30) DEF Runs, Top, DialFails, DialSucceeds, Publish, BackoffTimeout, GiveUp, Register,
         ConnSNI, HandshakeSucceeds, HandshakeToSelf, HandshakeFails, ConnLost,
         HandleConnReturns, Closed, AcceptedClosed, Exit
<1>5. ASSUME NEW h \in G, h # g, Dialler(h), pc[h] # "done", info[h] = info[g]
      PROVE  links'[info[h]] = links[info[h]]
  <2>1. links[info[g]] = h
    BY <1>5 DEF Diallers
  <2>2. pc[g] # "accepted" /\ (pc[g] = "exiting" => state[g] # h)
    BY <1>5, <2>1 DEF Diallers, Accepteds, Unborn, Dialler, Accepted, Distinct
  <2>. QED
    BY SMTT(30), <1>5, <2>1, <2>2
    DEF Runs, Top, DialFails, DialSucceeds, Publish, BackoffTimeout, GiveUp, Register,
        ConnSNI, HandshakeSucceeds, HandshakeToSelf, HandshakeFails, ConnLost,
        HandleConnReturns, Closed, AcceptedClosed, Exit
<1>6. Keeps
  BY SMTT(30), <1>2, <1>3, <1>4, <1>5 DEF Keeps, Lasting, Dialler
<1>. QED  BY SMTT(30), <1>1, <1>6 DEF Keeps, Lasting

\* No step ends a persistent link that is neither removed nor stopped.
LEMMA KeepsStep ==
  ASSUME Distinct, IInv, Lasting, [Next]_vars
  PROVE  Keeps /\ Lasting'
<1>. USE GFacts DEF IInv, TypeOK, Goto, Set, reg, born, env, Keeps, Lasting
<1>1. ASSUME NEW i \in DialInfo, NEW t \in {"persistent", "ephemeral"}, Add(i, t)
      PROVE  Keeps /\ Lasting'
  BY <1>1 DEF Add, Next_G, Diallers, Dialler, Unborn
<1>2. ASSUME NEW i \in RemoveInfo, Remove(i)
      PROVE  Keeps /\ Lasting'
  BY <1>2, LinksAssumption DEF Remove
<1>3. ASSUME NEW i \in AcceptInfo, Accept(i)
      PROVE  Keeps /\ Lasting'
  BY <1>3 DEF Accept, Next_G, Unborn
<1>4. ASSUME NEW g \in G, Runs(g) \/ ConnLost(g) \/ (open[g] /\ ConnSNI(g))
      PROVE  Keeps /\ Lasting'
  BY <1>4, RunsKeeps
<1>5. CASE RetryPeersNow
  BY <1>5 DEF RetryPeersNow
<1>6. CASE Stop
  BY <1>6 DEF Stop
<1>7. CASE UNCHANGED vars
  BY <1>7 DEF vars
<1>. QED  BY <1>1, <1>2, <1>3, <1>4, <1>5, <1>6, <1>7 DEF Next

\* Links!PersistentStays: whatever happens to its dials and connections, a
\* persistent link that is neither removed nor stopped keeps its entry, and its
\* goroutine goes on.
THEOREM PersistentLinksStay ==
  ASSUME Distinct
  PROVE  Spec => PersistentStays
<1>1. Init => Lasting
  BY DEF Init, Lasting
<1>2. IInv /\ Lasting /\ [Next]_vars => Lasting'
  BY KeepsStep
<1>3. IInv /\ Lasting /\ [Next]_vars
        => [\A i \in Info : LET s == links[i] IN
              s # 0 /\ ltype[s] = "persistent" /\ ~cancelled[s] /\ stop = 0
                => links'[i] = s /\ pc'[s] \notin {"exiting", "done"}]_vars
  <2>. SUFFICES ASSUME IInv, Keeps, NEW i \in Info, links[i] # 0,
                       ltype[links[i]] = "persistent", ~cancelled[links[i]], stop = 0
                PROVE  links'[i] = links[i] /\ pc'[links[i]] \notin {"exiting", "done"}
    BY KeepsStep
  <2>1. links[i] \in G /\ info[links[i]] = i
    BY GFacts DEF IInv, TypeOK, Records
  <2>. QED  BY <2>1 DEF Keeps
<1>. QED  BY <1>1, <1>2, <1>3, Invariant, PTL DEF Spec, PersistentStays
=============================================================================
