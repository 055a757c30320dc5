-------------------------------- MODULE Links --------------------------------
(***************************************************************************)
(* The link manager of the node (src/core/link.go): the registry _links,   *)
(* one goroutine per configured peer that dials, hands the connection to   *)
(* the handler and backs off, one goroutine per accepted connection, and   *)
(* the calls that add, remove, retry and stop them.                        *)
(*                                                                         *)
(* A goroutine is a number of G, and so is the *link record it creates and *)
(* the connection it owns.  A phony.Block on the links actor is one step.  *)
(* The URI and interface of a link are one value of Info, the handshake is *)
(* its outcome, and a backoff is its exponent.                             *)
(***************************************************************************)
EXTENDS Integers

CONSTANTS
  DialInfo,     \* links that may be added
  AcceptInfo,   \* links that may be accepted
  RemoveInfo,   \* links that a caller may ask to remove
  SharedInfo,   \* links that more than one accepted connection may have at a
                \* time: a unix socket has no remote address to tell them apart
  TlsInfo,      \* links whose accepted connections start with a TLS handshake
  MaxG,         \* bound: goroutines started in a behaviour
  MaxBackoff    \* the largest backoff exponent (32 in the code)

Info == DialInfo \cup AcceptInfo
G == 1..MaxG

ASSUME LinksAssumption ==
  /\ RemoveInfo \subseteq Info
  /\ SharedInfo \subseteq AcceptInfo
  /\ TlsInfo \subseteq AcceptInfo
  /\ MaxG \in Nat
  /\ MaxBackoff \in Nat

VARIABLES
  links,      \* l._links: info -> the goroutine that made the record, or 0
  conn,       \* state._conn of each record: the goroutine that owns it, or 0
  cancelled,  \* state.ctx is done
  pc,         \* where each goroutine is
  ltype,      \* its link type
  info,       \* the link it works for
  state,      \* the record it works with
  open,       \* its connection is open
  backoff,    \* its backoff exponent, or -1: wait for a kick
  stop,       \* how far Core.Stop has come, see Stop
  panicked    \* a nil cancel function was called

vars == <<links, conn, cancelled, pc, ltype, info, state, open, backoff, stop, panicked>>

\* Parts of vars that the steps of one goroutine share.
reg == <<links, conn, cancelled>>
born == <<ltype, info, state>>
env == <<stop, panicked>>

Init ==
  /\ links = [i \in Info |-> 0]
  /\ conn = [g \in G |-> 0]
  /\ cancelled = [g \in G |-> FALSE]
  /\ pc = [g \in G |-> "none"]
  /\ ltype = [g \in G |-> "none"]
  /\ info = [g \in G |-> CHOOSE i \in Info : TRUE]
  /\ state = [g \in G |-> g]
  /\ open = [g \in G |-> FALSE]
  /\ backoff = [g \in G |-> 0]
  /\ stop = 0
  /\ panicked = FALSE

Goto(g, l) == pc' = [pc EXCEPT ![g] = l]
Set(f, g, v) == [f EXCEPT ![g] = v]

\* The next goroutine to start; they are interchangeable.
Next_G(g) == pc[g] = "none" /\ \A x \in 1..(g - 1) : pc[x] # "none"

-----------------------------------------------------------------------------
(* Calls: links.add, links.remove, Core.RetryPeersNow, Core.Stop *)

\* A send on state.kick succeeds only while the goroutine is backing off.
Kicked(s) == pc[s] = "backoff"

\* A link that is already there is kicked, if it can be.
Add(i, t) ==
  \/ /\ links[i] # 0 /\ Kicked(links[i])
     /\ Goto(links[i], "top")
     /\ UNCHANGED <<reg, born, open, backoff, env>>
  \/ /\ links[i] = 0
     /\ \E g \in G :
          /\ Next_G(g)
          /\ links' = Set(links, i, g)
          /\ Goto(g, "top")
          /\ ltype' = Set(ltype, g, t)
          /\ info' = Set(info, g, i)
     /\ UNCHANGED <<conn, cancelled, state, open, backoff, env>>

\* The record of an accepted connection has no cancel function.
Remove(i) ==
  LET s == links[i]
  IN  /\ s # 0
      /\ \/ /\ ltype[s] = "incoming"
            /\ panicked' = TRUE
            /\ UNCHANGED <<cancelled, open>>
         \/ /\ ltype[s] # "incoming"
            /\ cancelled' = Set(cancelled, s, TRUE)
            /\ open' = IF conn[s] = 0 THEN open ELSE Set(open, conn[s], FALSE)
            /\ UNCHANGED panicked
      /\ UNCHANGED <<links, conn, pc, born, backoff, stop>>

RetryPeersNow ==
  /\ \E i \in Info : links[i] # 0 /\ Kicked(links[i])
  /\ pc' = [g \in G |-> IF links[info[g]] = g /\ Kicked(g) THEN "top" ELSE pc[g]]
  /\ UNCHANGED <<reg, born, open, backoff, env>>

\* links.shutdown closes the connections the registry knows.
Shutdown(g) == \E i \in Info : links[i] # 0 /\ conn[links[i]] = g

\* Core._close in three steps: the context is cancelled; the listeners and the
\* connections in the registry are closed; the PacketConn is closed, and with
\* it the connections it was given.
Stop ==
  /\ stop < 3
  /\ stop' = stop + 1
  /\ open' = [g \in G |->
       /\ open[g]
       /\ stop = 1 => ~Shutdown(g)
       /\ stop = 2 => pc[g] # "peered"]
  /\ UNCHANGED <<reg, pc, born, backoff, panicked>>

-----------------------------------------------------------------------------
(* The goroutine of links.add *)

\* Mutant: a link's context does not come from the node's.
Done_Mutant(g) == cancelled[g]

Done(g) == cancelled[g] \/ stop > 0

Top(g) ==
  /\ pc[g] = "top"
  /\ Goto(g, IF Done(g) THEN "exiting" ELSE "dialing")
  /\ UNCHANGED <<reg, born, open, backoff, env>>

\* backoffNow: from the second failure on the wait doubles.
BackOff(g) ==
  /\ Goto(g, "backoff")
  /\ backoff' = [backoff EXCEPT ![g] = IF @ >= 0 /\ @ < MaxBackoff THEN @ + 1 ELSE @]

\* Mutant: a link ends at its first failure.
AgainOrExit_Mutant(g) == Goto(g, "exiting") /\ UNCHANGED backoff

\* Only a persistent link tries again.
AgainOrExit(g) ==
  \/ ltype[g] = "persistent" /\ BackOff(g)
  \/ ltype[g] # "persistent" /\ Goto(g, "exiting") /\ UNCHANGED backoff

DialFails(g) ==
  /\ pc[g] = "dialing"
  /\ conn' = IF ltype[g] = "persistent" THEN Set(conn, state[g], 0) ELSE conn
  /\ AgainOrExit(g)
  /\ UNCHANGED <<links, cancelled, born, open, env>>

DialSucceeds(g) ==
  /\ pc[g] = "dialing"
  /\ ~Done(g)
  /\ Goto(g, "dialed")
  /\ open' = Set(open, g, TRUE)
  /\ UNCHANGED <<reg, born, backoff, env>>

\* The connection becomes the record's, whether or not there is one already.
Publish(g) ==
  /\ pc[g] = "dialed"
  /\ Goto(g, IF conn[state[g]] # 0 THEN "exiting" ELSE "handshake")
  /\ conn' = Set(conn, state[g], g)
  /\ UNCHANGED <<links, cancelled, born, open, backoff, env>>

BackoffTimeout(g) ==
  /\ pc[g] = "backoff"
  /\ backoff[g] >= 0
  /\ Goto(g, "top")
  /\ UNCHANGED <<reg, born, open, backoff, env>>

GiveUp(g) ==
  /\ pc[g] = "backoff"
  /\ Done(g)
  /\ Goto(g, "exiting")
  /\ UNCHANGED <<reg, born, open, backoff, env>>

-----------------------------------------------------------------------------
(* The goroutine of an accepted connection *)

Accept(i) ==
  /\ stop < 2
  /\ i \notin SharedInfo => \A g \in G : ltype[g] = "incoming" /\ info[g] = i => ~open[g]
  /\ \E g \in G :
       /\ Next_G(g)
       /\ Goto(g, "accepted")
       /\ ltype' = Set(ltype, g, "incoming")
       /\ info' = Set(info, g, i)
       /\ open' = Set(open, g, TRUE)
  /\ UNCHANGED <<reg, state, backoff, env>>

\* A connection to a link that has one is dropped.
Register(g) ==
  LET i == info[g]
      s == IF links[i] = 0 THEN g ELSE links[i]
  IN  /\ pc[g] = "accepted"
      /\ state' = Set(state, g, s)
      /\ \/ /\ conn[s] # 0
            /\ Goto(g, "exiting")
            /\ UNCHANGED <<links, conn>>
         \/ /\ conn[s] = 0
            /\ conn' = Set(conn, s, g)
            /\ links' = Set(links, i, s)
            /\ Goto(g, IF i \in TlsInfo THEN "sni" ELSE "handshake")
      /\ UNCHANGED <<cancelled, ltype, info, open, backoff, env>>

\* connSNI waits for the TLS handshake, without a deadline.
ConnSNI(g) ==
  /\ pc[g] = "sni"
  /\ Goto(g, "handshake")
  /\ UNCHANGED <<reg, born, open, backoff, env>>

-----------------------------------------------------------------------------
(* links.handler, and what follows it *)

\* HandleConn refuses the connection once the PacketConn is closed.
HandshakeSucceeds(g) ==
  /\ pc[g] = "handshake"
  /\ open[g]
  /\ Goto(g, IF stop = 3 THEN "closing" ELSE "peered")
  /\ backoff' = Set(backoff, g, 0)
  /\ UNCHANGED <<reg, born, open, env>>

\* The far end is this node itself: do not dial again unless told to.
HandshakeToSelf(g) ==
  /\ pc[g] = "handshake"
  /\ open[g]
  /\ Goto(g, "closing")
  /\ backoff' = Set(backoff, g, IF ltype[g] = "incoming" THEN 0 ELSE -1)
  /\ UNCHANGED <<reg, born, open, env>>

HandshakeFails(g) ==
  /\ pc[g] = "handshake"
  /\ Goto(g, "closing")
  /\ UNCHANGED <<reg, born, open, backoff, env>>

\* The far end, the network or the keepalive timeout ends a connection.
ConnLost(g) ==
  /\ pc[g] = "peered"
  /\ open[g]
  /\ open' = Set(open, g, FALSE)
  /\ UNCHANGED <<reg, pc, born, backoff, env>>

HandleConnReturns(g) ==
  /\ pc[g] = "peered"
  /\ ~open[g]
  /\ Goto(g, "closing")
  /\ UNCHANGED <<reg, born, open, backoff, env>>

\* The handler of a dialled connection has returned.
Closed(g) ==
  /\ pc[g] = "closing" /\ ltype[g] # "incoming"
  /\ open' = Set(open, g, FALSE)
  /\ conn' = Set(conn, state[g], 0)
  /\ AgainOrExit(g)
  /\ UNCHANGED <<links, cancelled, born, env>>

\* The handler of an accepted connection has returned.
AcceptedClosed(g) ==
  /\ pc[g] = "closing" /\ ltype[g] = "incoming"
  /\ open' = Set(open, g, FALSE)
  /\ Goto(g, "exiting")
  /\ UNCHANGED <<reg, born, backoff, env>>

\* Mutant: the entry goes whoever's it is.
Exit_Mutant(g) ==
  /\ pc[g] = "exiting"
  /\ Goto(g, "done")
  /\ links' = Set(links, info[g], 0)
  /\ open' = IF ltype[g] = "incoming" THEN Set(open, g, FALSE) ELSE open
  /\ UNCHANGED <<conn, cancelled, born, backoff, env>>

\* The deferred calls: the entry goes if it is still the goroutine's record,
\* and an accepted connection is closed.
Exit(g) ==
  /\ pc[g] = "exiting"
  /\ Goto(g, "done")
  /\ links' = IF links[info[g]] = state[g] THEN Set(links, info[g], 0) ELSE links
  /\ open' = IF ltype[g] = "incoming" THEN Set(open, g, FALSE) ELSE open
  /\ UNCHANGED <<conn, cancelled, born, backoff, env>>

-----------------------------------------------------------------------------

\* What a goroutine does by itself, in bounded time.
Runs(g) ==
  \/ Top(g) \/ DialFails(g) \/ DialSucceeds(g) \/ Publish(g)
  \/ BackoffTimeout(g) \/ GiveUp(g) \/ Register(g)
  \/ (~open[g] /\ ConnSNI(g))
  \/ HandshakeSucceeds(g) \/ HandshakeToSelf(g) \/ HandshakeFails(g)
  \/ HandleConnReturns(g) \/ Closed(g) \/ AcceptedClosed(g) \/ Exit(g)

Next ==
  \/ \E i \in DialInfo : Add(i, "persistent") \/ Add(i, "ephemeral")
  \/ \E i \in RemoveInfo : Remove(i)
  \/ \E i \in AcceptInfo : Accept(i)
  \/ \E g \in G : Runs(g) \/ ConnLost(g) \/ (open[g] /\ ConnSNI(g))
  \/ RetryPeersNow
  \/ Stop

Spec == Init /\ [][Next]_vars

\* Goroutines are scheduled, dials and handshakes have deadlines, and a Stop
\* that has begun goes on.  Nothing says that a healthy connection ends.
FairSpec ==
  /\ Spec
  /\ \A g \in G : WF_vars(Runs(g))
  /\ WF_vars(stop > 0 /\ Stop)

-----------------------------------------------------------------------------
(* Properties *)

\* The shape of the registry and of the goroutines.
TypeOK ==
  /\ links \in [Info -> 0..MaxG]
  /\ conn \in [G -> 0..MaxG]
  /\ cancelled \in [G -> BOOLEAN]
  /\ pc \in [G -> {"none", "top", "dialing", "dialed", "accepted", "sni", "handshake",
                   "peered", "closing", "backoff", "exiting", "done"}]
  /\ ltype \in [G -> {"none", "persistent", "ephemeral", "incoming"}]
  /\ info \in [G -> Info]
  /\ state \in [G -> G]
  /\ open \in [G -> BOOLEAN]
  /\ backoff \in [G -> -1..MaxBackoff]
  /\ stop \in 0..3

Connected(g) == open[g] /\ pc[g] \in {"sni", "handshake", "peered"}

\* A connection in use is the connection of the record the registry has for
\* its link: GetPeers shows it, removing the link closes it, and so does Stop.
Tracked ==
  \A g \in G : Connected(g) => links[info[g]] # 0 /\ conn[links[info[g]]] = g

\* A configured peer stays configured until it is removed or the node stops:
\* whatever dials, handshakes and connections do, its goroutine keeps its
\* entry and never ends by itself.
PersistentStays ==
  [][\A i \in Info : LET s == links[i] IN
       s # 0 /\ ltype[s] = "persistent" /\ ~cancelled[s] /\ stop = 0
         => links'[i] = s /\ pc'[s] \notin {"exiting", "done"}]_vars

\* Every goroutine ends once the node is stopped, also the ones that were
\* dialling or had just accepted a connection; only a connection accepted as
\* the node stops can still wait, without a deadline, for a TLS handshake.
StopEnds ==
  (stop = 3) ~> (\A g \in G : pc[g] \in {"none", "done"} \/ (pc[g] = "sni" /\ open[g]))
=============================================================================
