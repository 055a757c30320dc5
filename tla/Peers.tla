-------------------------------- MODULE Peers --------------------------------
(***************************************************************************)
(* The two registries of connected peers and the life of a connection      *)
(* (ironwood/network/peers.go, packetconn.go, router.go).  HandleConn runs *)
(* in a goroutine of its own for each connection: it registers the peer    *)
(* with the peers actor, which gives it a port, then with the router,      *)
(* hands the packets it reads to the router, and undoes both when the      *)
(* connection ends.  The peers actor is called with phony.Block, which is  *)
(* one step; the router is called with Act, which appends to its inbox.    *)
(*                                                                         *)
(* Packets are abstracted to the fact that the router handles one of a     *)
(* peer, and the router to the tables that addPeer and removePeer change.  *)
(***************************************************************************)
EXTENDS Naturals, Sequences, FiniteSets

CONSTANTS
  Key,      \* keys of the other nodes
  Conn,     \* connections: one call of HandleConn each
  KeyOf,    \* the key each of them is called with
  MaxPackets  \* bound: packets that wait for the router at a time

ASSUME PeersAssumption ==
  KeyOf \in [Conn -> Key] /\ IsFiniteSet(Conn) /\ MaxPackets \in Nat

Port == 1..Cardinality(Conn)

VARIABLES
  peers,    \* peers.peers: the registered peers of each key
  ports,    \* peers.ports: the ports in use
  port,     \* the port a registered connection was given
  closed,   \* pconn.closed
  pc,       \* where the goroutine of a connection is
  open,     \* its net.Conn is open
  inbox,    \* the messages of the router actor, oldest first
  rpeers,   \* router.peers
  rports    \* router.ports: a function on the ports the router knows

vars == <<peers, ports, port, closed, pc, open, inbox, rpeers, rports>>
core == <<peers, ports, port, closed>>
router == <<rpeers, rports>>

Init ==
  /\ peers = [k \in Key |-> {}]
  /\ ports = {}
  /\ port = [c \in Conn |-> 0]
  /\ closed = FALSE
  /\ pc = [c \in Conn |-> "new"]
  /\ open = [c \in Conn |-> TRUE]
  /\ inbox = <<>>
  /\ rpeers = [k \in Key |-> {}]
  /\ rports = <<>>

Goto(c, l) == pc' = [pc EXCEPT ![c] = l]
IsPacket(m) == m.op = "packet"
Act(op, c) == inbox' = Append(inbox, [op |-> op, conn |-> c])

-----------------------------------------------------------------------------
(* The router actor *)

Without(f, p) == [q \in DOMAIN f \ {p} |-> f[q]]

RouterAdd(c) ==
  LET k == KeyOf[c]
  IN  /\ rpeers' = [rpeers EXCEPT ![k] = @ \cup {c}]
      /\ rports' = IF rpeers[k] = {}
                     THEN [q \in DOMAIN rports \cup {port[c]} |->
                             IF q = port[c] THEN k ELSE rports[q]]
                     ELSE rports

\* Mutant: the port stays.
RouterRemove_Mutant(c) ==
  LET k == KeyOf[c]
  IN  /\ rpeers' = [rpeers EXCEPT ![k] = @ \ {c}]
      /\ UNCHANGED rports

RouterRemove(c) ==
  LET k == KeyOf[c]
  IN  /\ rpeers' = [rpeers EXCEPT ![k] = @ \ {c}]
      /\ rports' = IF rpeers[k] \ {c} = {} THEN Without(rports, port[c]) ELSE rports

RouterStep ==
  /\ inbox # <<>>
  /\ inbox' = Tail(inbox)
  /\ LET m == Head(inbox)
     IN  \/ m.op = "add" /\ RouterAdd(m.conn)
         \/ m.op = "remove" /\ RouterRemove(m.conn)
         \/ m.op = "packet" /\ UNCHANGED router
  /\ UNCHANGED <<core, pc, open>>

-----------------------------------------------------------------------------
(* HandleConn *)

\* The port of a key that is already connected, or the lowest free one.
PortFor(k, p) ==
  \/ \E d \in peers[k] : p = port[d]
  \/ peers[k] = {} /\ p \notin ports /\ \A q \in Port : q < p => q \in ports

\* Mutant: a closed PacketConn still registers peers.
AddPeer_MutantClosed(c) ==
  /\ pc[c] = "new"
  /\ \E p \in Port :
       /\ PortFor(KeyOf[c], p)
       /\ port' = [port EXCEPT ![c] = p]
       /\ ports' = ports \cup {p}
  /\ peers' = [peers EXCEPT ![KeyOf[c]] = @ \cup {c}]
  /\ Goto(c, "added")
  /\ UNCHANGED <<closed, open, inbox, router>>

\* Under closeMutex, so that Close either sees the peer or turns it away.
AddPeer(c) ==
  /\ pc[c] = "new"
  /\ ~closed
  /\ \E p \in Port :
       /\ PortFor(KeyOf[c], p)
       /\ port' = [port EXCEPT ![c] = p]
       /\ ports' = ports \cup {p}
  /\ peers' = [peers EXCEPT ![KeyOf[c]] = @ \cup {c}]
  /\ Goto(c, "added")
  /\ UNCHANGED <<closed, open, inbox, router>>

Refuse(c) ==
  /\ pc[c] = "new"
  /\ closed
  /\ open' = [open EXCEPT ![c] = FALSE]
  /\ Goto(c, "done")
  /\ UNCHANGED <<core, inbox, router>>

HandlerStarts(c) ==
  /\ pc[c] = "added"
  /\ Act("add", c)
  /\ Goto(c, "handling")
  /\ UNCHANGED <<core, open, router>>

\* A packet that the router handles.
HandlePacket(c) ==
  /\ pc[c] = "handling"
  /\ Len(SelectSeq(inbox, IsPacket)) < MaxPackets
  /\ Act("packet", c)
  /\ UNCHANGED <<core, pc, open, router>>

\* Mutant: the router's tables are changed at once, past its inbox.
HandlerReturns_Mutant(c) ==
  /\ pc[c] = "handling"
  /\ RouterRemove(c)
  /\ Goto(c, "left")
  /\ UNCHANGED <<core, open, inbox>>

\* A read or a packet fails; the deferred call tells the router.
HandlerReturns(c) ==
  /\ pc[c] = "handling"
  /\ Act("remove", c)
  /\ Goto(c, "left")
  /\ UNCHANGED <<core, open, router>>

\* Mutant: the port is free once one connection of the key ends.
RemovePeer_Mutant(c) ==
  /\ pc[c] = "left"
  /\ peers' = [peers EXCEPT ![KeyOf[c]] = @ \ {c}]
  /\ ports' = ports \ {port[c]}
  /\ open' = [open EXCEPT ![c] = FALSE]
  /\ Goto(c, "done")
  /\ UNCHANGED <<port, closed, inbox, router>>

\* The last connection of a key frees its port.
RemovePeer(c) ==
  /\ pc[c] = "left"
  /\ peers' = [peers EXCEPT ![KeyOf[c]] = @ \ {c}]
  /\ ports' = IF peers[KeyOf[c]] = {c} THEN ports \ {port[c]} ELSE ports
  /\ open' = [open EXCEPT ![c] = FALSE]
  /\ Goto(c, "done")
  /\ UNCHANGED <<port, closed, inbox, router>>

-----------------------------------------------------------------------------

Close ==
  /\ ~closed
  /\ closed' = TRUE
  /\ open' = [c \in Conn |-> open[c] /\ c \notin peers[KeyOf[c]]]
  /\ UNCHANGED <<peers, ports, port, pc, inbox, router>>

Next ==
  \/ \E c \in Conn : \/ AddPeer(c) \/ Refuse(c) \/ HandlerStarts(c)
                     \/ HandlePacket(c) \/ HandlerReturns(c) \/ RemovePeer(c)
  \/ RouterStep
  \/ Close

Spec == Init /\ [][Next]_vars

\* Goroutines and actors run, and a read from a closed connection fails.
FairSpec ==
  /\ Spec
  /\ WF_vars(RouterStep)
  /\ \A c \in Conn : WF_vars(\/ AddPeer(c) \/ Refuse(c) \/ HandlerStarts(c)
                             \/ RemovePeer(c) \/ (~open[c] /\ HandlerReturns(c)))

-----------------------------------------------------------------------------
(* Properties *)

\* The shape of the two registries.
TypeOK ==
  /\ peers \in [Key -> SUBSET Conn]
  /\ ports \subseteq Port
  /\ port \in [Conn -> {0} \cup Port]
  /\ closed \in BOOLEAN
  /\ pc \in [Conn -> {"new", "added", "handling", "left", "done"}]
  /\ open \in [Conn -> BOOLEAN]
  /\ inbox \in Seq([op : {"add", "packet", "remove"}, conn : Conn])
  /\ rpeers \in [Key -> SUBSET Conn]
  /\ DOMAIN rports \subseteq Port
  /\ \A p \in DOMAIN rports : rports[p] \in Key

\* Whatever the order in which connections come and go and the router gets to
\* hear of it, the port of a peer in the router's table leads to that peer's
\* key: a path through this node never follows a port to another node.
PortsAgree ==
  \A c \in Conn : c \in rpeers[KeyOf[c]] =>
    port[c] \in DOMAIN rports /\ rports[port[c]] = KeyOf[c]

\* The router keeps no port of a peer that has gone.
NoStalePort ==
  \A p \in DOMAIN rports : \E c \in Conn :
    c \in rpeers[KeyOf[c]] /\ port[c] = p /\ rports[p] = KeyOf[c]

\* The router handles a packet, and removes a peer, only while the peer is in
\* its tables: its handlers use r.peers[p.key] and r.lags[p] unchecked.
HandledWhileKnown ==
  inbox # <<>> /\ Head(inbox).op # "add"
    => Head(inbox).conn \in rpeers[KeyOf[Head(inbox).conn]]

\* The comment on HandleConn: it returns once Close is called, for every
\* connection handed over before or after; nothing is left in a registry.
CloseEmpties ==
  closed ~> /\ \A c \in Conn : pc[c] = "done" /\ ~open[c]
            /\ ports = {}
            /\ rports = <<>>
=============================================================================
