------------------------------ MODULE PeersProofs ------------------------------
(***************************************************************************)
(* What TLAPS proves about Peers, for any number of connections, keys and  *)
(* packets: the tables of the router are right although it learns of the   *)
(* connections late, when their ports may already be another node's.       *)
(***************************************************************************)
EXTENDS Peers, TLAPS

Message == [op : {"add", "packet", "remove"}, conn : Conn]

\* The router is told of a connection between its two registrations.
Registered(c) == pc[c] \in {"added", "handling", "left"}
Told(c) == pc[c] \in {"handling", "left", "done"}
Known(c) == c \in rpeers[KeyOf[c]]

\* The i-th message of the inbox is this one.
Of(i, c) == inbox[i].conn = c
Is(i, op, c) == inbox[i].op = op /\ inbox[i].conn = c
Adding(c) == \E i \in DOMAIN inbox : Is(i, "add", c)
Removing(c) == \E i \in DOMAIN inbox : Is(i, "remove", c)

\* The registry of the peers actor: it has the connections between AddPeer and
\* RemovePeer, and among them a port stands for a key.
Registry ==
  /\ \A k \in Key, c \in Conn : c \in peers[k] <=> KeyOf[c] = k /\ Registered(c)
  /\ \A c \in Conn : Registered(c) => port[c] # 0 /\ port[c] \in ports
  /\ \A c \in Conn : pc[c] = "new" => port[c] = 0
  /\ \A c, d \in Conn : Registered(c) /\ Registered(d) =>
       (KeyOf[c] = KeyOf[d] <=> port[c] = port[d])

\* The messages to the router are of connections that tell it, and a connection
\* tells it nothing after its remove.
Senders ==
  \A i \in DOMAIN inbox :
    /\ Told(inbox[i].conn) /\ port[inbox[i].conn] # 0
    /\ inbox[i].op = "remove" => pc[inbox[i].conn] # "handling"

\* Of one connection an add comes first and a remove last.
Ordered ==
  \A i, j \in DOMAIN inbox : (inbox[i].conn = inbox[j].conn /\ i < j) =>
    inbox[j].op # "add" /\ inbox[i].op # "remove"

\* A connection is known, or about to be, when something else is told of it.
AddFirst ==
  \A i \in DOMAIN inbox : LET c == inbox[i].conn
                          IN  IF inbox[i].op = "add" THEN ~Known(c) ELSE Known(c) \/ Adding(c)

\* The router knows a connection from its add to its remove.
Knowledge ==
  /\ \A k \in Key, c \in Conn : c \in rpeers[k] => KeyOf[c] = k
  /\ \A c \in Conn : Known(c) => Told(c) /\ port[c] # 0
  /\ \A c \in Conn : pc[c] = "handling" => Known(c) \/ Adding(c)
  /\ \A c \in Conn : (Known(c) \/ Adding(c)) /\ pc[c] # "handling" => Removing(c)

\* One of the two connections has the port of the other's key, or another port
\* for the same key.
Conflict(c, d) ==
  port[c] # 0 /\ port[d] # 0 /\ ~(KeyOf[c] = KeyOf[d] <=> port[c] = port[d])

\* The peers actor was done with c before it registered d, and the router will be.
Before(c, d) ==
  /\ pc[c] = "done"
  /\ \A i, j \in DOMAIN inbox : Of(i, c) /\ Of(j, d) => i < j
  /\ \A i \in DOMAIN inbox : Of(i, c) => ~Known(d)

Apart == \A c, d \in Conn : Conflict(c, d) => Before(c, d) \/ Before(d, c)

IInv == TypeOK /\ Registry /\ Senders /\ Ordered /\ AddFirst /\ Knowledge /\ Apart /\ PortsAgree /\ NoStalePort

-----------------------------------------------------------------------------
(* Steps that tell the router nothing *)

\* What the elements of the inbox are.
LEMMA InboxFacts ==
  ASSUME TypeOK
  PROVE  \A i \in DOMAIN inbox :
           /\ i \in Nat /\ i >= 1
           /\ inbox[i].conn \in Conn
           /\ KeyOf[inbox[i].conn] \in Key
<1>1. inbox \in Seq(Message)
  BY DEF TypeOK, Message
<1>2. \A i \in DOMAIN inbox : i \in Nat /\ i >= 1 /\ inbox[i] \in Message
  BY <1>1
<1>3. \A m \in Message : m.conn \in Conn
  BY DEF Message
<1>. QED  BY <1>2, <1>3, PeersAssumption

\* Steps that leave the inbox and the tables of the router, and where the
\* connections are that it is told of, leave what is said of them.
LEMMA QuietStep ==
  ASSUME IInv, UNCHANGED <<inbox, rpeers, rports>>,
         \A c \in Conn : pc'[c] = "handling" <=> pc[c] = "handling",
         \A c \in Conn : Told(c) => Told(c)' /\ port'[c] = port[c]
  PROVE  Senders' /\ Ordered' /\ AddFirst' /\ Knowledge' /\ PortsAgree' /\ NoStalePort'
<1>1. \A i \in DOMAIN inbox : inbox[i].conn \in Conn
  BY InboxFacts DEF IInv
<1>2. \A c \in Conn : /\ Known(c)' <=> Known(c)
                      /\ Adding(c)' <=> Adding(c)
                      /\ Removing(c)' <=> Removing(c)
  BY DEF Known, Adding, Removing, Is
<1>3. Senders'
  BY <1>1 DEF IInv, Senders
<1>4. Ordered'
  BY DEF IInv, Ordered
<1>5. AddFirst'
  BY <1>1, <1>2 DEF IInv, AddFirst
<1>6. Knowledge'
  BY <1>2 DEF IInv, Knowledge
<1>7. \A c \in Conn : Known(c) => port'[c] = port[c]
  BY DEF IInv, Knowledge
<1>8. PortsAgree'
  BY <1>7 DEF IInv, PortsAgree, Known
<1>9. NoStalePort'
  BY <1>7 DEF IInv, NoStalePort, Known
<1>. QED  BY <1>3, <1>4, <1>5, <1>6, <1>8, <1>9

\* Nor do they bring connections into conflict, if they give no port.
LEMMA QuietApart ==
  ASSUME Apart, UNCHANGED <<inbox, rpeers, port>>,
         \A c \in Conn : pc[c] = "done" => pc'[c] = "done"
  PROVE  Apart'
<1>1. \A c, d \in Conn : Conflict(c, d)' => Conflict(c, d)
  BY DEF Conflict
<1>2. \A c, d \in Conn : Before(c, d) => Before(c, d)'
  BY DEF Before, Of, Known
<1>. QED  BY <1>1, <1>2 DEF Apart

\* addPeer gives the port of the key, or one that no registered connection has;
\* whoever had it before is done.
LEMMA AddPeerStep ==
  ASSUME IInv, NEW c \in Conn, AddPeer(c)
  PROVE  IInv'
<1>0. PICK p \in Port : /\ PortFor(KeyOf[c], p)
                       /\ port' = [port EXCEPT ![c] = p]
                       /\ ports' = ports \cup {p}
  BY ZenonT(30) DEF AddPeer
<1>1. /\ pc[c] = "new" /\ pc' = [pc EXCEPT ![c] = "added"]
      /\ peers' = [peers EXCEPT ![KeyOf[c]] = @ \cup {c}]
      /\ UNCHANGED <<closed, open, inbox, rpeers, rports>>
  BY DEF AddPeer, Goto, router
<1>2. KeyOf[c] \in Key /\ p # 0
  BY PeersAssumption DEF Port
<1>3. TypeOK'
  BY <1>0, <1>1, <1>2 DEF IInv, TypeOK
<1>4. /\ \A d \in Conn \ {c} : pc'[d] = pc[d] /\ port'[d] = port[d]
      /\ pc'[c] = "added" /\ port'[c] = p
  BY <1>0, <1>1 DEF IInv, TypeOK
<1>5. Senders' /\ Ordered' /\ AddFirst' /\ Knowledge' /\ PortsAgree' /\ NoStalePort'
  <2>1. \A d \in Conn : pc'[d] = "handling" <=> pc[d] = "handling"
    BY <1>1, <1>4
  <2>2. \A d \in Conn : Told(d) => Told(d)' /\ port'[d] = port[d]
    BY <1>1, <1>4 DEF Told
  <2>. QED  BY <1>1, <2>1, <2>2, QuietStep
<1>6. \A d \in Conn : Registered(d) => (KeyOf[c] = KeyOf[d] <=> p = port[d])
  <2>1. \A d \in peers[KeyOf[c]] : d \in Conn
    BY <1>2 DEF IInv, TypeOK
  <2>2. \A k \in Key, d \in Conn : d \in peers[k] <=> KeyOf[d] = k /\ Registered(d)
    BY DEF IInv, Registry
  <2>3. \A d \in Conn : Registered(d) => port[d] \in ports
    BY DEF IInv, Registry
  <2>4. \A d, e \in Conn : Registered(d) /\ Registered(e) =>
          (KeyOf[d] = KeyOf[e] <=> port[d] = port[e])
    BY DEF IInv, Registry
  <2>5. CASE \E d \in peers[KeyOf[c]] : p = port[d]
    BY <1>2, <2>1, <2>2, <2>4, <2>5
  <2>6. CASE peers[KeyOf[c]] = {} /\ p \notin ports
    BY <1>2, <2>2, <2>3, <2>6
  <2>. QED  BY <1>0, <2>5, <2>6 DEF PortFor
<1>7. Registry'
  <2>1. \A d \in Conn : Registered(d)' <=> d = c \/ Registered(d)
    BY <1>4 DEF Registered
  <2>2. \A k \in Key, d \in Conn : d \in peers'[k] <=> d \in peers[k] \/ (d = c /\ k = KeyOf[c])
    BY <1>1, <1>2 DEF IInv, TypeOK
  <2>3. \A k \in Key, d \in Conn : d \in peers'[k] <=> KeyOf[d] = k /\ Registered(d)'
    BY <2>1, <2>2 DEF IInv, Registry
  <2>4. \A d \in Conn : Registered(d)' => port'[d] # 0 /\ port'[d] \in ports'
    BY <1>0, <1>2, <1>4, <2>1 DEF IInv, Registry
  <2>5. \A d \in Conn : pc'[d] = "new" => port'[d] = 0
    BY <1>4 DEF IInv, Registry
  <2>6. \A d, e \in Conn : Registered(d)' /\ Registered(e)' =>
          (KeyOf[d] = KeyOf[e] <=> port'[d] = port'[e])
    BY <1>4, <1>6, <2>1 DEF IInv, Registry
  <2>. QED  BY <2>3, <2>4, <2>5, <2>6 DEF Registry
<1>8. Apart'
  <2>1. \A i \in DOMAIN inbox : inbox[i].conn # c
    BY <1>1 DEF IInv, Senders, Told
  <2>2. ~Known(c)
    BY <1>1 DEF IInv, Knowledge, Told
  <2>3. ASSUME NEW d \in Conn \ {c}, Conflict(c, d)' \/ Conflict(d, c)' PROVE Before(d, c)'
    <3>1. pc[d] = "done"
      <4>1. port[d] # 0 /\ ~Registered(d)
        BY <1>4, <1>6, <2>3 DEF Conflict
      <4>2. pc[d] \in {"new", "added", "handling", "left", "done"}
        BY DEF IInv, TypeOK
      <4>. QED  BY <4>1, <4>2 DEF IInv, Registry, Registered
    <3>. QED  BY <1>1, <1>4, <2>1, <2>2, <3>1 DEF Before, Of, Known
  <2>4. \A d, e \in Conn \ {c} : Conflict(d, e)' => Conflict(d, e)
    BY <1>4 DEF Conflict
  <2>5. \A d, e \in Conn \ {c} : Before(d, e) => Before(d, e)'
    BY <1>1, <1>4 DEF Before, Of, Known
  <2>6. ~Conflict(c, c)'
    BY DEF Conflict
  <2>. QED  BY <2>3, <2>4, <2>5, <2>6 DEF IInv, Apart
<1>. QED  BY <1>3, <1>5, <1>7, <1>8 DEF IInv

\* A connection that is turned away is in no table.
LEMMA RefuseStep ==
  ASSUME IInv, NEW c \in Conn, Refuse(c)
  PROVE  IInv'
<1>1. /\ pc[c] = "new" /\ pc' = [pc EXCEPT ![c] = "done"]
      /\ open' = [open EXCEPT ![c] = FALSE]
      /\ UNCHANGED <<peers, ports, port, closed, inbox, rpeers, rports>>
  BY DEF Refuse, Goto, core, router
<1>2. /\ \A d \in Conn \ {c} : pc'[d] = pc[d]
      /\ pc'[c] = "done"
  BY <1>1 DEF IInv, TypeOK
<1>3. TypeOK'
  <2>1. open' \in [Conn -> BOOLEAN]
    BY <1>1, Zenon DEF IInv, TypeOK
  <2>2. pc' \in [Conn -> {"new", "added", "handling", "left", "done"}]
    BY <1>1 DEF IInv, TypeOK
  <2>. QED  BY <1>1, <2>1, <2>2 DEF IInv, TypeOK
<1>4. Senders' /\ Ordered' /\ AddFirst' /\ Knowledge' /\ PortsAgree' /\ NoStalePort'
  <2>1. \A d \in Conn : pc'[d] = "handling" <=> pc[d] = "handling"
    BY <1>1, <1>2
  <2>2. \A d \in Conn : Told(d) => Told(d)' /\ port'[d] = port[d]
    BY <1>1, <1>2 DEF Told
  <2>. QED  BY <1>1, <2>1, <2>2, QuietStep
<1>5. Registry'
  <2>1. \A d \in Conn : Registered(d)' <=> Registered(d)
    BY <1>1, <1>2 DEF Registered
  <2>2. \A d \in Conn : pc'[d] = "new" => pc[d] = "new"
    BY <1>2
  <2>. QED  BY <1>1, <2>1, <2>2 DEF IInv, Registry
<1>6. Apart'
  BY <1>1, <1>2, QuietApart DEF IInv
<1>. QED  BY <1>3, <1>4, <1>5, <1>6 DEF IInv

\* removePeer frees a port that no other registered connection has.
LEMMA RemovePeerStep ==
  ASSUME IInv, NEW c \in Conn, RemovePeer(c)
  PROVE  IInv'
<1>1. /\ pc[c] = "left" /\ pc' = [pc EXCEPT ![c] = "done"]
      /\ open' = [open EXCEPT ![c] = FALSE]
      /\ peers' = [peers EXCEPT ![KeyOf[c]] = @ \ {c}]
      /\ ports' = IF peers[KeyOf[c]] = {c} THEN ports \ {port[c]} ELSE ports
      /\ UNCHANGED <<port, closed, inbox, rpeers, rports>>
  BY DEF RemovePeer, Goto, router
<1>2. /\ \A d \in Conn \ {c} : pc'[d] = pc[d]
      /\ pc'[c] = "done"
      /\ KeyOf[c] \in Key
  BY <1>1, PeersAssumption, ZenonT(30) DEF IInv, TypeOK
<1>3. TypeOK'
  <2>1. open' \in [Conn -> BOOLEAN]
    BY <1>1, Zenon DEF IInv, TypeOK
  <2>2. pc' \in [Conn -> {"new", "added", "handling", "left", "done"}]
    BY <1>1 DEF IInv, TypeOK
  <2>3. peers' \in [Key -> SUBSET Conn] /\ ports' \subseteq Port
    BY <1>1, <1>2 DEF IInv, TypeOK
  <2>. QED  BY <1>1, <2>1, <2>2, <2>3 DEF IInv, TypeOK
<1>4. Senders' /\ Ordered' /\ AddFirst' /\ Knowledge' /\ PortsAgree' /\ NoStalePort'
  <2>1. \A d \in Conn : pc'[d] = "handling" <=> pc[d] = "handling"
    BY <1>1, <1>2
  <2>2. \A d \in Conn : Told(d) => Told(d)' /\ port'[d] = port[d]
    BY <1>1, <1>2 DEF Told
  <2>. QED  BY <1>1, <2>1, <2>2, QuietStep
<1>5. Registry'
  <2>1. Registered(c) /\ \A d \in Conn : Registered(d)' <=> Registered(d) /\ d # c
    BY <1>1, <1>2 DEF Registered
  <2>2. \A k \in Key, d \in Conn : d \in peers'[k] <=> KeyOf[d] = k /\ Registered(d)'
    <3>1. \A k \in Key, d \in Conn : d \in peers'[k] <=> d \in peers[k] /\ ~(d = c /\ k = KeyOf[c])
      BY <1>1, <1>2 DEF IInv, TypeOK
    <3>. QED  BY <2>1, <3>1 DEF IInv, Registry
  <2>3. \A d \in Conn : Registered(d)' => port'[d] # 0 /\ port'[d] \in ports'
    <3>. SUFFICES ASSUME NEW d \in Conn, Registered(d)'
                  PROVE  port'[d] # 0 /\ port'[d] \in ports'
      OBVIOUS
    <3>1. Registered(d) /\ d # c /\ port[d] # 0 /\ port[d] \in ports
      BY <2>1 DEF IInv, Registry
    <3>2. peers[KeyOf[c]] = {c} => port[d] # port[c]
      BY <1>2, <2>1, <3>1 DEF IInv, Registry
    <3>. QED  BY <1>1, <3>1, <3>2
  <2>4. \A d \in Conn : pc'[d] = "new" => pc[d] = "new"
    BY <1>2
  <2>. QED  BY <1>1, <2>1, <2>2, <2>3, <2>4 DEF IInv, Registry
<1>6. Apart'
  BY <1>1, <1>2, QuietApart DEF IInv
<1>. QED  BY <1>3, <1>4, <1>5, <1>6 DEF IInv

\* Close changes no table: the goroutines do.
LEMMA CloseStep ==
  ASSUME IInv, Close
  PROVE  IInv'
<1>1. UNCHANGED <<peers, ports, port, pc, inbox, rpeers, rports>>
  BY DEF Close, router
<1>2. closed' \in BOOLEAN /\ open' \in [Conn -> BOOLEAN]
  BY Zenon DEF IInv, TypeOK, Close
<1>3. TypeOK'
  BY <1>1, <1>2 DEF IInv, TypeOK
<1>4. Senders' /\ Ordered' /\ AddFirst' /\ Knowledge' /\ PortsAgree' /\ NoStalePort'
  BY <1>1, QuietStep DEF Told
<1>5. Registry'
  BY <1>1 DEF IInv, Registry, Registered
<1>6. Apart'
  BY <1>1, QuietApart DEF IInv
<1>. QED  BY <1>3, <1>4, <1>5, <1>6 DEF IInv

-----------------------------------------------------------------------------
(* Steps that tell the router *)

\* HandleConn tells the router of a new connection, of a packet, or of the end.
LEMMA TellStep ==
  ASSUME IInv, NEW c \in Conn, NEW op \in {"add", "packet", "remove"},
         NEW l \in {"handling", "left"},
         Act(op, c), pc' = [pc EXCEPT ![c] = l],
         pc[c] = (IF op = "add" THEN "added" ELSE "handling"),
         op = "remove" <=> l = "left",
         UNCHANGED <<peers, ports, port, closed, open, rpeers, rports>>
  PROVE  IInv'
<1>. DEFINE n == Len(inbox) + 1
            m == [op |-> op, conn |-> c]
<1>1. inbox \in Seq(Message) /\ m \in Message /\ inbox' = Append(inbox, m)
  BY DEF IInv, TypeOK, Message, Act
<1>2. /\ inbox' \in Seq(Message)
      /\ DOMAIN inbox' = DOMAIN inbox \cup {n}
      /\ \A i \in DOMAIN inbox : i \in Nat /\ i < n /\ inbox'[i] = inbox[i]
      /\ n \in Nat /\ inbox'[n] = m
  BY <1>1
<1>3. m.op = op /\ m.conn = c
  OBVIOUS
<1>. HIDE DEF n, m
<1>4. /\ \A d \in Conn \ {c} : pc'[d] = pc[d]
      /\ pc'[c] = l
  BY DEF IInv, TypeOK
<1>5. \A i \in DOMAIN inbox : inbox[i].conn \in Conn
  BY InboxFacts DEF IInv
<1>6. TypeOK'
  <2>1. pc' \in [Conn -> {"new", "added", "handling", "left", "done"}]
    BY DEF IInv, TypeOK
  <2>. QED  BY <1>2, <2>1 DEF IInv, TypeOK, Message
<1>7. Registry'
  <2>1. \A d \in Conn : Registered(d)' <=> Registered(d)
    BY <1>4 DEF Registered
  <2>2. \A d \in Conn : pc'[d] = "new" => pc[d] = "new"
    BY <1>4
  <2>. QED  BY <2>1, <2>2 DEF IInv, Registry
<1>8. \A i \in DOMAIN inbox : inbox[i].conn = c => op # "add" /\ inbox[i].op # "remove"
  BY DEF IInv, Senders, Told
<1>9. Senders'
  <2>1. port[c] # 0 /\ Told(c)'
    BY <1>4 DEF IInv, Registry, Registered, Told
  <2>2. \A d \in Conn : Told(d) => Told(d)'
    BY <1>4 DEF Told
  <2>3. \A i \in DOMAIN inbox : /\ Told(inbox[i].conn) /\ port[inbox[i].conn] # 0
                                /\ inbox[i].op = "remove" => pc[inbox[i].conn] # "handling"
    BY DEF IInv, Senders
  <2>. QED  BY <1>2, <1>3, <1>4, <1>5, <1>8, <2>1, <2>2, <2>3 DEF Senders
<1>10. Ordered'
  BY <1>2, <1>3, <1>8 DEF IInv, Ordered
<1>11. \A d \in Conn : /\ Known(d)' <=> Known(d)
                       /\ Adding(d) => Adding(d)'
                       /\ Removing(d) => Removing(d)'
                       /\ d # c /\ Adding(d)' => Adding(d)
  BY <1>2, <1>3 DEF Known, Adding, Removing, Is
<1>12. /\ op = "add" => ~Known(c) /\ Adding(c)'
       /\ op # "add" => Known(c) \/ Adding(c)
       /\ op = "remove" => Removing(c)'
  BY <1>2, <1>3 DEF IInv, Knowledge, Told, Adding, Removing, Is
<1>13. AddFirst'
  BY <1>2, <1>3, <1>5, <1>11, <1>12 DEF IInv, AddFirst
<1>14. Knowledge'
  BY <1>4, <1>11, <1>12 DEF IInv, Knowledge, Told
<1>15. PortsAgree' /\ NoStalePort'
  BY DEF IInv, PortsAgree, NoStalePort
<1>16. Apart'
  <2>1. \A d, e \in Conn : Conflict(d, e)' => Conflict(d, e)
    BY DEF Conflict
  <2>2. \A d, e \in Conn : Before(d, e) => Before(d, e)'
    BY <1>2, <1>3, <1>4, <1>11 DEF Before, Of
  <2>. QED  BY <2>1, <2>2 DEF IInv, Apart
<1>. QED  BY <1>6, <1>7, <1>9, <1>10, <1>13, <1>14, <1>15, <1>16 DEF IInv

-----------------------------------------------------------------------------
(* The router *)

\* The inbox without its first message.
LEMMA Taken ==
  ASSUME TypeOK, inbox # <<>>, inbox' = Tail(inbox)
  PROVE  /\ 1 \in DOMAIN inbox /\ Head(inbox) = inbox[1] /\ inbox[1] \in Message
         /\ inbox' \in Seq(Message)
         /\ \A i \in DOMAIN inbox : i \in Nat /\ i >= 1
         /\ \A i \in DOMAIN inbox' : /\ i \in Nat /\ i >= 1
                                     /\ i + 1 \in DOMAIN inbox /\ inbox'[i] = inbox[i + 1]
         /\ \A i \in DOMAIN inbox \ {1} : i - 1 \in DOMAIN inbox' /\ inbox'[i - 1] = inbox[i]
<1>1. inbox \in Seq(Message)
  BY DEF TypeOK, Message
<1>. QED  BY <1>1

\* The connection whose message is next and one that the router knows agree on
\* what their ports stand for: of two that do not, the router is done with one
\* before it hears of the other.
LEMMA NextAgrees ==
  ASSUME IInv, 1 \in DOMAIN inbox, NEW d \in Conn, Known(d)
  PROVE  KeyOf[inbox[1].conn] = KeyOf[d] <=> port[inbox[1].conn] = port[d]
<1>. DEFINE c == inbox[1].conn
<1>1. c \in Conn /\ port[c] # 0 /\ port[d] # 0
  BY InboxFacts DEF IInv, Senders, Knowledge
<1>2. \A i \in DOMAIN inbox : i \in Nat /\ i >= 1
  BY InboxFacts DEF IInv
<1>3. ~Before(c, d)
  BY DEF Before, Of
<1>4. ~Before(d, c)
  <2>1. pc[d] = "done" => \E i \in DOMAIN inbox : Of(i, d)
    BY DEF IInv, Knowledge, Removing, Is, Of
  <2>. QED  BY <1>2, <2>1 DEF Before, Of
<1>. QED  BY <1>1, <1>3, <1>4 DEF IInv, Apart, Conflict

\* A message that the router has handled leaves what is said of the inbox.
LEMMA TakeStep ==
  ASSUME IInv, inbox # <<>>, inbox' = Tail(inbox),
         UNCHANGED <<peers, ports, port, closed, pc, open>>,
         rpeers' \in [Key -> SUBSET Conn],
         \A k \in Key, d \in Conn : d \in rpeers'[k] => KeyOf[d] = k,
         NEW c \in Conn, c = inbox[1].conn,
         \A d \in Conn : Known(d)' <=>
           (Known(d) /\ ~(d = c /\ inbox[1].op = "remove")) \/ (d = c /\ inbox[1].op = "add")
  PROVE  Registry' /\ Senders' /\ Ordered' /\ AddFirst' /\ Knowledge' /\ Apart'
<1>. DEFINE op == inbox[1].op
<1>1. /\ 1 \in DOMAIN inbox
      /\ \A i \in DOMAIN inbox : i \in Nat /\ i >= 1
      /\ \A i \in DOMAIN inbox' : /\ i \in Nat /\ i >= 1
                                  /\ i + 1 \in DOMAIN inbox /\ inbox'[i] = inbox[i + 1]
      /\ \A i \in DOMAIN inbox \ {1} : i - 1 \in DOMAIN inbox' /\ inbox'[i - 1] = inbox[i]
  BY Taken DEF IInv
<1>2. \A i \in DOMAIN inbox : inbox[i].conn \in Conn
  BY InboxFacts DEF IInv
<1>. HIDE DEF op
<1>3. Registry'
  BY DEF IInv, Registry, Registered
<1>4. Senders'
  BY <1>1 DEF IInv, Senders, Told
<1>5. Ordered'
  BY <1>1 DEF IInv, Ordered
<1>6. \A i \in DOMAIN inbox' : inbox'[i].conn = c => op # "remove" /\ inbox'[i].op # "add"
  BY <1>1 DEF IInv, Ordered, op
<1>7. \A d \in Conn : /\ Adding(d)' => Adding(d)
                      /\ Adding(d) /\ ~(d = c /\ op = "add") => Adding(d)'
                      /\ Removing(d) /\ ~(d = c /\ op = "remove") => Removing(d)'
  <2>1. \A d \in Conn : Adding(d)' => Adding(d)
    BY <1>1 DEF Adding, Is
  <2>2. ASSUME NEW o, NEW d \in Conn, NEW i \in DOMAIN inbox, Is(i, o, d), ~(d = c /\ op = o)
        PROVE  \E j \in DOMAIN inbox' : Is(j, o, d)'
    <3>1. i # 1
      BY <2>2 DEF Is, op
    <3>2. i - 1 \in DOMAIN inbox' /\ Is(i - 1, o, d)'
      BY <1>1, <2>2, <3>1 DEF Is
    <3>. QED  BY <3>2
  <2>3. \A d \in Conn : /\ Adding(d) /\ ~(d = c /\ op = "add") => Adding(d)'
                        /\ Removing(d) /\ ~(d = c /\ op = "remove") => Removing(d)'
    BY <2>2 DEF Adding, Removing
  <2>. QED  BY <2>1, <2>3
<1>8. op = "add" => Adding(c)
  BY <1>1 DEF Adding, Is, op
<1>9. op = "remove" => pc[c] # "handling" /\ ~Adding(c)'
  <2>1. op = "remove" => pc[c] # "handling"
    BY <1>1 DEF IInv, Senders, op
  <2>. QED  BY <1>6, <2>1 DEF Adding, Is
<1>10. AddFirst'
  BY <1>1, <1>2, <1>6, <1>7 DEF IInv, AddFirst, op
<1>11. Knowledge'
  <2>1. \A d \in Conn : Known(d)' => Told(d) /\ port[d] # 0
    BY <1>1 DEF IInv, Knowledge, Senders
  <2>2. \A d \in Conn : pc[d] = "handling" => Known(d)' \/ Adding(d)'
    BY <1>7, <1>9 DEF IInv, Knowledge, op
  <2>3. \A d \in Conn : (Known(d)' \/ Adding(d)') /\ pc[d] # "handling" => Removing(d)'
    BY <1>7, <1>8, <1>9 DEF IInv, Knowledge, op
  <2>. QED  BY <2>1, <2>2, <2>3 DEF Knowledge, Told
<1>12. Apart'
  <2>1. \A d, e \in Conn : Conflict(d, e)' => Conflict(d, e)
    BY DEF Conflict
  <2>2. ASSUME NEW d \in Conn, NEW e \in Conn, Before(d, e) PROVE Before(d, e)'
    <3>1. \A i, j \in DOMAIN inbox' : Of(i, d)' /\ Of(j, e)' => i < j
      BY <1>1, <2>2 DEF Before, Of
    <3>2. \A i \in DOMAIN inbox' : Of(i, d)' => ~Known(e)'
      BY <1>1, <2>2 DEF Before, Of
    <3>. QED  BY <2>2, <3>1, <3>2 DEF Before
  <2>. QED  BY <2>1, <2>2 DEF IInv, Apart
<1>. QED  BY <1>3, <1>4, <1>5, <1>10, <1>11, <1>12

\* addPeer, removePeer and the handlers of packets leave the tables right.
LEMMA RouterStepInv ==
  ASSUME IInv, RouterStep
  PROVE  IInv'
<1>. DEFINE c == inbox[1].conn
            k == KeyOf[c]
<1>1. /\ inbox # <<>> /\ inbox' = Tail(inbox)
      /\ UNCHANGED <<peers, ports, port, closed, pc, open>>
  BY DEF RouterStep, core
<1>2. 1 \in DOMAIN inbox /\ Head(inbox) = inbox[1] /\ inbox' \in Seq(Message)
  BY <1>1, Taken DEF IInv
<1>3. c \in Conn /\ k \in Key /\ port[c] \in Port
  BY <1>2, InboxFacts DEF IInv, Senders, TypeOK
<1>4. /\ \A d \in Conn : Known(d) => (KeyOf[d] = k <=> port[d] = port[c])
      /\ \A j \in Key, d \in Conn : d \in rpeers[j] => KeyOf[d] = j
      /\ \A d \in Conn : KeyOf[d] \in Key
      /\ rpeers \in [Key -> SUBSET Conn]
  BY <1>2, NextAgrees, PeersAssumption DEF IInv, Knowledge, TypeOK
<1>5. /\ \A d \in Conn : Known(d) => port[d] \in DOMAIN rports /\ rports[port[d]] = KeyOf[d]
      /\ \A p \in DOMAIN rports : \E d \in Conn : Known(d) /\ port[d] = p /\ rports[p] = KeyOf[d]
      /\ DOMAIN rports \subseteq Port /\ \A p \in DOMAIN rports : rports[p] \in Key
  BY DEF IInv, PortsAgree, NoStalePort, Known, TypeOK
<1>. HIDE DEF c, k
<1>. DEFINE Tables ==
       /\ rpeers' \in [Key -> SUBSET Conn]
       /\ \A j \in Key, d \in Conn : d \in rpeers'[j] => KeyOf[d] = j
       /\ \A d \in Conn : Known(d)' <=> \/ Known(d) /\ ~(d = c /\ inbox[1].op = "remove")
                                        \/ d = c /\ inbox[1].op = "add"
       /\ \A d \in Conn : Known(d)' => port[d] \in DOMAIN rports' /\ rports'[port[d]] = KeyOf[d]
       /\ \A p \in DOMAIN rports' : \E d \in Conn :
            Known(d)' /\ port[d] = p /\ rports'[p] = KeyOf[d]
       /\ DOMAIN rports' \subseteq Port /\ \A p \in DOMAIN rports' : rports'[p] \in Key
<1>6. ASSUME inbox[1].op = "add" /\ RouterAdd(c) PROVE Tables
  <2>1. /\ rpeers' = [rpeers EXCEPT ![k] = @ \cup {c}]
        /\ rports' = IF rpeers[k] = {}
                       THEN [q \in DOMAIN rports \cup {port[c]} |->
                               IF q = port[c] THEN k ELSE rports[q]]
                       ELSE rports
    BY <1>6 DEF RouterAdd, k
  <2>2. /\ rpeers' \in [Key -> SUBSET Conn]
        /\ \A j \in Key, d \in Conn : d \in rpeers'[j] <=> d \in rpeers[j] \/ (d = c /\ j = k)
    BY <1>3, <1>4, <2>1
  <2>3. \A d \in Conn : Known(d)' <=> Known(d) \/ d = c
    BY <1>4, <2>2 DEF Known, k
  <2>4. CASE rpeers[k] = {}
    <3>1. /\ DOMAIN rports' = DOMAIN rports \cup {port[c]}
          /\ rports'[port[c]] = k
          /\ \A q \in DOMAIN rports : q # port[c] => rports'[q] = rports[q]
      BY <2>1, <2>4
    <3>2. \A d \in Conn : Known(d) => port[d] # port[c]
      BY <1>4, <2>4 DEF Known
    <3>. QED  BY <1>3, <1>4, <1>5, <1>6, <2>2, <2>3, <3>1, <3>2 DEF k
  <2>5. CASE rpeers[k] # {}
    <3>1. PICK d \in rpeers[k] : TRUE
      BY <2>5
    <3>2. d \in Conn /\ KeyOf[d] = k /\ Known(d)
      BY <1>3, <1>4, <3>1 DEF Known
    <3>3. port[c] \in DOMAIN rports /\ rports[port[c]] = k
      BY <1>4, <1>5, <3>2
    <3>4. rports' = rports
      BY <2>1, <2>5
    <3>. QED  BY <1>4, <1>5, <1>6, <2>2, <2>3, <3>3, <3>4 DEF k
  <2>. QED  BY <2>4, <2>5
<1>7. ASSUME inbox[1].op = "remove" /\ RouterRemove(c) PROVE Tables
  <2>1. /\ rpeers' = [rpeers EXCEPT ![k] = @ \ {c}]
        /\ rports' = IF rpeers[k] \ {c} = {} THEN Without(rports, port[c]) ELSE rports
    BY <1>7 DEF RouterRemove, k
  <2>2. /\ rpeers' \in [Key -> SUBSET Conn]
        /\ \A j \in Key, d \in Conn : d \in rpeers'[j] <=> d \in rpeers[j] /\ ~(d = c /\ j = k)
    BY <1>3, <1>4, <2>1
  <2>3. \A d \in Conn : Known(d)' <=> Known(d) /\ d # c
    BY <1>4, <2>2 DEF Known, k
  <2>4. CASE rpeers[k] \ {c} = {}
    <3>1. /\ DOMAIN rports' = DOMAIN rports \ {port[c]}
          /\ \A q \in DOMAIN rports : q # port[c] => rports'[q] = rports[q]
      BY <2>1, <2>4 DEF Without
    <3>2. \A d \in Conn : Known(d) /\ d # c => port[d] # port[c]
      BY <1>4, <2>4 DEF Known
    <3>. QED  BY <1>4, <1>5, <1>7, <2>2, <2>3, <3>1, <3>2
  <2>5. CASE rpeers[k] \ {c} # {}
    <3>1. PICK d \in rpeers[k] \ {c} : TRUE
      BY <2>5
    <3>2. d \in Conn /\ KeyOf[d] = k /\ Known(d) /\ d # c /\ port[d] = port[c]
      BY <1>3, <1>4, <3>1 DEF Known
    <3>3. rports' = rports
      BY <2>1, <2>5
    <3>4. \A p \in DOMAIN rports : \E e \in Conn : Known(e) /\ e # c /\ port[e] = p /\ rports[p] = KeyOf[e]
      BY <1>5, <3>2
    <3>. QED  BY <1>4, <1>5, <1>7, <2>2, <2>3, <3>3, <3>4
  <2>. QED  BY <2>4, <2>5
<1>8. ASSUME inbox[1].op = "packet" /\ UNCHANGED <<rpeers, rports>> PROVE Tables
  BY <1>4, <1>5, <1>8 DEF Known
<1>9. Tables
  BY <1>2, <1>6, <1>7, <1>8 DEF RouterStep, router, c
<1>10. Registry' /\ Senders' /\ Ordered' /\ AddFirst' /\ Knowledge' /\ Apart'
  BY <1>1, <1>3, <1>9, TakeStep DEF c
<1>11. PortsAgree' /\ NoStalePort'
  BY <1>1, <1>9 DEF PortsAgree, NoStalePort, Known
<1>12. TypeOK'
  BY <1>1, <1>2, <1>9 DEF IInv, TypeOK, Message
<1>. QED  BY <1>10, <1>11, <1>12 DEF IInv

-----------------------------------------------------------------------------

\* The invariant holds before the first connection and is kept by every step.
LEMMA Invariant == Spec => []IInv
<1>1. Init => IInv
  <2>. SUFFICES ASSUME Init PROVE IInv
    OBVIOUS
  <2>1. DOMAIN inbox = {} /\ DOMAIN rports = {} /\ inbox \in Seq(Message)
    BY DEF Init
  <2>2. closed \in BOOLEAN /\ open \in [Conn -> BOOLEAN]
    BY Zenon DEF Init
  <2>3. TypeOK
    BY <2>1, <2>2 DEF Init, TypeOK, Message
  <2>4. /\ \A c \in Conn : KeyOf[c] \in Key /\ pc[c] = "new" /\ port[c] = 0
        /\ \A k \in Key : peers[k] = {} /\ rpeers[k] = {}
    BY PeersAssumption DEF Init
  <2>5. Registry
    BY <2>4 DEF Registry, Registered
  <2>6. Senders /\ Ordered /\ AddFirst
    BY <2>1 DEF Senders, Ordered, AddFirst
  <2>7. Knowledge
    BY <2>1, <2>4 DEF Knowledge, Known, Adding, Is
  <2>8. Apart
    BY <2>4 DEF Apart, Conflict
  <2>9. PortsAgree /\ NoStalePort
    BY <2>1, <2>4 DEF PortsAgree, NoStalePort
  <2>. QED  BY <2>3, <2>5, <2>6, <2>7, <2>8, <2>9 DEF IInv
<1>2. IInv /\ [Next]_vars => IInv'
  <2>. SUFFICES ASSUME IInv, [Next]_vars PROVE IInv'
    OBVIOUS
  <2>1. ASSUME NEW c \in Conn, AddPeer(c) PROVE IInv'
    BY <2>1, AddPeerStep
  <2>2. ASSUME NEW c \in Conn, Refuse(c) PROVE IInv'
    BY <2>2, RefuseStep
  <2>3. ASSUME NEW c \in Conn, HandlerStarts(c) PROVE IInv'
    <3>1. /\ pc[c] = "added" /\ Act("add", c) /\ pc' = [pc EXCEPT ![c] = "handling"]
          /\ UNCHANGED <<peers, ports, port, closed, open, rpeers, rports>>
      BY <2>3 DEF HandlerStarts, Goto, core, router
    <3>. QED  BY <3>1, TellStep, ZenonT(30)
  <2>4. ASSUME NEW c \in Conn, HandlePacket(c) PROVE IInv'
    <3>1. /\ pc[c] = "handling" /\ Act("packet", c) /\ pc' = pc
          /\ UNCHANGED <<peers, ports, port, closed, open, rpeers, rports>>
      BY <2>4 DEF HandlePacket, core, router
    <3>2. pc' = [pc EXCEPT ![c] = "handling"]
      BY <3>1 DEF IInv, TypeOK
    <3>. QED  BY <3>1, <3>2, TellStep, ZenonT(30)
  <2>5. ASSUME NEW c \in Conn, HandlerReturns(c) PROVE IInv'
    <3>1. /\ pc[c] = "handling" /\ Act("remove", c) /\ pc' = [pc EXCEPT ![c] = "left"]
          /\ UNCHANGED <<peers, ports, port, closed, open, rpeers, rports>>
      BY <2>5 DEF HandlerReturns, Goto, core, router
    <3>. QED  BY <3>1, TellStep, ZenonT(30)
  <2>6. ASSUME NEW c \in Conn, RemovePeer(c) PROVE IInv'
    BY <2>6, RemovePeerStep
  <2>7. CASE RouterStep
    BY <2>7, RouterStepInv
  <2>8. CASE Close
    BY <2>8, CloseStep
  <2>9. CASE UNCHANGED vars
    <3>1. UNCHANGED <<peers, ports, port, closed, pc, open, inbox, rpeers, rports>>
      BY <2>9 DEF vars
    <3>2. TypeOK' /\ Registry'
      BY <3>1 DEF IInv, TypeOK, Registry, Registered
    <3>3. Senders' /\ Ordered' /\ AddFirst' /\ Knowledge' /\ PortsAgree' /\ NoStalePort'
      BY <3>1, QuietStep DEF Told
    <3>4. Apart'
      BY <3>1, QuietApart DEF IInv
    <3>. QED  BY <3>2, <3>3, <3>4 DEF IInv
  <2>. QED  BY <2>1, <2>2, <2>3, <2>4, <2>5, <2>6, <2>7, <2>8, <2>9 DEF Next
<1>. QED  BY <1>1, <1>2, PTL DEF Spec

\* Peers!PortsAgree: in whatever order connections come and go and the router
\* handles what it is told of them, a port in its table is the key's whose
\* connections have it, although the peers actor may have given it away since.
THEOREM PortsLeadToPeers == Spec => []PortsAgree
<1>1. IInv => PortsAgree
  BY DEF IInv
<1>. QED  BY <1>1, Invariant, PTL

\* Peers!NoStalePort: the router's table has no port of a peer that has gone.
THEOREM PortsAreForgotten == Spec => []NoStalePort
<1>1. IInv => NoStalePort
  BY DEF IInv
<1>. QED  BY <1>1, Invariant, PTL

\* Peers!HandledWhileKnown: the handlers of packets and removePeer find the peer
\* that they look up in the router's tables without checking.
THEOREM PeersAreKnown == Spec => []HandledWhileKnown
<1>1. ASSUME IInv PROVE HandledWhileKnown
  <2>. SUFFICES ASSUME inbox # <<>>, Head(inbox).op # "add"
                PROVE  Known(Head(inbox).conn)
    BY DEF HandledWhileKnown, Known
  <2>1. inbox \in Seq(Message)
    BY <1>1 DEF IInv, TypeOK, Message
  <2>2. 1 \in DOMAIN inbox /\ Head(inbox) = inbox[1]
    BY <2>1
  <2>3. \A i \in DOMAIN inbox : i \in Nat /\ i >= 1
    BY <2>1
  <2>4. ~Adding(inbox[1].conn)
    BY <1>1, <2>2, <2>3 DEF IInv, Ordered, Adding, Is
  <2>. QED  BY <1>1, <2>2, <2>4 DEF IInv, AddFirst
<1>. QED  BY <1>1, Invariant, PTL
=============================================================================
