-------------------------------- MODULE Proto --------------------------------
(***************************************************************************)
(* Questions to remote nodes: the admin socket (src/admin/admin.go) with a *)
(* goroutine for every connection, the handlers of the four requests that  *)
(* ask another node something, and the two actors that send the questions  *)
(* and match the answers, protoHandler (src/core/proto.go) and nodeinfo    *)
(* (src/core/nodeinfo.go).                                                 *)
(*                                                                         *)
(* An answer on the wire does not say which question it answers: it goes   *)
(* to whoever asked that node last.  A question is a number, and its       *)
(* messages carry the number for the properties only.  A message is its    *)
(* type and its size.  Goroutines and actors are done with a second's work *)
(* before the next second; messages take any time, or are lost.            *)
(***************************************************************************)
EXTENDS Integers, Sequences, FiniteSets, FiniteSetsExt, Functions

CONSTANTS
  Conn,         \* connections to the admin socket
  Key,          \* remote nodes
  Cases,        \* sets of requests, of which a behaviour uses one
  NumPeers,     \* the peers that each remote node has
  NumTree,      \* the entries of its tree
  KeySize,      \* the size of a key (32 in the code)
  PacketMTU,    \* the largest message that the network takes
  MaxMTU,       \* the largest packet of the node (65535 in the code)
  MaxNodeInfo,  \* the largest node info (16384 in the code)
  Wait,         \* a handler's patience, in seconds (6 in the code)
  HalfMinute,   \* the seconds of half a minute
  MaxTime,      \* bound: the seconds of a behaviour
  MaxRequests,  \* bound: the questions of a behaviour
  None          \* no timer, no message

Actor == {"proto", "nodeinfo"}
Kind == {"getself", "getpeers", "gettree", "getnodeinfo"}
Id == 1 .. MaxRequests
Minute == 2 * HalfMinute

ASSUME ProtoAssumption ==
  /\ Cases \subseteq SUBSET Kind
  /\ NumPeers \in [Key -> Nat] /\ NumTree \in [Key -> Nat]
  /\ KeySize \in Nat \ {0} /\ PacketMTU \in Nat /\ PacketMTU > 4 /\ MaxMTU \in Nat /\ MaxMTU > 2
  /\ MaxNodeInfo \in Nat /\ 2 + MaxNodeInfo <= PacketMTU
  /\ {Wait, HalfMinute, MaxTime, MaxRequests} \subseteq Nat \ {0}
  /\ Wait < Minute

\* An entry of requests: the question, when it was put there, and its timer.
Request == [id : Nat, created : Nat, timer : Nat \cup {None}]

ASSUME NoneAssumption == None \notin Nat /\ None \notin Request

VARIABLES
  now,       \* the time
  kinds,     \* the requests that this behaviour uses
  handlers,  \* the handlers of the admin socket
  conn,      \* where the goroutine of each connection is
  asked,     \* the questions so far
  inbox,     \* what each actor has been asked to do
  requests,  \* selfRequests, peersRequests, treeRequests, callbacks
  cleanup,   \* when nodeinfo cleans up next
  net        \* messages on their way

vars == <<now, kinds, handlers, conn, asked, inbox, requests, cleanup, net>>
rigid == <<now, kinds, handlers>>

ActorOf(kind) == IF kind = "getnodeinfo" THEN "nodeinfo" ELSE "proto"

Tell(actor, what) == inbox' = [inbox EXCEPT ![actor] = Append(@, what)]

\* A handler waits for the answer.
Waits(id) == asked[id].result = "waiting"

Init ==
  /\ now = 0
  /\ kinds \in Cases
  /\ handlers = {}
  /\ conn = [c \in Conn |-> "none"]
  /\ asked = <<>>
  /\ inbox = [a \in Actor |-> <<>>]
  /\ requests = [k \in Kind |-> [n \in Key |-> None]]
  /\ cleanup = HalfMinute
  /\ net = {}

-----------------------------------------------------------------------------
(* What is sent *)

\* Core.MTU leaves room for the type of the session's message.
MTU == Min({PacketMTU - 1, MaxMTU})

\* PacketConn.WriteTo refuses a message that is too large, and nobody looks.
WriteTo(m) == IF m.size > PacketMTU THEN {} ELSE {m}

\* _sendDebug: three bytes of types, and the data.
Debug(type, id, size) == [type |-> type, id |-> id, size |-> 3 + size]

\* As many keys as there is room for.
Keys(number) ==
  LET responseOverhead == 2
  IN  KeySize * Max({n \in 0 .. number : n * KeySize + responseOverhead <= MTU})

GetSelfResponse(id) == Debug("response", id, 1)

GetPeersResponse(id) == Debug("response", id, Keys(NumPeers[asked[id].key]))

GetTreeResponse(id) == Debug("response", id, Keys(NumTree[asked[id].key]))

\* What setNodeInfo takes, from nothing to the largest.
NodeInfo == {0, MaxNodeInfo}

\* nodeinfo._sendRes, at the remote node.
SendRes(id, size) == [type |-> "response", id |-> id, size |-> 2 + size]

\* The remote node's answer to a question.
HandleRequest(m) ==
  LET kind == asked[m.id].kind
  IN  /\ m \in net /\ m.type = "request"
      /\ \E response \in
           CASE kind = "getself" -> {GetSelfResponse(m.id)}
             [] kind = "getpeers" -> {GetPeersResponse(m.id)}
             [] kind = "gettree" -> {GetTreeResponse(m.id)}
             [] kind = "getnodeinfo" -> {SendRes(m.id, size) : size \in NodeInfo} :
           net' = (net \ {m}) \cup WriteTo(response)
      /\ UNCHANGED <<rigid, conn, asked, inbox, requests, cleanup>>

-----------------------------------------------------------------------------
(* The actors *)

\* The question that the answer to a question is given to, with its entry.
Entry(id) == requests[asked[id].kind][asked[id].key]

SetEntry(id, entry) == requests' = [requests EXCEPT ![asked[id].kind][asked[id].key] = entry]

\* The handler of an entry that is there will not be called.
Displace(id) ==
  asked' = [i \in DOMAIN asked |->
    IF Entry(id) # None /\ i = Entry(id).id THEN [asked[i] EXCEPT !.displaced = @ \/ Waits(i)]
    ELSE asked[i]]

\* A new question to a node takes the place of an earlier one.
SendDebugRequest(id) ==
  /\ Displace(id)
  /\ SetEntry(id, [id |-> id, created |-> now, timer |-> now + Minute])
  /\ net' = net \cup WriteTo(Debug("request", id, 0))

SendGetSelfRequest(id) == asked[id].kind = "getself" /\ SendDebugRequest(id)

SendGetPeersRequest(id) == asked[id].kind = "getpeers" /\ SendDebugRequest(id)

SendGetTreeRequest(id) == asked[id].kind = "gettree" /\ SendDebugRequest(id)

\* nodeinfo._addCallback
AddCallback(id) ==
  /\ Displace(id)
  /\ SetEntry(id, [id |-> id, created |-> now, timer |-> None])

\* nodeinfo._sendReq
SendReq(id) ==
  /\ asked[id].kind = "getnodeinfo"
  /\ AddCallback(id)
  /\ net' = net \cup WriteTo([type |-> "request", id |-> id, size |-> 2])

Send(id) ==
  /\ SendGetSelfRequest(id) \/ SendGetPeersRequest(id) \/ SendGetTreeRequest(id) \/ SendReq(id)
  /\ UNCHANGED cleanup

\* A callback writes to a channel of capacity one, and waits while it is full.
Blocked(actor) ==
  /\ inbox[actor] # <<>>
  /\ LET m == Head(inbox[actor])
     IN  m.do = "response" /\ Entry(m.id) # None /\ asked[Entry(m.id).id].ch

\* Mutant: the entry stays.
HandleDebugResponse_Mutant(id) ==
  \/ Entry(id) = None /\ UNCHANGED <<asked, requests>>
  \/ /\ Entry(id) # None
     /\ asked' = [asked EXCEPT ![Entry(id).id].ch = TRUE]
     /\ SetEntry(id, [Entry(id) EXCEPT !.timer = None])

\* The callback of the entry, if there is one, is called.
HandleDebugResponse(id) ==
  \/ Entry(id) = None /\ UNCHANGED <<asked, requests>>
  \/ /\ Entry(id) # None
     /\ asked' = [asked EXCEPT ![Entry(id).id].ch = TRUE]
     /\ SetEntry(id, None)

HandleGetSelfResponse(id) == asked[id].kind = "getself" /\ HandleDebugResponse(id)

HandleGetPeersResponse(id) == asked[id].kind = "getpeers" /\ HandleDebugResponse(id)

HandleGetTreeResponse(id) == asked[id].kind = "gettree" /\ HandleDebugResponse(id)

\* nodeinfo._callback
Callback(id) == asked[id].kind = "getnodeinfo" /\ HandleDebugResponse(id)

HandleResponse(id) ==
  /\ \/ HandleGetSelfResponse(id) \/ HandleGetPeersResponse(id)
     \/ HandleGetTreeResponse(id) \/ Callback(id)
  /\ UNCHANGED <<net, cleanup>>

\* Mutant: whatever entry there is goes.
Expire_Mutant(id) ==
  /\ SetEntry(id, None)
  /\ UNCHANGED <<asked, net, cleanup>>

\* A minute after a question its entry goes, if it is still there.
Expire(id) ==
  /\ SetEntry(id, IF Entry(id) # None /\ Entry(id).id = id THEN None ELSE Entry(id))
  /\ UNCHANGED <<asked, net, cleanup>>

\* Mutant: the next one is not arranged.
Cleanup_Mutant ==
  /\ requests' = [requests EXCEPT !["getnodeinfo"] = [n \in Key |->
       IF @[n] # None /\ now - @[n].created > Minute THEN None ELSE @[n]]]
  /\ cleanup' = None
  /\ UNCHANGED <<asked, net>>

\* nodeinfo._cleanup
Cleanup ==
  /\ requests' = [requests EXCEPT !["getnodeinfo"] = [n \in Key |->
       IF @[n] # None /\ now - @[n].created > Minute THEN None ELSE @[n]]]
  /\ cleanup' = now + HalfMinute
  /\ UNCHANGED <<asked, net>>

\* An actor does the first thing in its inbox.
Run(actor) ==
  /\ inbox[actor] # <<>> /\ ~Blocked(actor)
  /\ inbox' = [inbox EXCEPT ![actor] = Tail(@)]
  /\ LET what == Head(inbox[actor])
     IN  \/ what.do = "send" /\ Send(what.id)
         \/ what.do = "response" /\ HandleResponse(what.id)
         \/ what.do = "expire" /\ Expire(what.id)
         \/ what.do = "cleanup" /\ Cleanup
  /\ UNCHANGED <<rigid, conn>>

\* Core.ReadFrom, handleProto, handleDebug: an answer arrives.
HandleProto(m) ==
  /\ m \in net /\ m.type = "response"
  /\ net' = net \ {m}
  /\ Tell(ActorOf(asked[m.id].kind), [do |-> "response", id |-> m.id])
  /\ UNCHANGED <<rigid, conn, asked, requests, cleanup>>

\* The timers only tell the actors.
TimerDue(kind, key) ==
  LET entry == requests[kind][key]
  IN  entry # None /\ entry.timer # None /\ now >= entry.timer

TimerFires(kind, key) ==
  /\ TimerDue(kind, key)
  /\ requests' = [requests EXCEPT ![kind][key].timer = None]
  /\ Tell("proto", [do |-> "expire", id |-> requests[kind][key].id])
  /\ UNCHANGED <<rigid, conn, asked, cleanup, net>>

CleanupFires ==
  /\ cleanup # None /\ now >= cleanup
  /\ cleanup' = None
  /\ Tell("nodeinfo", [do |-> "cleanup"])
  /\ UNCHANGED <<rigid, conn, asked, requests, net>>

-----------------------------------------------------------------------------
(* The admin socket and its handlers *)

\* Core.SetAdmin, with AdminSocket.AddHandler: the socket is listening already, and
\* a request that comes too early finds no handler.
SetAdmin ==
  /\ handlers = {}
  /\ handlers' = kinds
  /\ UNCHANGED <<now, kinds, conn, asked, inbox, requests, cleanup, net>>

\* AdminSocket.listen
Accept(c) ==
  /\ conn[c] = "none"
  /\ conn' = [conn EXCEPT ![c] = "reading"]
  /\ UNCHANGED <<rigid, asked, inbox, requests, cleanup, net>>

\* A handler tells its actor to send a question, and waits for a while.
Ask(c, kind, key, keepAlive) ==
  /\ Tell(ActorOf(kind), [do |-> "send", id |-> Len(asked) + 1])
  /\ asked' = Append(asked, [kind |-> kind, key |-> key, ch |-> FALSE, result |-> "waiting",
                             conn |-> c, keepAlive |-> keepAlive, deadline |-> now + Wait,
                             displaced |-> FALSE, lost |-> FALSE])

GetSelfHandler(c, key, keepAlive) == Ask(c, "getself", key, keepAlive)

GetPeersHandler(c, key, keepAlive) == Ask(c, "getpeers", key, keepAlive)

GetTreeHandler(c, key, keepAlive) == Ask(c, "gettree", key, keepAlive)

NodeInfoAdminHandler(c, key, keepAlive) == Ask(c, "getnodeinfo", key, keepAlive)

\* AdminSocket.handleRequest, up to where its handler waits.
HandleAdmin(c, kind, key, keepAlive) ==
  /\ conn[c] = "reading" /\ Len(asked) < MaxRequests /\ kind \in handlers
  /\ conn' = [conn EXCEPT ![c] = "busy"]
  /\ \/ kind = "getself" /\ GetSelfHandler(c, key, keepAlive)
     \/ kind = "getpeers" /\ GetPeersHandler(c, key, keepAlive)
     \/ kind = "gettree" /\ GetTreeHandler(c, key, keepAlive)
     \/ kind = "getnodeinfo" /\ NodeInfoAdminHandler(c, key, keepAlive)
  /\ UNCHANGED <<rigid, requests, cleanup, net>>

\* What is not a request, or the end of the connection.  (A request that has no
\* handler, or that its handler refuses, is answered at once.)
BadRequest(c) ==
  /\ conn[c] = "reading"
  /\ conn' = [conn EXCEPT ![c] = "closed"]
  /\ UNCHANGED <<rigid, asked, inbox, requests, cleanup, net>>

\* AdminSocket.handleRequest, from there on.
Respond(id, result) ==
  LET q == asked[id]
  IN  /\ asked' = [asked EXCEPT ![id] =
           [q EXCEPT !.result = result, !.ch = FALSE, !.conn = None, !.keepAlive = FALSE,
                     !.deadline = 0, !.displaced = FALSE, !.lost = FALSE]]
      /\ conn' = [conn EXCEPT ![q.conn] = IF q.keepAlive THEN "reading" ELSE "closed"]
      /\ UNCHANGED <<rigid, inbox, requests, cleanup, net>>

Answer(id) ==
  /\ Waits(id) /\ asked[id].ch
  /\ Respond(id, "answer")

Timeout(id) ==
  /\ Waits(id) /\ now >= asked[id].deadline
  /\ Respond(id, "timeout")

\* AdminSocket.Stop: no connection is accepted any more, and the others go on.
Stop ==
  /\ \E c \in Conn : conn[c] = "none"
  /\ conn' = [c \in Conn |-> IF conn[c] = "none" THEN "closed" ELSE conn[c]]
  /\ UNCHANGED <<rigid, asked, inbox, requests, cleanup, net>>

-----------------------------------------------------------------------------
(* Time and the network *)

Lose(m) ==
  /\ m \in net
  /\ net' = net \ {m}
  /\ asked' = [asked EXCEPT ![m.id].lost = Waits(m.id)]
  /\ UNCHANGED <<rigid, conn, inbox, requests, cleanup>>

Tick ==
  /\ now < MaxTime
  /\ \A a \in Actor : inbox[a] = <<>>
  /\ \A i \in DOMAIN asked : Waits(i) => ~asked[i].ch /\ now < asked[i].deadline
  /\ \A kind \in Kind, key \in Key : ~TimerDue(kind, key)
  /\ cleanup # None => now < cleanup
  /\ now' = now + 1
  /\ UNCHANGED <<kinds, handlers, conn, asked, inbox, requests, cleanup, net>>

Next ==
  \/ \E c \in Conn : Accept(c) \/ BadRequest(c)
  \/ \E c \in Conn, kind \in Kind, key \in Key, keepAlive \in BOOLEAN :
       HandleAdmin(c, kind, key, keepAlive)
  \/ \E i \in DOMAIN asked : Answer(i) \/ Timeout(i)
  \/ \E kind \in Kind, key \in Key : TimerFires(kind, key)
  \/ \E a \in Actor : Run(a)
  \/ \E m \in net : HandleRequest(m) \/ HandleProto(m) \/ Lose(m)
  \/ CleanupFires \/ SetAdmin \/ Stop \/ Tick

Spec == Init /\ [][Next]_vars

-----------------------------------------------------------------------------
(* Properties *)

\* No answer ever stops an actor.  A callback writes to the channel of a handler
\* that may have given up long ago, so a second write would wait for ever, and
\* with it every question and answer of the node.  It takes that a question is
\* answered once, though late answers to earlier questions of the same node
\* come to it as well.
NeverBlocks == \A a \in Actor : ~Blocked(a)

\* The answer is still on its way, or is there in the very second the handler
\* gives up.
Late(id) ==
  \/ \E m \in net : m.id = id
  \/ \E m \in UNION {Range(inbox[a]) : a \in Actor} : m.do = "response" /\ m.id = id
  \/ asked[id].ch

\* A handler gives up for one of three reasons: a message was lost, a message was
\* still on its way, or somebody else asked the same node the same thing in
\* the meantime.  In particular the minute's timer of an earlier question, which
\* may fire just as the new one takes its place, never takes the new one away,
\* and no answer is too large to be sent.
Answered ==
  [][\A i \in DOMAIN asked :
       Waits(i) /\ asked'[i].result = "timeout" =>
         asked[i].displaced \/ asked[i].lost \/ Late(i)]_vars

\* Every question is forgotten: after a minute by its timer, a question for node
\* info after a minute and a half at most, by the clean-up that runs every half
\* minute, whatever is lost and however often the same node is asked again.
Forgotten ==
  \A kind \in Kind, key \in Key :
    requests[kind][key] # None =>
      now - requests[kind][key].created <=
        (IF kind = "getnodeinfo" THEN Minute + HalfMinute ELSE Minute)
=============================================================================
