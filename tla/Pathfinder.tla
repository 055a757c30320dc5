------------------------------ MODULE Pathfinder ------------------------------
(***************************************************************************)
(* How a packet finds the node it is for: the key store that holds it      *)
(* while the key behind its address is unknown (ipv6rwc/ipv6rwc.go), the   *)
(* pathfinder that looks up the path to a key and repairs it when it       *)
(* breaks (network/pathfinder.go), and the greedy forwarding of traffic,   *)
(* notifies and brokens through the tree (network/router.go).              *)
(*                                                                         *)
(* Two ends exchange packets over a network whose tree changes.  Every     *)
(* router handles one message at a time, from its peers or from itself; it *)
(* knows some tree, which lags behind the real one until it has learned it *)
(* (Router models how).  A port is named by the node behind it, so a path  *)
(* is the sequence of the nodes below the root.  All bloom filters match   *)
(* (Blooms models them): lookups go to every neighbour on the tree.  The   *)
(* session of the two ends stands (Sessions models it), and nothing but    *)
(* packets is sent in it.                                                  *)
(***************************************************************************)
EXTENDS Integers, Sequences, FiniteSets, SequencesExt

CONSTANTS
  None,         \* a model value: nothing
  Node,
  Source, Dest, \* the two ends
  Networks,     \* [links, parent]: the connections, and the tree over them
  Minute,       \* pathTimeout, half of keyStoreTimeout
  MaxTime,      \* bound: the last second
  Scenarios,    \* bound: [start, writes, kinds, moves, losses], the network at
                \* first, how often each end writes and to what kinds of address,
                \* how often the network changes and messages are lost or late
  MaxTries      \* writes in a row that may be lost, see Heals

ASSUME PathfinderAssumption ==
  /\ {Source, Dest} \subseteq Node
  /\ {Minute, MaxTime, MaxTries} \subseteq Nat

Ends == {Source, Dest}
Remote(n) == IF n = Source THEN Dest ELSE Source

VARIABLES
  now,      \* the time, in seconds
  network,  \* one of Networks
  tree,     \* node -> the parents it knows: router.infos
  net,      \* <<from, to>> -> messages not yet handled by the router of to
  path,     \* end -> pathfinder.paths[remote], or None
  rumor,    \* end -> pathfinder.rumors[remote], or None
  keyInfo,  \* end -> keyStore.keyToInfo[remote], or None
  buffer,   \* end -> kind of address -> the packet buffered for it, or None
  updates,  \* end -> calls of keyStore.update that are due
  wrote,    \* end -> it has written in this second
  left,     \* what of the scenario is still to come
  tries     \* end -> its writes since the last that arrived or the last fault

routing == <<path, rumor>>
store == <<keyInfo, buffer>>
clocks == <<now, network, tree, wrote, left>>
vars == <<clocks, net, routing, store, updates, tries>>

-----------------------------------------------------------------------------
(* Timers: all are set again whenever they are used.  One that went off in    *)
(* the second in which it is set again still does its work.                   *)

Timer(length) == [due |-> now + length, stale |-> 0]

Reset(timer, length) ==
  [due |-> now + length, stale |-> IF now >= timer.due THEN now ELSE timer.stale]

Due(timer) == now >= timer.due
GoesOff(timer) == Due(timer) \/ timer.stale = now

\* Less than pathThrottle has passed since time t.
Throttled(t) == IF now = t THEN {TRUE} ELSE IF now = t + 1 THEN BOOLEAN ELSE {FALSE}

-----------------------------------------------------------------------------
(* Paths *)

\* All routers know the tree.
Settled == \A n \in Node : tree[n] = network.parent

Peers(n) == {k \in Node : {n, k} \in network.links}

\* _getRootAndPath: the path of each node.
Coords(parent) ==
  LET to[n \in Node] == IF parent[n] = n THEN <<>> ELSE Append(to[parent[n]], n)
  IN  to

\* _getDist
GetDist(dest, key) ==
  LET common == {i \in DOMAIN key \cap DOMAIN dest : \A j \in 1 .. i : key[j] = dest[j]}
  IN  Len(key) + Len(dest) - 2 * Cardinality(common)

Infinite == 99

Mark_Mutant(n, m) == m

\* _lookup: what node n forwards m with, and the peers it may forward it to; a
\* peer at the very end of the path costs nothing, of the others any may have the
\* best latency.
Mark(n, m) ==
  LET dist == GetDist(m.path, Coords(tree[n])[n])
  IN  [m EXCEPT !.watermark = IF dist < @ THEN dist ELSE @]

Lookup(n, m) ==
  LET coords == Coords(tree[n])
      dist(k) == GetDist(m.path, coords[k])
      candidates == {k \in Peers(n) : dist(k) < dist(n)}
      there == {k \in candidates : dist(k) = 0}
  IN  IF dist(n) >= m.watermark THEN {}
      ELSE IF there # {} THEN there ELSE candidates

-----------------------------------------------------------------------------
(* Messages *)

Envelope(to, m) == [to |-> to, m |-> m]

\* n has handled the first message of from, and sends out.
Exchange(from, n, out) ==
  net' = FoldLeft(LAMBDA q, o : [q EXCEPT ![<<n, o.to>>] = Append(@, o.m)],
                  [net EXCEPT ![<<from, n>>] = Tail(@)], out)

PathLookup(n) == [type |-> "lookup", source |-> n, from |-> Coords(tree[n])[n]]

\* The info a node signs: the second, and where it is.
PathNotifyInfo(n) == [seq |-> now, path |-> Coords(tree[n])[n]]

PathNotify(n, lookup) ==
  [type |-> "notify", path |-> lookup.from, watermark |-> Infinite, source |-> n,
   dest |-> lookup.source, info |-> PathNotifyInfo(n), trail |-> {}]

PathBroken(tr) ==
  [type |-> "broken", path |-> tr.from, watermark |-> Infinite, source |-> tr.source,
   dest |-> tr.dest, trail |-> {}]

Traffic(n, to) ==
  [type |-> "traffic", path |-> to, from |-> Coords(tree[n])[n], source |-> n,
   dest |-> Remote(n), watermark |-> Infinite, trail |-> {}]

\* n sends m on, or there is nobody to send it to.  The trail is the history of m:
\* who has sent it on, knowing which tree.
Forward(n, hop, m) ==
  <<Envelope(hop, [Mark(n, m) EXCEPT !.trail = @ \cup {<<n, tree[n]>>}])>>

Ended(n, m) == Lookup(n, m) = {}

-----------------------------------------------------------------------------
(* Lookups *)


\* _isOnTree
IsOnTree(n, k) == tree[n][n] = k \/ tree[n][k] = n

\* _sendMulticast
Multicast(n, from, lookup) ==
  LET to == {k \in Peers(n) : IsOnTree(n, k) /\ k # from}
  IN  [i \in 1 .. Cardinality(to) |-> Envelope(SetToSeq(to)[i], lookup)]

\* _sendLookup: the lookup goes out unless it is throttled.
SendLookup(n, throttled) == IF throttled THEN <<>> ELSE Multicast(n, n, PathLookup(n))

\* _rumorSendLookup: the rumor, and whether a lookup is sent.
NewRumor == [sendTime |-> now, timer |-> Timer(Minute), traffic |-> FALSE]

RumorAgain(r) == [r EXCEPT !.sendTime = now, !.timer = Reset(@, Minute)]

RumorSendLookup(n, throttled) ==
  IF rumor[n] = None THEN NewRumor
  ELSE IF throttled THEN rumor[n] ELSE RumorAgain(rumor[n])

RumorThrottled(n) == IF rumor[n] = None THEN {FALSE} ELSE Throttled(rumor[n].sendTime)

\* handleLookup, _handleLookup
HandleLookup(from, n, m) ==
  /\ \/ /\ ~IsOnTree(n, from)
        /\ Exchange(from, n, <<>>)
     \/ /\ IsOnTree(n, from) /\ n # Remote(m.source)
        /\ Exchange(from, n, Multicast(n, from, m))
     \/ /\ IsOnTree(n, from) /\ n = Remote(m.source)
        /\ LET notify == PathNotify(n, m)
           IN  \/ /\ Ended(n, notify)
                  /\ Exchange(from, n, Multicast(n, from, m))
               \/ \E hop \in Lookup(n, notify) :
                    Exchange(from, n, Multicast(n, from, m) \o Forward(n, hop, notify))
  /\ UNCHANGED <<clocks, routing, store, updates, tries>>

-----------------------------------------------------------------------------
(* Notifies *)


\* The notify tells n nothing it may use.
Ignored(n, m) ==
  m.dest = n =>
    IF path[n] # None THEN m.info.seq <= path[n].seq \/ m.info.path = path[n].path
    ELSE rumor[n] = None

\* The path afterwards: its packet, or the one of the rumor, is sent again.
Learned(n, m) ==
  LET sends == IF path[n] # None THEN path[n].traffic ELSE rumor[n].traffic
  IN  [path |-> m.info.path, seq |-> m.info.seq, broken |-> FALSE, traffic |-> sends,
       reqTime |-> IF path[n] # None THEN path[n].reqTime ELSE now,
       timer |-> IF path[n] # None THEN Reset(path[n].timer, Minute) ELSE Timer(Minute)]

\* doPathNotify: the key store is told of the key.
DoPathNotify(n) == updates' = [updates EXCEPT ![n] = @ + 1]

\* handleNotify, _handleNotify
HandleNotify(from, n, m) ==
  \/ /\ \E hop \in Lookup(n, m) : Exchange(from, n, Forward(n, hop, m))
     /\ UNCHANGED <<clocks, routing, store, updates, tries>>
  \/ /\ Ended(n, m) /\ Ignored(n, m)
     /\ Exchange(from, n, <<>>)
     /\ UNCHANGED <<clocks, routing, store, updates, tries>>
  \/ /\ Ended(n, m) /\ ~Ignored(n, m)
     /\ LET new == Learned(n, m)
        IN  /\ path' = [path EXCEPT ![n] = new]
            /\ rumor' = IF path[n] # None THEN rumor
                        ELSE [rumor EXCEPT ![n].traffic = FALSE]
            /\ Exchange(from, n,
                        IF new.traffic THEN <<Envelope(n, Traffic(n, new.path))>> ELSE <<>>)
     /\ DoPathNotify(n)
     /\ UNCHANGED <<clocks, store, tries>>

-----------------------------------------------------------------------------
(* Traffic *)

\* What the key store asks of the router: to look up the key of an address, or
\* to send a packet to a key.
HandleSendLookup(n) ==
  /\ \E throttled \in RumorThrottled(n) :
       /\ rumor' = [rumor EXCEPT ![n] = RumorSendLookup(n, throttled)]
       /\ Exchange(n, n, SendLookup(n, throttled))
  /\ UNCHANGED <<clocks, path, store, updates, tries>>

\* sendTraffic, pathfinder._handleTraffic
SendTraffic(n) ==
  /\ \/ /\ path[n] # None
        /\ path' = [path EXCEPT ![n].traffic = TRUE]
        /\ Exchange(n, n, <<Envelope(n, Traffic(n, path[n].path))>>)
        /\ UNCHANGED rumor
     \/ /\ path[n] = None
        /\ \E throttled \in RumorThrottled(n) :
             /\ rumor' = [rumor EXCEPT ![n] =
                            [RumorSendLookup(n, throttled) EXCEPT !.traffic = TRUE]]
             /\ Exchange(n, n, SendLookup(n, throttled))
        /\ UNCHANGED path
  /\ UNCHANGED <<clocks, store, updates, tries>>

\* _resetTimeout
ResetTimeout(n) ==
  path' = IF path[n] = None \/ path[n].broken THEN path
          ELSE [path EXCEPT ![n].timer = Reset(@, Minute)]

\* handleBroken, _handleBroken, of a message of from or of one that _doBroken has
\* just made.
HandleBroken(from, n, m) ==
  \/ /\ \E hop \in Lookup(n, m) : Exchange(from, n, Forward(n, hop, m))
     /\ UNCHANGED <<clocks, routing, store, updates, tries>>
  \/ /\ Ended(n, m)
     /\ m.source = n => path[n] = None
     /\ Exchange(from, n, <<>>)
     /\ UNCHANGED <<clocks, routing, store, updates, tries>>
  \/ /\ Ended(n, m)
     /\ m.source = n /\ path[n] # None
     /\ path' = [path EXCEPT ![n].broken = TRUE]
     /\ \E throttled \in Throttled(path[n].reqTime) :
          Exchange(from, n, SendLookup(n, throttled))
     /\ UNCHANGED <<clocks, rumor, store, updates, tries>>

\* Core.ReadFrom, readPC: a packet with proper addresses is read, and the key
\* store told of the key it came from.
ReadPC(n) == updates' = [updates EXCEPT ![n] = @ + 1]

\* router.handleTraffic
HandleTraffic(from, n, m) ==
  \/ /\ \E hop \in Lookup(n, m) : Exchange(from, n, Forward(n, hop, m))
     /\ UNCHANGED <<clocks, routing, store, updates, tries>>
  \/ /\ Ended(n, m) /\ m.dest = n
     /\ ResetTimeout(n)
     /\ Exchange(from, n, <<>>)
     /\ ReadPC(n)
     /\ tries' = [tries EXCEPT ![m.source] = 0]
     /\ UNCHANGED <<clocks, rumor, store>>
  \/ /\ Ended(n, m) /\ m.dest # n
     /\ HandleBroken(from, n, PathBroken(m))

Handle(from, n) ==
  /\ net[<<from, n>>] # <<>>
  /\ LET m == Head(net[<<from, n>>])
     IN  \/ m.type = "lookup" /\ HandleLookup(from, n, m)
         \/ m.type = "notify" /\ HandleNotify(from, n, m)
         \/ m.type = "broken" /\ HandleBroken(from, n, m)
         \/ m.type = "traffic" /\ HandleTraffic(from, n, m)
         \/ m.type = "sendLookup" /\ HandleSendLookup(n)
         \/ m.type = "sendTraffic" /\ SendTraffic(n)

-----------------------------------------------------------------------------
(* The key store *)

Kinds == {"address", "subnet"}

Quiet == (\A pair \in DOMAIN net : net[pair] = <<>>) /\ \A n \in Ends : updates[n] = 0

\* Core.WriteTo of a number of packets.
WriteTo(n, number) ==
  net' = [net EXCEPT ![<<n, n>>] = @ \o [i \in 1 .. number |-> [type |-> "sendTraffic"]]]

SendKeyLookup(n) == net' = [net EXCEPT ![<<n, n>>] = Append(@, [type |-> "sendLookup"])]

\* sendToAddress, sendToSubnet: a packet for a key that is known is written to it,
\* another is buffered, in place of the one that was, and its key is looked up.
SendToAddress(n, kind) ==
  \/ /\ keyInfo[n] # None
     /\ keyInfo' = [keyInfo EXCEPT ![n] = Reset(@, 2 * Minute)]
     /\ WriteTo(n, 1)
     /\ UNCHANGED buffer
  \/ /\ keyInfo[n] = None
     /\ buffer' = [buffer EXCEPT ![n][kind] =
                     IF @ = None THEN Timer(2 * Minute) ELSE Reset(@, 2 * Minute)]
     /\ SendKeyLookup(n)
     /\ UNCHANGED keyInfo

\* writePC, for a packet with proper addresses.
WritePC(n, kind) ==
  /\ ~wrote[n] /\ left.writes[n] > 0 /\ kind \in left.kinds
  /\ wrote' = [wrote EXCEPT ![n] = TRUE]
  /\ left' = [left EXCEPT !.writes[n] = @ - 1]
  /\ tries' = [tries EXCEPT ![n] = IF Settled THEN @ + 1 ELSE 0]
  /\ SendToAddress(n, kind)
  /\ UNCHANGED <<now, network, tree, routing, updates>>

\* update, on a path notify or when a packet of the remote node is read: what is
\* buffered for a key that is new is written to it.
Update(n) ==
  LET packets == {kind \in Kinds : buffer[n][kind] # None}
  IN  /\ updates[n] > 0
      /\ updates' = [updates EXCEPT ![n] = @ - 1]
      /\ \/ /\ keyInfo[n] # None
            /\ keyInfo' = [keyInfo EXCEPT ![n] = Reset(@, 2 * Minute)]
            /\ UNCHANGED <<buffer, net>>
         \/ /\ keyInfo[n] = None
            /\ keyInfo' = [keyInfo EXCEPT ![n] = Timer(2 * Minute)]
            /\ buffer' = [buffer EXCEPT ![n] = [kind \in Kinds |-> None]]
            /\ WriteTo(n, Cardinality(packets))
      /\ UNCHANGED <<clocks, routing, tries>>

-----------------------------------------------------------------------------
(* Timers that go off *)

PathTimeout(n) ==
  /\ path[n] # None /\ GoesOff(path[n].timer)
  /\ path' = [path EXCEPT ![n] = None]
  /\ UNCHANGED <<clocks, net, rumor, store, updates, tries>>

RumorTimeout(n) ==
  /\ rumor[n] # None /\ GoesOff(rumor[n].timer)
  /\ rumor' = [rumor EXCEPT ![n] = None]
  /\ UNCHANGED <<clocks, net, path, store, updates, tries>>

KeyTimeout(n) ==
  /\ keyInfo[n] # None /\ GoesOff(keyInfo[n])
  /\ keyInfo' = [keyInfo EXCEPT ![n] = None]
  /\ UNCHANGED <<clocks, net, routing, buffer, updates, tries>>

BufferTimeout(n, kind) ==
  /\ buffer[n][kind] # None /\ GoesOff(buffer[n][kind])
  /\ buffer' = [buffer EXCEPT ![n][kind] = None]
  /\ UNCHANGED <<clocks, net, routing, keyInfo, updates, tries>>

-----------------------------------------------------------------------------
(* Time, the network and its faults *)

\* A second passes; timers that are due have gone off by then.  The ends write again once all messages are handled.
SecondPasses ==
  /\ now < MaxTime
  /\ \A n \in Ends :
       /\ path[n] # None => ~Due(path[n].timer)
       /\ rumor[n] # None => ~Due(rumor[n].timer)
       /\ keyInfo[n] # None => ~Due(keyInfo[n])
       /\ \A kind \in Kinds : buffer[n][kind] # None => ~Due(buffer[n][kind])
  /\ now' = now + 1
  /\ wrote' = [n \in Ends |-> FALSE]
  /\ UNCHANGED <<network, tree, net, routing, store, updates>>

Tick ==
  /\ SecondPasses
  /\ Quiet
  /\ UNCHANGED <<left, tries>>

Fault(kind) ==
  /\ left[kind] > 0
  /\ left' = [left EXCEPT ![kind] = @ - 1]
  /\ tries' = [n \in Ends |-> 0]

\* A second passes with messages on their way.
Delay ==
  /\ SecondPasses
  /\ ~Quiet
  /\ Fault("losses")

\* The connections change, and with them the tree; what is on its way over a
\* connection that is gone is lost.
Move ==
  /\ Fault("moves")
  /\ \E new \in Networks \ {network} :
       /\ network' = new
       /\ net' = [pair \in DOMAIN net |->
                    IF pair[1] = pair[2] \/ {pair[1], pair[2]} \in new.links
                    THEN net[pair] ELSE <<>>]
  /\ UNCHANGED <<now, tree, wrote, routing, store, updates>>

\* A router learns the new tree.
Learn(n) ==
  /\ tree[n] # network.parent
  /\ tree' = [tree EXCEPT ![n] = network.parent]
  /\ tries' = [k \in Ends |-> 0]
  /\ UNCHANGED <<now, network, wrote, left, net, routing, store, updates>>

Lose(from, n) ==
  /\ from # n
  /\ net[<<from, n>>] # <<>>
  /\ Fault("losses")
  /\ net' = [net EXCEPT ![<<from, n>>] = Tail(@)]
  /\ UNCHANGED <<now, network, tree, wrote, routing, store, updates>>

-----------------------------------------------------------------------------

Init ==
  /\ now = 1
  /\ left \in Scenarios
  /\ network = left.start
  /\ tree = [n \in Node |-> network.parent]
  /\ net = [pair \in Node \X Node |-> <<>>]
  /\ path = [n \in Ends |-> None]
  /\ rumor = [n \in Ends |-> None]
  /\ keyInfo = [n \in Ends |-> None]
  /\ buffer = [n \in Ends |-> [kind \in Kinds |-> None]]
  /\ updates = [n \in Ends |-> 0]
  /\ wrote = [n \in Ends |-> FALSE]
  /\ tries = [n \in Ends |-> 0]

Next ==
  \/ Tick \/ Delay \/ Move
  \/ \E n \in Node : Learn(n)
  \/ \E n, from \in Node : Handle(from, n) \/ Lose(from, n)
  \/ \E n \in Ends : Update(n) \/ PathTimeout(n) \/ RumorTimeout(n) \/ KeyTimeout(n)
  \/ \E n \in Ends, kind \in Kinds : WritePC(n, kind) \/ BufferTimeout(n, kind)

Spec == Init /\ [][Next]_vars

-----------------------------------------------------------------------------
(* Properties *)

\* Packets get through again.  Once all routers know the tree, no more than
\* MaxTries packets in a row are lost, whatever path, rumor or key the ends held
\* and whichever messages were lost or late before: a path that leads nowhere is
\* reported broken and looked up again, the packet of the rumor or of the path is
\* sent again when the answer comes, and what went wrong times out
\* (_handleTraffic, _handleBroken, _handleNotify, keyStore.update).
Heals == \A n \in Ends : tries[n] <= MaxTries

\* Greedy forwarding does not loop, not even while routers know different trees:
\* no router sends a message on that it has sent on before with the same knowledge
\* of the tree (the watermark of _lookup).
LoopFree ==
  \A pair \in DOMAIN net : \A i \in DOMAIN net[pair] :
    LET m == net[pair][i]
        n == pair[2]
    IN  (m.type \in {"traffic", "notify", "broken"} /\ pair[1] # n)
          => (<<n, tree[n]>> \in m.trail => Ended(n, m))

====
