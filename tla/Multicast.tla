------------------------------ MODULE Multicast ------------------------------
(***************************************************************************)
(* Peer discovery on a local network (src/multicast/multicast.go): nodes   *)
(* that each have an actor, which looks at the interfaces every second or  *)
(* two, keeps a TLS listener on them and sends beacons with its port, and  *)
(* a goroutine, which reads the beacons of others and calls them.          *)
(*                                                                         *)
(* Every node has one interface, with a set of link-local addresses that   *)
(* is empty while the interface cannot be used.  A beacon's hash is the    *)
(* password that it hashes with the key.  Time is counted down in seconds. *)
(***************************************************************************)
EXTENDS Integers, Sequences, FiniteSets, FiniteSetsExt

CONSTANTS
  Node,          \* the nodes on the network
  AddressSets,   \* sets of link-local addresses that an interface may have
  InitialAddrs,  \* the one it has first
  Scenarios,     \* configurations of the nodes, with what may happen to them
  MaxInterval,   \* seconds between beacons, at most (15 in the code)
  MaxDelay,      \* seconds between two looks, at most (about 2 in the code)
  None           \* no interface, no listener, no timer

ASSUME MulticastAssumption ==
  /\ \A s \in Scenarios :
       /\ s.config \in [Node -> [beacon : BOOLEAN, listen : BOOLEAN, password : Nat]]
       /\ s.left \in [faults : Nat, calls : Nat, stops : Nat]
  /\ MaxInterval \in Nat /\ MaxDelay \in Nat

Off == -1  \* a timer that went off or was stopped

VARIABLES
  config,      \* what each node is configured to do
  addrs,       \* the addresses of its interface
  running,     \* m.running
  inbox,       \* what its actor has been asked to do
  stuck,       \* its actor waits for ever
  interfaces,  \* m._interfaces: the addresses that the actor knows, or None
  listener,    \* m._listeners: the listener on the interface, or None
  port,        \* the last port that it was given
  timer,       \* seconds until m._timer goes off
  joined,      \* its socket is in the multicast group
  reader,      \* where its listen goroutine is, and with which beacon
  heard,       \* beacons that have come to its socket
  links,       \* the links it called, and whether they are up
  silence,     \* seconds since its last beacon, or since it could not send any
  left         \* bounds: faults and changes of interfaces, calls of AnnounceNow
               \* and of Stop that may still come

actor == <<running, inbox, stuck, interfaces, listener, port, timer, joined, silence>>
vars == <<config, addrs, actor, reader, heard, links, left>>

Fault == left.faults > 0 /\ left' = [left EXCEPT !.faults = @ - 1]

Init ==
  /\ \E s \in Scenarios : config = s.config /\ left = s.left
  /\ addrs = [n \in Node |-> InitialAddrs]
  /\ running = [n \in Node |-> FALSE]
  /\ inbox = [n \in Node |-> <<"start">>]
  /\ stuck = [n \in Node |-> FALSE]
  /\ interfaces = [n \in Node |-> None]
  /\ listener = [n \in Node |-> None]
  /\ port = [n \in Node |-> 1]
  /\ timer = [n \in Node |-> None]
  /\ joined = [n \in Node |-> FALSE]
  /\ reader = [n \in Node |-> [at |-> "done"]]
  /\ heard = [n \in Node |-> {}]
  /\ links = [n \in Node |-> {}]
  /\ silence = [n \in Node |-> 0]

-----------------------------------------------------------------------------
(* The actor *)

\* The actor is done with the first thing in its inbox, and asked to do more.
Done(n, more) == inbox' = [inbox EXCEPT ![n] = Tail(@) \o more]

Turn(n, what) == ~stuck[n] /\ inbox[n] # <<>> /\ Head(inbox[n]) = what

\* New, _start
Start(n) ==
  /\ Turn(n, "start")
  /\ IF config[n].beacon \/ config[n].listen
     THEN /\ running' = [running EXCEPT ![n] = TRUE]
          /\ reader' = [reader EXCEPT ![n] = [at |-> "reading"]]
          /\ Done(n, <<"announce">>)
     ELSE Done(n, <<>>) /\ UNCHANGED <<running, reader>>
  /\ UNCHANGED <<config, port, addrs, stuck, interfaces, listener, timer, joined, silence, heard,
                 links, left>>

\* Stop, _stop: the socket is closed; the listeners stay.
Stop(n) ==
  /\ Turn(n, "stop")
  /\ running' = [running EXCEPT ![n] = FALSE]
  /\ joined' = [joined EXCEPT ![n] = FALSE]
  /\ heard' = [heard EXCEPT ![n] = {}]
  /\ Done(n, <<>>)
  /\ UNCHANGED <<config, port, addrs, stuck, interfaces, listener, timer, reader, links, silence, left>>

\* _updateInterfaces, _getAllowedInterfaces: the interface, while it is up, with
\* its addresses; none, if the system does not say.
UpdateInterfaces(n) == IF addrs[n] = {} THEN {None} ELSE {addrs[n], None}

\* Mutant: a listener stays while its interface does.
Kept_Mutant(n, known) == IF known = None THEN None ELSE listener[n]

\* A listener is stopped if its interface or its address has gone.
Kept(n, known) ==
  IF listener[n] # None /\ known # None /\ listener[n].addr \in known THEN listener[n] ELSE None

\* Core.ListenLocal, which may fail: a listener on a port of the system's choice.
ListenLocal(n, known) ==
  {None} \cup [addr : known, port : {3 - port[n]}, open : {TRUE}, age : {0}, interval : {0}]

\* The listener of an interface that sends beacons, started if there is none.
Listener(n, known) ==
  IF Kept(n, known) = None /\ known # None /\ config[n].beacon
  THEN ListenLocal(n, known) ELSE {Kept(n, known)}

\* Something went wrong that need not have.
Failed(n, known, linfo) ==
  \/ known = None /\ addrs[n] # {}
  \/ linfo = None /\ known # None /\ config[n].beacon

\* Mutant: the interval grows for ever.
NextInterval_Mutant(interval) == interval + 1

NextInterval(interval) == IF interval < MaxInterval THEN interval + 1 ELSE interval

\* A beacon, with the address that it is sent from.
Advertisement(n, addr, linfo) ==
  [from |-> n, addr |-> addr, port |-> linfo.port, hash |-> config[n].password]

\* A beacon comes, from an address of the system's choice, to all the sockets in
\* the group, the node's own among them.
SendBeacon(n, linfo) ==
  /\ listener' = [listener EXCEPT ![n] =
       [linfo EXCEPT !.age = 0, !.interval = NextInterval(@)]]
  /\ \E addr \in addrs[n] :
       heard' = [p \in Node |->
         IF ~joined'[p] THEN heard[p]
         ELSE heard[p] \cup {Advertisement(n, addr, linfo)}]
  /\ silence' = [silence EXCEPT ![n] = 0]

\* Mutant: nothing tells that the module was stopped.
Stopped_Mutant(n) == FALSE

Stopped(n) == ~running[n]

\* _announce
Announce(n) ==
  /\ Turn(n, "announce")
  /\ Done(n, <<>>)
  /\ \/ Stopped(n) /\ UNCHANGED <<interfaces, listener, port, timer, joined, heard, silence, left>>
     \/ /\ ~Stopped(n)
        /\ \E known \in UpdateInterfaces(n) : \E linfo \in Listener(n, known) :
             /\ interfaces' = [interfaces EXCEPT ![n] = known]
             /\ port' = [port EXCEPT ![n] = IF linfo = None THEN @ ELSE linfo.port]
             /\ joined' = [joined EXCEPT ![n] = @ \/ (known # None /\ config[n].listen)]
             /\ IF Failed(n, known, linfo) THEN Fault ELSE UNCHANGED left
             /\ IF linfo # None /\ linfo.age >= linfo.interval
                THEN SendBeacon(n, linfo)
                ELSE /\ listener' = [listener EXCEPT ![n] = linfo]
                     /\ silence' = [silence EXCEPT ![n] = IF linfo = None THEN 0 ELSE @]
                     /\ UNCHANGED heard
        /\ \E delay \in 1 .. MaxDelay : timer' = [timer EXCEPT ![n] = delay]
  /\ UNCHANGED <<config, addrs, running, stuck, reader, links>>

\* AnnounceNow: a timer that has gone off or was stopped has no channel to read
\* from, and the actor waits for ever.
AnnounceNow(n) ==
  /\ Turn(n, "announcenow")
  /\ \/ /\ timer[n] = Off
        /\ stuck' = [stuck EXCEPT ![n] = TRUE]
        /\ UNCHANGED <<inbox, timer>>
     \/ /\ timer[n] # Off
        /\ timer' = [timer EXCEPT ![n] = IF @ = None THEN None ELSE Off]
        /\ Done(n, <<"announce">>)
        /\ UNCHANGED stuck
  /\ UNCHANGED <<config, port, addrs, running, interfaces, listener, joined, reader, heard, links,
                 silence, left>>

\* What listen asks for.
Interfaces(n) ==
  /\ Turn(n, "interfaces")
  /\ reader' = [reader EXCEPT ![n] = [at |-> "calling", beacon |-> @.beacon,
                                      known |-> interfaces[n]]]
  /\ Done(n, <<>>)
  /\ UNCHANGED <<config, port, addrs, running, stuck, interfaces, listener, timer, joined, heard,
                 links, silence, left>>

Actor(n) == Start(n) \/ Stop(n) \/ Announce(n) \/ AnnounceNow(n) \/ Interfaces(n)

\* Somebody calls Stop or AnnounceNow, and waits for the actor.
Call(n, what) ==
  /\ inbox[n] # <<>> => Head(inbox[n]) # "start"
  /\ \A i \in DOMAIN inbox[n] : inbox[n][i] # what
  /\ \/ /\ what = "stop" /\ running[n] /\ left.stops > 0
        /\ left' = [left EXCEPT !.stops = @ - 1]
     \/ /\ what = "announcenow" /\ left.calls > 0
        /\ left' = [left EXCEPT !.calls = @ - 1]
  /\ inbox' = [inbox EXCEPT ![n] = Append(@, what)]
  /\ UNCHANGED <<config, port, addrs, running, stuck, interfaces, listener, timer, joined, reader,
                 heard, links, silence>>

TimerFires(n) ==
  /\ timer[n] = 0
  /\ timer' = [timer EXCEPT ![n] = Off]
  /\ inbox' = [inbox EXCEPT ![n] = Append(@, "announce")]
  /\ UNCHANGED <<config, port, addrs, running, stuck, interfaces, listener, joined, reader, heard,
                 links, silence, left>>

-----------------------------------------------------------------------------
(* The goroutine that listens for beacons *)

\* A beacon that is not the node's own: the actor is asked for the interfaces.
ReadFrom(n, m) ==
  /\ reader[n].at = "reading" /\ running[n] /\ m \in heard[n]
  /\ heard' = [heard EXCEPT ![n] = @ \ {m}]
  /\ \/ m.from = n /\ UNCHANGED <<reader, inbox>>
     \/ /\ m.from # n
        /\ reader' = [reader EXCEPT ![n] = [at |-> "asking", beacon |-> m]]
        /\ inbox' = [inbox EXCEPT ![n] = Append(@, "interfaces")]
  /\ UNCHANGED <<config, port, addrs, running, stuck, interfaces, listener, timer, joined, links,
                 silence, left>>

\* The node that the beacon is from is called, if it has the same password, on an
\* interface that listens.
CallPeer(n) ==
  LET m == reader[n].beacon
      link == [to |-> m.from, addr |-> m.addr, port |-> m.port]
  IN  /\ reader[n].at = "calling"
      /\ reader' = [reader EXCEPT ![n] = [at |-> "reading"]]
      /\ \/ /\ reader[n].known # None /\ config[n].listen /\ m.hash = config[n].password
            /\ links' = [links EXCEPT ![n] =
                 IF \E up \in BOOLEAN : [l |-> link, up |-> up] \in @ THEN @
                 ELSE @ \cup {[l |-> link, up |-> FALSE]}]
         \/ /\ ~(reader[n].known # None /\ config[n].listen /\ m.hash = config[n].password)
            /\ UNCHANGED links
      /\ UNCHANGED <<config, addrs, actor, heard, left>>

ListenEnds(n) ==
  /\ reader[n].at = "reading" /\ ~running[n]
  /\ reader' = [reader EXCEPT ![n] = [at |-> "done"]]
  /\ UNCHANGED <<config, addrs, actor, heard, links, left>>

Reader(n) == (\E m \in heard[n] : ReadFrom(n, m)) \/ CallPeer(n) \/ ListenEnds(n)

-----------------------------------------------------------------------------
(* Links, the network and time *)

\* A connection to where a link goes can work.
Works(n, link) == addrs[n] # {} /\ link.l.addr \in addrs[link.l.to]

\* Whether somebody listens there.
Answers(link) ==
  LET linfo == listener[link.l.to]
  IN  linfo # None /\ linfo.open /\ linfo.addr = link.l.addr /\ linfo.port = link.l.port

\* The link is connected, or given up.
Dial(n, link) ==
  /\ link \in links[n] /\ ~link.up
  /\ \/ /\ Works(n, link) /\ Answers(link)
        /\ links' = [links EXCEPT ![n] = (@ \ {link}) \cup {[link EXCEPT !.up = TRUE]}]
        /\ UNCHANGED left
     \/ /\ links' = [links EXCEPT ![n] = @ \ {link}]
        /\ IF Works(n, link) /\ Answers(link) THEN Fault ELSE UNCHANGED left
  /\ UNCHANGED <<config, addrs, actor, reader, heard>>

\* An ephemeral link ends with its connection.
LinkLost(n, link) ==
  /\ link \in links[n] /\ link.up /\ ~Works(n, link)
  /\ links' = [links EXCEPT ![n] = @ \ {link}]
  /\ UNCHANGED <<config, addrs, actor, reader, heard, left>>

\* The addresses of an interface change, or it goes down or comes up.
Change(n, new) ==
  /\ Fault
  /\ addrs[n] # new
  /\ addrs' = [addrs EXCEPT ![n] = new]
  /\ joined' = [joined EXCEPT ![n] = @ /\ new # {}]
  /\ silence' = [silence EXCEPT ![n] = 0]
  /\ UNCHANGED <<config, port, running, inbox, stuck, interfaces, listener, timer, reader, heard,
                 links>>

\* The listener's Accept fails, which ends it without multicast's knowledge.
AcceptFails(n) ==
  /\ Fault
  /\ listener[n] # None /\ listener[n].open
  /\ listener' = [listener EXCEPT ![n].open = FALSE]
  /\ UNCHANGED <<config, port, addrs, running, inbox, stuck, interfaces, timer, joined, reader, heard,
                 links, silence>>

Lose(n, m) ==
  /\ Fault
  /\ m \in heard[n]
  /\ heard' = [heard EXCEPT ![n] = @ \ {m}]
  /\ UNCHANGED <<config, addrs, actor, reader, links>>

\* Nothing keeps a node from sending beacons.
Able(n) == running[n] /\ ~stuck[n] /\ config[n].beacon /\ addrs[n] # {}

\* A second passes, when actors and goroutines are done with what they have to do.
Tick ==
  /\ \A n \in Node :
       /\ timer[n] # 0
       /\ ~stuck[n] => inbox[n] = <<>>
       /\ reader[n].at = "reading" => running[n] /\ heard[n] = {}
       /\ reader[n].at # "calling"
  /\ timer' = [n \in Node |-> IF timer[n] \in 1 .. MaxDelay THEN timer[n] - 1 ELSE timer[n]]
  /\ listener' = [n \in Node |-> IF listener[n] = None THEN None
       ELSE [listener[n] EXCEPT !.age = Min({@ + 1, MaxInterval})]]
  /\ silence' = [n \in Node |->
       IF Able(n) THEN Min({silence[n] + 1, MaxInterval + MaxDelay + 1}) ELSE 0]
  /\ UNCHANGED <<config, port, addrs, running, inbox, stuck, interfaces, joined, reader, heard, links,
                 left>>

Next ==
  \/ \E n \in Node :
       \/ Actor(n) \/ Call(n, "stop") \/ Call(n, "announcenow") \/ TimerFires(n) \/ Reader(n)
       \/ AcceptFails(n)
       \/ \E new \in AddressSets : Change(n, new)
       \/ \E link \in links[n] : Dial(n, link) \/ LinkLost(n, link)
       \/ \E m \in heard[n] : Lose(n, m)
  \/ Tick

Spec == Init /\ [][Next]_vars

\* Actors, goroutines and timers run; dials and dead connections end.
FairSpec ==
  /\ Spec
  /\ WF_vars(Tick)
  /\ \A n \in Node :
       /\ WF_vars(Actor(n))
       /\ WF_vars(TimerFires(n))
       /\ WF_vars(Reader(n))
       /\ WF_vars(\E link \in links[n] : Dial(n, link) \/ LinkLost(n, link))

-----------------------------------------------------------------------------
(* Properties *)

\* Nothing keeps the beacons of p from n.
Meets(n, p) ==
  /\ running[n] /\ ~stuck[n] /\ config[n].listen /\ addrs[n] # {}
  /\ Able(p) /\ config[n].password = config[p].password
  /\ listener[p] # None => listener[p].open

Linked(n, p) == \E link \in links[n] : link.up /\ link.l.to = p

\* Discovery works: while node p sends beacons, node n listens for them with the
\* same password and nothing keeps them from it, n gets a connection to p in the
\* end, though interfaces have come and gone, addresses have changed under a
\* listener, beacons were lost or arrived after their port was closed, and the
\* dialled links failed.  It takes that _announce replaces a listener whose
\* address has gone.
Discovers == \A n \in Node : \A p \in Node \ {n} : Meets(n, p) ~> (Linked(n, p) \/ ~Meets(n, p))

\* A node that can send beacons is never silent for longer than the longest
\* interval and the longest time between two looks, whatever restarts, stops and
\* changes there were.
Audible == \A n \in Node : silence[n] < MaxInterval + MaxDelay

\* Stop ends the node's part for good: its goroutine ends, though it may just be
\* dealing with a beacon, and no timer is set any more, though a look at the
\* interfaces may be due; unless the actor is stuck in AnnounceNow.
StopEnds ==
  \A n \in Node :
    (\E i \in DOMAIN inbox[n] : inbox[n][i] = "stop")
      ~> (stuck[n] \/ [](~running[n] /\ reader[n].at = "done" /\ timer[n] \notin 0 .. MaxDelay))
=============================================================================
