------------------------------ MODULE Keepalive ------------------------------
(***************************************************************************)
(* The peerMonitor actors at the two ends of a connection                  *)
(* (ironwood/network/peers.go): a read deadline is set when traffic is     *)
(* sent, and cleared when anything is received; an end that receives       *)
(* traffic and sends nothing for a while sends a keepalive.                *)
(*                                                                         *)
(* Time passes in ticks.  Actors are fast: a tick waits until the monitors *)
(* have processed their messages and what is due has happened.  The        *)
(* network delivers in order, within MaxDelay ticks.  Packets are "data"   *)
(* or "keepalive"; an end may send data once in a tick.                    *)
(***************************************************************************)
EXTENDS Integers, Sequences

CONSTANTS
  PeerTimeout,     \* config.peerTimeout, in ticks
  KeepAliveDelay,  \* config.peerKeepAliveDelay
  MaxDelay,        \* the longest delay of the network
  MayCrash         \* ends that may crash

\* The acknowledgement of the first packet is due before the deadline.
ASSUME KeepaliveAssumption ==
  /\ KeepAliveDelay \in Nat \ {0} /\ MaxDelay \in Nat
  /\ MayCrash \subseteq {1, 2}
  /\ PeerTimeout \in Nat /\ KeepAliveDelay + 2 * MaxDelay < PeerTimeout

End == {1, 2}
Other(e) == 3 - e
None == -1     \* no timer, no deadline
Fired == -2    \* a timer that fired and was not cleared yet

VARIABLES
  deadlined,  \* m.deadlined
  deadline,   \* ticks to the read deadline of the connection, or None
  timer,      \* ticks to the keepAliveTimer, or None or Fired
  inbox,      \* the monitor's messages: <<operation, packet>>
  net,        \* the packets on their way to each end: <<packet, age>>
  mayS,       \* the end may still send data in this tick
  crashed,    \* the end is gone without a word
  timedOut    \* the end's read failed at its deadline

vars == <<deadlined, deadline, timer, inbox, net, mayS, crashed, timedOut>>
monitor == <<deadlined, deadline, timer>>

Init ==
  /\ deadlined = [e \in End |-> FALSE]
  /\ deadline = [e \in End |-> None]
  /\ timer = [e \in End |-> None]
  /\ inbox = [e \in End |-> <<>>]
  /\ net = [e \in End |-> <<>>]
  /\ mayS = [e \in End |-> TRUE]
  /\ crashed = [e \in End |-> FALSE]
  /\ timedOut = [e \in End |-> FALSE]

Up(e) == ~crashed[e] /\ ~timedOut[e]

\* What is left of an end that is gone.
Clear(e) ==
  /\ inbox' = [inbox EXCEPT ![e] = <<>>]
  /\ net' = [net EXCEPT ![e] = <<>>]
  /\ deadline' = [deadline EXCEPT ![e] = None]
  /\ timer' = [timer EXCEPT ![e] = None]
  /\ deadlined' = [deadlined EXCEPT ![e] = FALSE]
  /\ mayS' = [mayS EXCEPT ![e] = FALSE]

-----------------------------------------------------------------------------

\* peerWriter._write tells the monitor first.
Write(e, p, messages) ==
  /\ inbox' = [inbox EXCEPT ![e] = Append(messages, <<"sent", p>>)]
  /\ net' = IF Up(Other(e)) THEN [net EXCEPT ![Other(e)] = Append(@, <<p, 0>>)] ELSE net

SendData(e) ==
  /\ Up(e) /\ mayS[e]
  /\ mayS' = [mayS EXCEPT ![e] = FALSE]
  /\ Write(e, "data", inbox[e])
  /\ UNCHANGED <<monitor, crashed, timedOut>>

\* handler reads a packet, _handlePacket tells the monitor.
Read(e) ==
  /\ Up(e) /\ net[e] # <<>>
  /\ net' = [net EXCEPT ![e] = Tail(@)]
  /\ inbox' = [inbox EXCEPT ![e] = Append(@, <<"recv", Head(net[e])[1]>>)]
  /\ UNCHANGED <<monitor, mayS, crashed, timedOut>>

TimerFires(e) ==
  /\ Up(e) /\ timer[e] = 0
  /\ timer' = [timer EXCEPT ![e] = Fired]
  /\ inbox' = [inbox EXCEPT ![e] = Append(@, <<"keepalive", "keepalive">>)]
  /\ UNCHANGED <<deadlined, deadline, net, mayS, crashed, timedOut>>

\* The read deadline passes.
ReadFails(e) ==
  /\ Up(e) /\ deadline[e] = 0
  /\ timedOut' = [timedOut EXCEPT ![e] = TRUE]
  /\ Clear(e)
  /\ UNCHANGED crashed

-----------------------------------------------------------------------------
(* The monitor's handlers; p is the type of the packet *)

KeepAlive(e) ==
  /\ Write(e, "keepalive", Tail(inbox[e]))
  /\ UNCHANGED monitor

\* Mutant: every packet sent moves the deadline.
Sent_Mutant(e, p) ==
  /\ timer' = [timer EXCEPT ![e] = None]
  /\ IF p # "data"
       THEN UNCHANGED <<deadline, deadlined>>
       ELSE /\ deadline' = [deadline EXCEPT ![e] = PeerTimeout]
            /\ deadlined' = [deadlined EXCEPT ![e] = TRUE]

Sent(e, p) ==
  /\ timer' = [timer EXCEPT ![e] = None]
  /\ IF deadlined[e] \/ p # "data"
       THEN UNCHANGED <<deadline, deadlined>>
       ELSE /\ deadline' = [deadline EXCEPT ![e] = PeerTimeout]
            /\ deadlined' = [deadlined EXCEPT ![e] = TRUE]

\* Mutant: the timer is started anew by every packet.
Recv_Mutant(e, p) ==
  /\ deadline' = [deadline EXCEPT ![e] = None]
  /\ deadlined' = [deadlined EXCEPT ![e] = FALSE]
  /\ timer' = IF p = "data" THEN [timer EXCEPT ![e] = KeepAliveDelay] ELSE timer

Recv(e, p) ==
  /\ deadline' = [deadline EXCEPT ![e] = None]
  /\ deadlined' = [deadlined EXCEPT ![e] = FALSE]
  /\ timer' = IF timer[e] = None /\ p = "data"
                THEN [timer EXCEPT ![e] = KeepAliveDelay]
                ELSE timer

MonitorStep(e) ==
  /\ Up(e) /\ inbox[e] # <<>>
  /\ LET m == Head(inbox[e])
     IN  \/ m[1] = "keepalive" /\ KeepAlive(e)
         \/ /\ m[1] # "keepalive"
            /\ inbox' = [inbox EXCEPT ![e] = Tail(@)]
            /\ UNCHANGED net
            /\ \/ m[1] = "sent" /\ Sent(e, m[2])
               \/ m[1] = "recv" /\ Recv(e, m[2])
  /\ UNCHANGED <<mayS, crashed, timedOut>>

-----------------------------------------------------------------------------

Older(s) == [i \in DOMAIN s |-> <<s[i][1], s[i][2] + 1>>]
Sooner(t) == IF t > 0 THEN t - 1 ELSE t

\* Nothing is due: the packet that has been on its way the longest is read
\* before it is too old, timers that reach 0 have fired.
Tick ==
  /\ \A e \in End : Up(e) =>
       /\ inbox[e] = <<>>
       /\ timer[e] # 0 /\ deadline[e] # 0
       /\ net[e] # <<>> => Head(net[e])[2] < MaxDelay
  /\ timer' = [e \in End |-> Sooner(timer[e])]
  /\ deadline' = [e \in End |-> Sooner(deadline[e])]
  /\ net' = [e \in End |-> Older(net[e])]
  /\ mayS' = [e \in End |-> Up(e)]
  /\ UNCHANGED <<deadlined, inbox, crashed, timedOut>>

Crash(e) ==
  /\ Up(e) /\ e \in MayCrash
  /\ crashed' = [crashed EXCEPT ![e] = TRUE]
  /\ Clear(e)
  /\ UNCHANGED timedOut

Due(e) == Read(e) \/ TimerFires(e) \/ ReadFails(e) \/ MonitorStep(e)

Next ==
  \/ \E e \in End : SendData(e) \/ Crash(e) \/ Due(e)
  \/ Tick

Spec == Init /\ [][Next]_vars

\* Time passes, and what is due happens.
FairSpec ==
  /\ Spec
  /\ WF_vars(Tick)
  /\ \A e \in End : WF_vars(Due(e))

-----------------------------------------------------------------------------
(* Properties *)

\* A connection whose ends both work is never given up, whatever traffic they
\* send or do not send: each sends something, in time, to clear the deadline
\* that the other has set.
NoFalseTimeout ==
  (\A e \in End : ~crashed[e]) => \A e \in End : ~timedOut[e]

\* An end that waits for an answer from an end that is gone gives up, also when
\* it goes on sending.
GoneIsNoticed ==
  \A e \in End :
    (crashed[Other(e)] /\ deadlined[e] /\ net[e] = <<>> /\ inbox[e] = <<>>)
      ~> ~Up(e)
=============================================================================
