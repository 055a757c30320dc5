------------------------------ MODULE FairQueue ------------------------------
(***************************************************************************)
(* What packetQueue promises in its comments: a queue across streams, each *)
(* with a source and a destination, that gives out the oldest packet of    *)
(* all, and makes room by dropping the oldest packet of the longest stream *)
(* to the largest destination.                                             *)
(***************************************************************************)
EXTENDS Naturals, FiniteSetsExt

CONSTANTS Source, Dest, Size

VARIABLES
  packets,  \* the packets in the queue, each with a time of its own
  clock     \* the time of the last packet

vars == <<packets, clock>>

SizeOf(p) == p.size
Volume(P) == MapThenSumSet(SizeOf, P)
To(d) == {p \in packets : p.dest = d}
Stream(s, d) == {p \in To(d) : p.source = s}

Oldest(p, P) == p \in P /\ \A q \in P : p.time <= q.time

Init == packets = {} /\ clock = 0

Push(s, d, size) ==
  /\ clock' = clock + 1
  /\ packets' = packets \cup
       {[time |-> clock', size |-> size, source |-> s, dest |-> d]}

Pop ==
  /\ \E p \in packets : Oldest(p, packets) /\ packets' = packets \ {p}
  /\ UNCHANGED clock

Drop ==
  /\ \E d \in Dest, s \in Source :
       /\ \A e \in Dest : Volume(To(e)) <= Volume(To(d))
       /\ \A t \in Source : Volume(Stream(t, d)) <= Volume(Stream(s, d))
       /\ \E p \in packets : Oldest(p, Stream(s, d)) /\ packets' = packets \ {p}
  /\ UNCHANGED clock

Next ==
  \/ \E s \in Source, d \in Dest, size \in Size : Push(s, d, size)
  \/ Pop
  \/ Drop

Spec == Init /\ [][Next]_vars
=============================================================================
