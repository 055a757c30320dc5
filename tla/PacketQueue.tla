----------------------------- MODULE PacketQueue -----------------------------
(***************************************************************************)
(* The queue of packetqueue.go as it is built: a heap of destinations,     *)
(* each a heap of sources, each a FIFO of packets, ordered by the time of  *)
(* the packet at its head, with the sizes kept at every level.  The heap   *)
(* operations are those of container/heap.                                 *)
(***************************************************************************)
EXTENDS Naturals, Sequences, SequencesExt

CONSTANTS
  Source, Dest, Size,
  MaxPush     \* bound: packets pushed in a behaviour

ASSUME PacketQueueAssumption == Size \subseteq Nat \ {0} /\ MaxPush \in Nat

VARIABLES
  dests,   \* q.dests
  size,    \* q.size
  clock    \* the time of the last packet

vars == <<dests, size, clock>>

Init == dests = <<>> /\ size = 0 /\ clock = 0

-----------------------------------------------------------------------------
(* container/heap, on a sequence of destinations or of sources *)

\* The time that Less compares: that of the packet at the head.
HeadTime(x) ==
  IF "sources" \in DOMAIN x THEN x.sources[1].infos[1].time ELSE x.infos[1].time

Less(h, i, j) == HeadTime(h[i]) < HeadTime(h[j])
Swap(h, i, j) == [h EXCEPT ![i] = h[j], ![j] = h[i]]

RECURSIVE Down(_, _, _)
Down(h, i, n) ==
  LET j == IF 2 * i + 1 <= n /\ Less(h, 2 * i + 1, 2 * i) THEN 2 * i + 1 ELSE 2 * i
  IN  IF 2 * i > n \/ ~Less(h, j, i) THEN h ELSE Down(Swap(h, i, j), j, n)

RECURSIVE Up(_, _)
Up(h, j) ==
  LET i == j \div 2
  IN  IF i = 0 \/ ~Less(h, j, i) THEN h ELSE Up(Swap(h, i, j), i)

DownOrUp(h, i, n) == LET d == Down(h, i, n) IN IF d = h THEN Up(h, i) ELSE d

HeapFix(h, i) == DownOrUp(h, i, Len(h))

HeapRemove(h, i) ==
  LET n == Len(h)
  IN  Front(IF i = n THEN h ELSE DownOrUp(Swap(h, i, n), i, n - 1))

-----------------------------------------------------------------------------

\* The index of the element with a key, or one past the end.
IndexOfKey(h, k) ==
  IF \E i \in DOMAIN h : h[i].key = k
    THEN CHOOSE i \in DOMAIN h : h[i].key = k
    ELSE Len(h) + 1

\* The element with a key, or an empty one; and a sequence with it put back.
Get(h, k, empty) == IF IndexOfKey(h, k) \in DOMAIN h THEN h[IndexOfKey(h, k)] ELSE empty
Put(h, x) ==
  IF IndexOfKey(h, x.key) \in DOMAIN h
    THEN [h EXCEPT ![IndexOfKey(h, x.key)] = x]
    ELSE Append(h, x)

\* Mutant: the total is not updated.
Total_Mutant(sz) == size

Total(sz) == size + sz

Push(s, d, sz) ==
  LET dest == Get(dests, d, [key |-> d, sources |-> <<>>, size |-> 0])
      source == Get(dest.sources, s, [key |-> s, infos |-> <<>>, size |-> 0])
      added == [source EXCEPT !.infos = Append(@, [time |-> clock', size |-> sz]),
                              !.size = @ + sz]
  IN  /\ clock < MaxPush
      /\ clock' = clock + 1
      /\ dests' = Put(dests, [dest EXCEPT !.sources = Put(@, added), !.size = @ + sz])
      /\ size' = Total(sz)

\* The queue without the packet at the head of source si of destination di.
Take(di, si) ==
  LET dest == dests[di]
      source == dest.sources[si]
      sz == source.infos[1].size
      rest == [source EXCEPT !.infos = Tail(@), !.size = @ - sz]
      sources == [dest.sources EXCEPT ![si] = rest]
      left == [dest EXCEPT !.size = @ - sz,
                           !.sources = IF rest.infos # <<>> THEN HeapFix(sources, si)
                                                            ELSE HeapRemove(sources, si)]
      all == [dests EXCEPT ![di] = left]
  IN  /\ dests' = IF left.sources # <<>> THEN HeapFix(all, di) ELSE HeapRemove(all, di)
      /\ size' = size - sz

Pop ==
  /\ size > 0
  /\ Take(1, 1)
  /\ UNCHANGED clock

\* The first of the largest elements.
Largest(h) ==
  CHOOSE i \in DOMAIN h : /\ \A j \in DOMAIN h : h[j].size <= h[i].size
                          /\ \A j \in DOMAIN h : j < i => h[j].size < h[i].size

\* Mutant: the destination is the one with the oldest packet.
Drop_Mutant ==
  /\ size > 0
  /\ Take(1, Largest(dests[1].sources))
  /\ UNCHANGED clock

Drop ==
  /\ size > 0
  /\ LET di == Largest(dests) IN Take(di, Largest(dests[di].sources))
  /\ UNCHANGED clock

Next ==
  \/ \E s \in Source, d \in Dest, sz \in Size : Push(s, d, sz)
  \/ Pop
  \/ Drop

Spec == Init /\ [][Next]_vars

-----------------------------------------------------------------------------
(* Properties *)

Sum(s) == FoldLeft(LAMBDA a, x : a + x.size, 0, s)

\* The sizes at the three levels add up, so that the tests for zero that decide
\* what is removed say what they mean, and no empty queue is left behind.
SizesAdd ==
  /\ size = Sum(dests)
  /\ \A i \in DOMAIN dests :
       /\ dests[i].size = Sum(dests[i].sources)
       /\ dests[i].sources # <<>>
       /\ \A j \in DOMAIN dests[i].sources :
            /\ dests[i].sources[j].size = Sum(dests[i].sources[j].infos)
            /\ dests[i].sources[j].infos # <<>>

\* The refinement mapping: the packets in the nested heaps, as a set.
Contents ==
  LET Of(d, s) == {[time |-> s.infos[k].time, size |-> s.infos[k].size,
                    source |-> s.key, dest |-> d.key] : k \in DOMAIN s.infos}
      To(d) == UNION {Of(d, d.sources[j]) : j \in DOMAIN d.sources}
  IN  UNION {To(dests[i]) : i \in DOMAIN dests}

Abstract == INSTANCE FairQueue WITH packets <- Contents, clock <- clock

\* The queue implements FairQueue: pop takes the oldest packet of all, drop the
\* oldest of the longest stream to the largest destination, and no operation
\* loses, invents or reorders anything else.
Implements == Abstract!Spec
=============================================================================
