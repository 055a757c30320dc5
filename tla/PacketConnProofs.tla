--------------------------- MODULE PacketConnProofs ---------------------------
(***************************************************************************)
(* What TLAPS proves about PacketConn, for any number of packets, reads    *)
(* and deadlines: a deadline that was replaced does not expire, packets    *)
(* are returned in the order of their arrival, and doPop's panic takes a   *)
(* read that timed out.                                                    *)
(***************************************************************************)
EXTENDS PacketConn, SequenceTheorems, TLAPS

Packet == Nat \ {Pop}

Types ==
  /\ inbox \in Seq(Nat)
  /\ recvq \in Seq(Packet)
  /\ recv \in Seq(Packet) /\ Len(recv) <= 1
  /\ recvReady \in Nat
  /\ closed \in BOOLEAN
  /\ arrived \in Nat
  /\ reading \in [Reader -> Nat]
  /\ returned \in Seq(Packet)
  /\ sets \in 0..MaxSets
  /\ chan \in [0..MaxSets -> Packet]

\* Of the calls of SetReadDeadline only the latest has a Once that is not used
\* up: each call uses up the one of the call before.
Replaced ==
  /\ armed \subseteq 1..sets
  /\ \A n \in 0..MaxSets : n < sets => n \in used

\* Packets are increasing along a sequence; the packets of s are before those
\* of t; none of s is after n.
Increasing(s) == \A i, j \in DOMAIN s : (i < j /\ s[j] # Pop) => s[i] < s[j]
Before(s, t) == \A i \in DOMAIN s, j \in DOMAIN t : t[j] # Pop => s[i] < t[j]
UpTo(s, n) == \A i \in DOMAIN s : s[i] <= n

\* A packet goes from the inbox to the queue to the channel to the caller, and
\* each of these holds only older packets than the one before.  Nothing is
\* queued while someone waits, so going round the queue overtakes nothing.
Older ==
  /\ Increasing(returned) /\ Increasing(recvq) /\ Increasing(inbox)
  /\ Before(returned, recv) /\ Before(returned, recvq) /\ Before(returned, inbox)
  /\ Before(recv, recvq) /\ Before(recv, inbox)
  /\ Before(recvq, inbox)
  /\ UpTo(returned, arrived) /\ UpTo(recv, arrived) /\ UpTo(recvq, arrived) /\ UpTo(inbox, arrived)
  /\ recvReady > 0 => recvq = <<>>

\* While reads neither time out nor end by Close, the one ReadFrom there is
\* has one pop: in the inbox, counted in recvReady, or answered in the channel.
Popping == \E i \in DOMAIN inbox : inbox[i] = Pop

OnePop ==
  (~closed /\ cancelled = {}) =>
    /\ \A i, j \in DOMAIN inbox : (inbox[i] = Pop /\ inbox[j] = Pop) => i = j
    /\ Popping => recvReady = 0 /\ recv = <<>>
    /\ recvReady <= 1
    /\ recvReady = 1 => recv = <<>>
    /\ (\A r \in Reader : reading[r] = 0) => ~Popping /\ recvReady = 0 /\ recv = <<>>

-----------------------------------------------------------------------------
(* Sequences of packets *)

\* What Append does to the places of a sequence.
LEMMA AppendPlaces ==
  ASSUME NEW s \in Seq(Nat), NEW x \in Nat
  PROVE  /\ Append(s, x) \in Seq(Nat)
         /\ DOMAIN Append(s, x) = DOMAIN s \cup {Len(s) + 1}
         /\ \A i \in DOMAIN s : i \in Nat /\ i < Len(s) + 1 /\ Append(s, x)[i] = s[i]
         /\ Append(s, x)[Len(s) + 1] = x
  OBVIOUS

\* What Head and Tail do to them.
LEMMA TailPlaces ==
  ASSUME NEW s \in Seq(Nat), s # <<>>
  PROVE  /\ Tail(s) \in Seq(Nat)
         /\ 1 \in DOMAIN s /\ Head(s) = s[1] /\ Head(s) \in Nat
         /\ \A i \in DOMAIN Tail(s) : i \in Nat /\ 1 < i + 1 /\ i + 1 \in DOMAIN s
                                        /\ Tail(s)[i] = s[i + 1]
  OBVIOUS

\* Without its first packet a sequence keeps its place among the others.
LEMMA TailOrder ==
  ASSUME NEW s \in Seq(Nat), s # <<>>, NEW t \in Seq(Nat)
  PROVE  /\ Increasing(s) => Increasing(Tail(s))
         /\ Before(s, t) => Before(Tail(s), t)
         /\ Before(t, s) => Before(t, Tail(s))
         /\ \A n \in Nat : UpTo(s, n) => UpTo(Tail(s), n)
  BY TailPlaces DEF Increasing, Before, UpTo

\* The first packet alone does, too, and is before the rest.
LEMMA HeadOrder ==
  ASSUME NEW s \in Seq(Nat), s # <<>>, NEW t \in Seq(Nat)
  PROVE  /\ Increasing(s) => Before(<<Head(s)>>, Tail(s))
         /\ Before(s, t) => Before(<<Head(s)>>, t)
         /\ Before(t, s) => Before(t, <<Head(s)>>)
         /\ \A n \in Nat : UpTo(s, n) => UpTo(<<Head(s)>>, n)
  <1>1. DOMAIN <<Head(s)>> = {1} /\ <<Head(s)>>[1] = s[1] /\ 1 \in DOMAIN s
    BY TailPlaces
  <1>2. QED
    BY <1>1, TailPlaces DEF Increasing, Before, UpTo

\* A packet at the end of a sequence.
LEMMA AppendOrder ==
  ASSUME NEW s \in Seq(Nat), NEW x \in Nat, NEW t \in Seq(Nat)
  PROVE  /\ Increasing(s) /\ Before(s, <<x>>) => Increasing(Append(s, x))
         /\ Before(s, t) /\ Before(<<x>>, t) => Before(Append(s, x), t)
         /\ Before(t, s) /\ Before(t, <<x>>) => Before(t, Append(s, x))
         /\ \A n \in Nat : UpTo(s, n) /\ UpTo(<<x>>, n) => UpTo(Append(s, x), n)
  <1>1. DOMAIN <<x>> = {1} /\ <<x>>[1] = x
    OBVIOUS
  <1>2. QED
    BY <1>1, AppendPlaces, SMTT(30) DEF Increasing, Before, UpTo

\* An empty sequence, a newer packet and a pop fit anywhere.
LEMMA TrivialOrder ==
  ASSUME NEW t \in Seq(Nat), NEW n \in Nat, UpTo(t, n)
  PROVE  /\ Increasing(<<>>) /\ Before(<<>>, t) /\ Before(t, <<>>) /\ UpTo(<<>>, n)
         /\ Before(t, <<n + 1>>) /\ UpTo(<<n + 1>>, n + 1)
         /\ Before(t, <<Pop>>) /\ UpTo(<<Pop>>, n)
         /\ UpTo(t, n + 1)
  <1>1. \A x \in Nat : DOMAIN <<x>> = {1} /\ <<x>>[1] = x
    OBVIOUS
  <1>2. DOMAIN <<>> = {} /\ \A i \in DOMAIN t : t[i] \in Nat
    OBVIOUS
  <1>3. Pop \in Nat /\ Pop <= n /\ n + 1 \in Nat
    BY DEF Pop
  <1>4. QED
    BY <1>1, <1>2, <1>3 DEF Increasing, Before, UpTo

-----------------------------------------------------------------------------
(* Types and deadlines *)

\* A packet in the inbox is no pop.
LEMMA HeadPacket ==
  ASSUME Types, inbox # <<>>
  PROVE  /\ Head(inbox) \in Nat /\ Tail(inbox) \in Seq(Nat)
         /\ ~IsPop(Head(inbox)) => Head(inbox) \in Packet
  BY TailPlaces DEF Types, Packet, IsPop

\* Packets stay packets.
LEMMA PacketSeq ==
  ASSUME NEW s \in Seq(Packet), NEW x \in Packet
  PROVE  /\ s \in Seq(Nat) /\ x \in Nat
         /\ Append(s, x) \in Seq(Packet)
         /\ <<x>> \in Seq(Packet) /\ Len(<<x>>) = 1
         /\ s # <<>> => /\ Head(s) \in Packet
                        /\ Tail(s) \in Seq(Packet) /\ Len(Tail(s)) = Len(s) - 1
  <1>1. Packet \subseteq Nat /\ x \in Nat
    BY DEF Packet
  <1>2. s \in Seq(Nat)
    <2>1. PICK n \in Nat : s \in [1..n -> Packet]
      BY SeqDef
    <2>2. s \in [1..n -> Nat]
      BY <1>1, <2>1, ZenonT(30)
    <2>3. QED
      BY <2>2, SeqDef
  <1>3. Append(s, x) \in Seq(Packet)
    OBVIOUS
  <1>4. <<x>> \in Seq(Packet) /\ Len(<<x>>) = 1
    OBVIOUS
  <1>5. s # <<>> => Head(s) \in Packet /\ Tail(s) \in Seq(Packet) /\ Len(Tail(s)) = Len(s) - 1
    OBVIOUS
  <1>6. QED
    BY <1>1, <1>2, <1>3, <1>4, <1>5

\* The ways of HandleTraffic: to a waiting reader, to nobody, to the queue, or
\* to the queue in the place of its oldest packet.
LEMMA TrafficCases ==
  ASSUME HandleTraffic
  PROVE  LET x == Head(inbox)
         IN  \/ SendNow /\ recv = <<>> /\ recv' = <<x>> /\ recvReady' = recvReady - 1 /\ recvq' = recvq
             \/ recv' = recv /\ recvReady' = recvReady /\ recvq' = recvq
             \/ ~SendNow /\ recv' = recv /\ recvReady' = recvReady /\ recvq' = Append(recvq, x)
             \/ /\ ~SendNow /\ recv' = recv /\ recvReady' = recvReady
                /\ recvq # <<>> /\ recvq' = Append(Tail(recvq), x)
  BY DEF HandleTraffic

\* The start has the types.
LEMMA InitInv == Init => Types /\ Replaced /\ Older /\ OnePop
  <1> SUFFICES ASSUME Init PROVE Types /\ Replaced /\ Older /\ OnePop
    OBVIOUS
  <1>1. Types
    BY PacketConnAssumption DEF Init, Types, Packet, Pop
  <1>2. Replaced
    BY PacketConnAssumption DEF Init, Replaced
  <1>3. Older
    BY DEF Init, Older, Increasing, Before, UpTo
  <1>4. OnePop
    BY DEF Init, OnePop, Popping
  <1>5. QED
    BY <1>1, <1>2, <1>3, <1>4

\* Every step keeps the types.
LEMMA TypesStep ==
  ASSUME Types, [Next]_vars
  PROVE  Types'
  <1>1. ASSUME NEW r \in Reader, ReadFrom(r) PROVE Types'
    <2>1. inbox' \in Seq(Nat)
      BY <1>1, AppendPlaces DEF Types, ReadFrom, Pop
    <2>2. reading' \in [Reader -> Nat]
      <3>1. chan[sets] \in Nat
        BY DEF Types, Packet
      <3>2. QED
        BY <1>1, <3>1 DEF Types, ReadFrom
    <2>3. QED
      BY <1>1, <2>1, <2>2 DEF Types, ReadFrom, deadline
  <1>2. ASSUME NEW r \in Reader, ReadPacket(r) PROVE Types'
    <2>1. /\ recv' \in Seq(Packet) /\ Len(recv') <= 1
          /\ returned' \in Seq(Packet)
      BY <1>2, PacketSeq DEF Types, ReadPacket
    <2>2. reading' \in [Reader -> Nat]
      BY <1>2 DEF Types, ReadPacket
    <2>3. QED
      BY <1>2, <2>1, <2>2 DEF Types, ReadPacket, deadline, actor
  <1>3. ASSUME NEW r \in Reader, ReadError(r) PROVE Types'
    BY <1>3 DEF Types, ReadError, deadline, actor, Packet, Pop
  <1>4. CASE Arrive
    BY <1>4 DEF Types, Arrive, deadline
  <1>5. CASE HandleTraffic
    <2>1. inbox' \in Seq(Nat) /\ Head(inbox) \in Packet
      BY <1>5, HeadPacket DEF HandleTraffic
    <2>2. recvq' \in Seq(Packet)
      <3>1. \A s \in Seq(Packet) : Append(s, Head(inbox)) \in Seq(Packet)
        BY <2>1
      <3>2. recvq \in Seq(Packet) /\ (recvq # <<>> => Tail(recvq) \in Seq(Packet))
        BY DEF Types
      <3>3. QED
        BY <1>5, <3>1, <3>2, TrafficCases, Zenon
    <2>3. recv' \in Seq(Packet) /\ Len(recv') <= 1
      <3>1. <<Head(inbox)>> \in Seq(Packet) /\ Len(<<Head(inbox)>>) <= 1
        BY <2>1
      <3>2. QED
        BY <1>5, <3>1, TrafficCases, ZenonT(30) DEF Types
    <2>5. recvReady' \in Nat
      BY <1>5, TrafficCases DEF Types, SendNow
    <2>4. QED
      BY <1>5, <2>1, <2>2, <2>3, <2>5 DEF HandleTraffic, Types, deadline
  <1>6. CASE DoPop
    <2>1. inbox' \in Seq(Nat)
      BY <1>6, HeadPacket DEF DoPop
    <2>2. recvq' \in Seq(Packet) /\ recv' \in Seq(Packet) /\ Len(recv') <= 1
      <3>1. CASE recvq = <<>>
        BY <1>6, <3>1 DEF DoPop, Types
      <3>2. CASE recvq # <<>>
        <4>1. recvq \in Seq(Packet) /\ Head(recvq) \in Packet /\ Tail(recvq) \in Seq(Packet)
          BY <3>2 DEF Types
        <4>2. <<Head(recvq)>> \in Seq(Packet) /\ Len(<<Head(recvq)>>) <= 1
          BY <4>1
        <4>3. QED
          BY <1>6, <3>2, <4>1, <4>2, ZenonT(30) DEF DoPop, Types
      <3>3. QED
        BY <3>1, <3>2
    <2>3. recvReady' \in Nat
      BY <1>6 DEF DoPop, Types
    <2>4. QED
      BY <1>6, <2>1, <2>2, <2>3 DEF DoPop, Types, deadline
  <1>7. ASSUME NEW zero \in BOOLEAN, SetReadDeadline(zero) PROVE Types'
    <2>1. sets' \in 0..MaxSets /\ sets \in 0..MaxSets
      BY <1>7, PacketConnAssumption DEF SetReadDeadline, Types
    <2>2. chan' \in [0..MaxSets -> Packet]
      <3>1. chan[sets] \in Packet
        BY <2>1, ZenonT(30) DEF Types
      <3>2. chan[sets] + 1 \in Packet
        BY <3>1 DEF Packet, Pop
      <3>3. QED
        BY <1>7, <2>1, <3>1, <3>2 DEF SetReadDeadline, Types
    <2>3. QED
      BY <1>7, <2>1, <2>2 DEF SetReadDeadline, Types, actor
  <1>8. ASSUME NEW n \in 1..MaxSets, Fire(n) PROVE Types'
    BY <1>8 DEF Types, Fire, actor
  <1>9. CASE Close
    BY <1>9 DEF Types, Close, actor, deadline
  <1>10. CASE UNCHANGED vars
    BY <1>10 DEF Types, vars
  <1>11. QED
    BY <1>1, <1>2, <1>3, <1>4, <1>5, <1>6, <1>7, <1>8, <1>9, <1>10 DEF Next

\* Nothing but SetReadDeadline and a timer touches the deadline.
LEMMA DeadlineKept ==
  ASSUME [Next]_vars
  PROVE  \/ UNCHANGED deadline
         \/ \E zero \in BOOLEAN : SetReadDeadline(zero)
         \/ \E n \in 1..MaxSets : Fire(n)
  BY ZenonT(30) DEF Next, ReadFrom, ReadPacket, ReadError, Arrive, HandleTraffic, DoPop, Close,
         vars, deadline

\* SetReadDeadline uses up the Once of the call before; a timer uses up its own.
LEMMA ReplacedStep ==
  ASSUME Types, Replaced, [Next]_vars
  PROVE  Replaced'
  <1>1. CASE UNCHANGED deadline
    BY <1>1 DEF Replaced, deadline
  <1>2. ASSUME NEW zero \in BOOLEAN, SetReadDeadline(zero) PROVE Replaced'
    BY <1>2, PacketConnAssumption DEF Types, Replaced, SetReadDeadline, Disarm
  <1>3. ASSUME NEW n \in 1..MaxSets, Fire(n) PROVE Replaced'
    BY <1>3 DEF Types, Replaced, Fire
  <1>4. QED
    BY <1>1, <1>2, <1>3, DeadlineKept

\* Only the timer of the latest call finds its Once unused.
LEMMA LatestStep ==
  ASSUME Types, Replaced, [Next]_vars, cancelled' # cancelled
  PROVE  sets \notin used /\ sets \in used'
  <1>1. PICK n \in 1..MaxSets : Fire(n)
    BY DeadlineKept DEF deadline, SetReadDeadline
  <1>2. n \in armed /\ n \notin used /\ used' = used \cup {n}
    BY <1>1 DEF Fire
  <1>3. n = sets
    BY <1>2, PacketConnAssumption DEF Types, Replaced
  <1>4. QED
    BY <1>2, <1>3

-----------------------------------------------------------------------------
(* The order of the packets *)

\* The four places hold sequences of naturals.
LEMMA NatSeqs ==
  ASSUME Types
  PROVE  /\ inbox \in Seq(Nat) /\ recvq \in Seq(Nat)
         /\ recv \in Seq(Nat) /\ returned \in Seq(Nat) /\ arrived \in Nat
  <1>1. 1 \in Packet
    BY DEF Packet, Pop
  <1>2. QED
    BY <1>1, PacketSeq DEF Types

\* ReadFrom adds a pop to the inbox, which no order is about.
LEMMA OlderReadFrom ==
  ASSUME Types, Older, NEW r \in Reader, ReadFrom(r)
  PROVE  Older'
  <1>1. inbox' = Append(inbox, Pop) /\ UNCHANGED <<recvq, recv, recvReady, arrived, returned>>
    BY DEF ReadFrom
  <1>2. Pop \in Nat
    BY DEF Pop
  <1>3. \A t \in Seq(Nat) : UpTo(t, arrived) => Before(t, <<Pop>>) /\ UpTo(<<Pop>>, arrived)
    BY TrivialOrder, NatSeqs, ZenonT(30)
  <1>4. QED
    BY <1>1, <1>2, <1>3, AppendOrder, NatSeqs DEF Older

\* An arriving packet is newer than all others.
LEMMA OlderArrive ==
  ASSUME Types, Older, Arrive
  PROVE  Older'
  <1>1. /\ inbox' = Append(inbox, arrived + 1) /\ arrived' = arrived + 1
        /\ UNCHANGED <<recvq, recv, recvReady, returned>>
    BY DEF Arrive
  <1>2. arrived + 1 \in Nat
    BY NatSeqs
  <1>3. \A t \in Seq(Nat) : UpTo(t, arrived) =>
          Before(t, <<arrived + 1>>) /\ UpTo(<<arrived + 1>>, arrived + 1) /\ UpTo(t, arrived + 1)
    BY TrivialOrder, NatSeqs
  <1>4. QED
    BY <1>1, <1>2, <1>3, AppendOrder, NatSeqs DEF Older

\* A reader takes the packet in the channel, the oldest there is.
LEMMA OlderReadPacket ==
  ASSUME Types, Older, NEW r \in Reader, ReadPacket(r)
  PROVE  Older'
  <1>1. /\ recv # <<>> /\ returned' = Append(returned, Head(recv)) /\ recv' = Tail(recv)
        /\ UNCHANGED <<inbox, recvq, recvReady, arrived>>
    BY DEF ReadPacket, actor
  <1>2. recv' = <<>> /\ Head(recv) \in Nat
    BY <1>1, NatSeqs DEF Types
  <1>3. \A t \in Seq(Nat) : UpTo(t, arrived) => Before(<<>>, t) /\ Before(t, <<>>) /\ UpTo(<<>>, arrived)
    BY TrivialOrder, NatSeqs, ZenonT(30)
  <1>4. /\ Before(returned, <<Head(recv)>>) /\ UpTo(<<Head(recv)>>, arrived)
        /\ Before(<<Head(recv)>>, recvq) /\ Before(<<Head(recv)>>, inbox)
    BY <1>1, HeadOrder, NatSeqs, ZenonT(30) DEF Older
  <1>5. /\ Increasing(returned') /\ UpTo(returned', arrived)
        /\ Before(returned', recvq) /\ Before(returned', inbox) /\ returned' \in Seq(Nat)
    BY <1>1, <1>2, <1>4, AppendOrder, AppendPlaces, NatSeqs DEF Older
  <1>6. QED
    BY <1>1, <1>2, <1>3, <1>5, NatSeqs, ZenonT(30) DEF Older

\* The actor takes the first packet of the inbox, which everything in front of
\* it is older than.
LEMMA OlderTraffic ==
  ASSUME Types, Older, HandleTraffic
  PROVE  Older'
  <1> DEFINE x == Head(inbox)
             rest == Tail(inbox)
  <1>1. inbox # <<>> /\ inbox' = rest /\ UNCHANGED <<arrived, returned>>
    BY DEF HandleTraffic
  <1>2. x \in Nat /\ rest \in Seq(Nat)
    BY <1>1, TailPlaces, NatSeqs
  <1>3. /\ Before(returned, <<x>>) /\ Before(recv, <<x>>) /\ Before(recvq, <<x>>)
        /\ Before(<<x>>, rest) /\ UpTo(<<x>>, arrived)
    BY <1>1, HeadOrder, NatSeqs, ZenonT(30) DEF Older
  <1>4. /\ Before(returned, rest) /\ Before(recv, rest) /\ Before(recvq, rest)
        /\ Increasing(rest) /\ UpTo(rest, arrived)
    BY <1>1, TailOrder, NatSeqs DEF Older
  <1> HIDE DEF x, rest
  <1>5. CASE recv' = <<x>> /\ SendNow /\ recvq' = recvq /\ recvReady' = recvReady - 1
    <2>1. recvq = <<>>
      BY <1>5 DEF Older, SendNow
    <2>2. Before(<<x>>, <<>>)
      BY DEF Before
    <2>3. QED
      BY <1>1, <1>3, <1>4, <1>5, <2>1, <2>2, NatSeqs DEF Older
  <1>6. CASE recv' = recv /\ recvReady' = recvReady /\ recvq' = recvq
    BY <1>1, <1>4, <1>6 DEF Older
  <1>7. ASSUME NEW q \in Seq(Nat), Increasing(q), Before(returned, q), Before(recv, q), Before(q, <<x>>),
               Before(q, rest), UpTo(q, arrived),
               ~SendNow, recv' = recv, recvReady' = recvReady, recvq' = Append(q, x)
        PROVE  Older'
    <2>1. /\ Increasing(recvq') /\ UpTo(recvq', arrived) /\ Before(returned, recvq')
          /\ Before(recv, recvq') /\ Before(recvq', rest)
      BY <1>2, <1>3, <1>7, AppendOrder, NatSeqs
    <2>2. ~(recvReady' > 0)
      BY <1>7 DEF SendNow
    <2>3. QED
      BY <1>1, <1>4, <1>7, <2>1, <2>2 DEF Older
  <1>8. CASE ~SendNow /\ recv' = recv /\ recvReady' = recvReady /\ recvq' = Append(recvq, x)
    BY <1>3, <1>4, <1>7, <1>8, NatSeqs, ZenonT(30) DEF Older
  <1>9. CASE /\ ~SendNow /\ recv' = recv /\ recvReady' = recvReady
             /\ recvq # <<>> /\ recvq' = Append(Tail(recvq), x)
    <2>1. Tail(recvq) \in Seq(Nat)
      BY <1>9, TailPlaces, NatSeqs
    <2>2. /\ Increasing(Tail(recvq)) /\ Before(returned, Tail(recvq)) /\ Before(recv, Tail(recvq))
          /\ UpTo(Tail(recvq), arrived)
      BY <1>9, TailOrder, NatSeqs DEF Older
    <2>3. Before(Tail(recvq), <<x>>) /\ Before(Tail(recvq), rest)
      <3>1. <<x>> \in Seq(Nat)
        BY <1>2
      <3>2. QED
        BY <1>2, <1>3, <1>4, <1>9, <3>1, TailOrder, NatSeqs, ZenonT(30)
    <2>4. QED
      BY <1>7, <1>9, <2>1, <2>2, <2>3, ZenonT(30)
  <1>10. QED
    BY <1>5, <1>6, <1>8, <1>9, TrafficCases DEF x

\* A pop moves the oldest packet of the queue to the channel, or loses it.
LEMMA OlderDoPop ==
  ASSUME Types, Older, DoPop
  PROVE  Older'
  <1> DEFINE rest == Tail(inbox)
             x == Head(recvq)
             q == Tail(recvq)
  <1>1. inbox # <<>> /\ inbox' = rest /\ UNCHANGED <<arrived, returned>>
    BY DEF DoPop
  <1>2. rest \in Seq(Nat)
    BY <1>1, TailPlaces, NatSeqs
  <1>3. /\ Before(returned, rest) /\ Before(recv, rest) /\ Before(recvq, rest)
        /\ Increasing(rest) /\ UpTo(rest, arrived)
    BY <1>1, TailOrder, NatSeqs DEF Older
  <1> HIDE DEF rest
  <1>4. CASE recvq = <<>>
    BY <1>1, <1>3, <1>4, ZenonT(30) DEF Older, DoPop
  <1>5. CASE recvq # <<>>
    <2>1. /\ recvq' = q /\ recvReady' = recvReady
          /\ recv' = <<x>> \/ recv' = recv
      BY <1>5 DEF DoPop
    <2>2. ~(recvReady > 0)
      BY <1>5 DEF Older
    <2>3. /\ Increasing(q) /\ Before(returned, q) /\ Before(recv, q) /\ Before(q, rest)
          /\ UpTo(q, arrived)
      BY <1>2, <1>3, <1>5, TailOrder, NatSeqs DEF Older
    <2>4. /\ Before(<<x>>, q) /\ Before(returned, <<x>>) /\ Before(<<x>>, rest)
          /\ UpTo(<<x>>, arrived)
      BY <1>2, <1>3, <1>5, HeadOrder, NatSeqs, ZenonT(30) DEF Older
    <2> HIDE DEF x, q
    <2>5. QED
      BY <1>1, <1>3, <2>1, <2>2, <2>3, <2>4 DEF Older
  <1>6. QED
    BY <1>4, <1>5

\* Every step keeps the order.
LEMMA OlderStep ==
  ASSUME Types, Older, [Next]_vars
  PROVE  Older'
  <1>1. ASSUME NEW r \in Reader, ReadError(r) PROVE Older'
    BY <1>1 DEF Older, ReadError, actor
  <1>2. ASSUME NEW zero \in BOOLEAN, SetReadDeadline(zero) PROVE Older'
    BY <1>2 DEF Older, SetReadDeadline, actor
  <1>3. ASSUME NEW n \in 1..MaxSets, Fire(n) PROVE Older'
    BY <1>3 DEF Older, Fire, actor
  <1>4. CASE Close
    BY <1>4 DEF Older, Close, actor
  <1>5. CASE UNCHANGED vars
    BY <1>5 DEF Older, vars
  <1>6. QED
    BY <1>1, <1>2, <1>3, <1>4, <1>5, OlderReadFrom, OlderReadPacket, OlderArrive, OlderTraffic,
       OlderDoPop DEF Next

-----------------------------------------------------------------------------
(* The panic *)

\* What was cancelled or closed stays so.
LEMMA NoReopen ==
  ASSUME [Next]_vars
  PROVE  (~closed' /\ cancelled' = {}) => (~closed /\ cancelled = {})
  BY ZenonT(30) DEF Next, ReadFrom, ReadPacket, ReadError, Arrive, HandleTraffic, DoPop, SetReadDeadline,
         Fire, Close, vars, deadline, actor

\* Every step keeps the one pop of the one reader together.
LEMMA OnePopStep ==
  ASSUME \A a, b \in Reader : a = b,
         Types, OnePop, [Next]_vars
  PROVE  OnePop'
  <1> SUFFICES ASSUME ~closed', cancelled' = {} PROVE OnePop'
    BY DEF OnePop
  <1>1. ~closed /\ cancelled = {}
    BY NoReopen
  <1>2. ASSUME NEW r \in Reader, ReadFrom(r) PROVE OnePop'
    <2>1. /\ DOMAIN inbox' = DOMAIN inbox \cup {Len(inbox) + 1}
          /\ \A i \in DOMAIN inbox : inbox'[i] = inbox[i]
      BY <1>2, AppendPlaces DEF ReadFrom, Types, Pop
    <2>2. reading'[r] # 0
      BY <1>2 DEF ReadFrom, Types, Packet, Pop
    <2>3. ~Popping /\ recvReady = 0 /\ recv = <<>>
      BY <1>1, <1>2 DEF ReadFrom, OnePop
    <2>4. UNCHANGED <<recvReady, recv>>
      BY <1>2 DEF ReadFrom
    <2>5. QED
      BY <2>1, <2>2, <2>3, <2>4 DEF OnePop, Popping
  <1>3. ASSUME NEW r \in Reader, ReadPacket(r) PROVE OnePop'
    <2>1. recv # <<>> /\ recv' = Tail(recv) /\ UNCHANGED <<inbox, recvReady>>
      BY <1>3 DEF ReadPacket, actor
    <2>2. recv' = <<>>
      BY <2>1 DEF Types
    <2>3. ~Popping /\ recvReady = 0
      BY <1>1, <2>1 DEF OnePop, Types
    <2>4. QED
      BY <2>1, <2>2, <2>3 DEF OnePop, Popping
  <1>4. ASSUME NEW r \in Reader, ReadError(r) PROVE OnePop'
    BY <1>1, <1>4 DEF ReadError
  <1>5. CASE Arrive
    <2>1. /\ DOMAIN inbox' = DOMAIN inbox \cup {Len(inbox) + 1}
          /\ \A i \in DOMAIN inbox : inbox'[i] = inbox[i]
          /\ inbox'[Len(inbox) + 1] # Pop
      BY <1>5, AppendPlaces DEF Arrive, Types, Pop
    <2>2. UNCHANGED <<reading, recvReady, recv, closed, cancelled>>
      BY <1>5 DEF Arrive, deadline
    <2>3. QED
      BY <2>1, <2>2 DEF OnePop, Popping
  <1>6. ASSUME inbox # <<>>, inbox' = Tail(inbox)
        PROVE  /\ \A i \in DOMAIN inbox' : i + 1 \in DOMAIN inbox /\ inbox'[i] = inbox[i + 1]
               /\ \A i, j \in DOMAIN inbox' : (inbox'[i] = Pop /\ inbox'[j] = Pop) => i = j
               /\ Popping' => Popping
               /\ Head(inbox) = Pop => ~Popping'
    <2>1. /\ \A i \in DOMAIN inbox' : /\ i \in Nat /\ 1 < i + 1 /\ i + 1 \in DOMAIN inbox
                                      /\ inbox'[i] = inbox[i + 1]
          /\ 1 \in DOMAIN inbox /\ Head(inbox) = inbox[1]
      BY <1>6, TailPlaces DEF Types
    <2>2. QED
      BY <1>1, <2>1 DEF OnePop, Popping
  <1>7. CASE HandleTraffic
    <2>1. inbox # <<>> /\ inbox' = Tail(inbox) /\ reading' = reading
      BY <1>7 DEF HandleTraffic
    <2>2. \/ recvReady > 0 /\ recv' # <<>> /\ recvReady' = recvReady - 1
          \/ UNCHANGED <<recv, recvReady>>
      BY <1>7, TrafficCases DEF SendNow
    <2>3. QED
      BY <1>1, <1>6, <2>1, <2>2 DEF OnePop, Types
  <1>8. CASE DoPop
    <2>1. inbox # <<>> /\ inbox' = Tail(inbox) /\ Head(inbox) = Pop /\ reading' = reading
      BY <1>8 DEF DoPop, IsPop
    <2>2. Popping
      BY <2>1, TailPlaces DEF Popping, Types
    <2>3. \/ recv' = recv /\ recvReady' = recvReady + 1
          \/ recv' = <<Head(recvq)>> /\ UNCHANGED recvReady
          \/ UNCHANGED <<recv, recvReady>>
      BY <1>8 DEF DoPop
    <2>4. QED
      BY <1>1, <1>6, <2>1, <2>2, <2>3 DEF OnePop, Types
  <1>9. ASSUME UNCHANGED <<inbox, recvReady, recv, reading>> PROVE OnePop'
    BY <1>1, <1>9 DEF OnePop, Popping
  <1>10. QED
    BY <1>2, <1>3, <1>4, <1>5, <1>7, <1>8, <1>9
       DEF Next, SetReadDeadline, Fire, Close, vars, actor

\* The pop that finds a packet finds room for it.
LEMMA PanicStep ==
  ASSUME Types, OnePop, NoPanicInTime, [Next]_vars
  PROVE  NoPanicInTime'
  <1> SUFFICES ASSUME cancelled' = {}, panicked' PROVE FALSE
    BY DEF NoPanicInTime
  <1>1. cancelled = {}
    BY ZenonT(30) DEF Next, ReadFrom, ReadPacket, ReadError, Arrive, HandleTraffic, DoPop, SetReadDeadline,
           Fire, Close, vars, deadline, actor
  <1>2. ~panicked
    BY <1>1 DEF NoPanicInTime
  <1>3. DoPop
    BY <1>2, ZenonT(30) DEF Next, ReadFrom, ReadPacket, ReadError, Arrive, HandleTraffic, SetReadDeadline,
                Fire, Close, vars, actor
  <1>4. ~closed /\ recv # <<>> /\ inbox # <<>> /\ Head(inbox) = Pop
    BY <1>2, <1>3, ZenonT(30) DEF DoPop, IsPop
  <1>5. Popping
    BY <1>4, TailPlaces DEF Popping, Types
  <1>6. QED
    BY <1>1, <1>4, <1>5 DEF OnePop

-----------------------------------------------------------------------------

\* A deadline that SetReadDeadline replaced never closes the channel that
\* readers wait on, whenever its timer fires: only the latest one does.
THEOREM ReplacedNeverFires == Spec => OnlyLatestFires
  <1>1. Init => Types /\ Replaced
    BY InitInv
  <1>2. Types /\ Replaced /\ [Next]_vars => Types' /\ Replaced'
    BY TypesStep, ReplacedStep
  <1>3. Types /\ Replaced /\ [Next]_vars =>
          [cancelled' # cancelled => sets \notin used /\ sets \in used']_vars
    BY LatestStep
  <1>4. QED
    BY <1>1, <1>2, <1>3, PTL DEF Spec, OnlyLatestFires

\* ReadFrom, called by any number of goroutines, takes packets in the order in
\* which they arrived and none twice: through the queue or past it, before and
\* after timeouts and Close.
THEOREM ReadsInOrder == Spec => []InOrder
  <1>1. Init => Types /\ Older
    BY InitInv
  <1>2. Types /\ Older /\ [Next]_vars => Types' /\ Older'
    BY TypesStep, OlderStep
  <1>3. Types /\ Older => InOrder
    BY DEF Types, Older, Increasing, InOrder, Packet
  <1>4. QED
    BY <1>1, <1>2, <1>3, PTL DEF Spec

\* With at most one reader at a time, the panic of doPop is out of reach until
\* a read deadline has expired.
THEOREM PanicTakesATimeout ==
  ASSUME \A a, b \in Reader : a = b
  PROVE  Spec => []NoPanicInTime
  <1>1. Init => Types /\ OnePop /\ NoPanicInTime
    BY InitInv DEF Init, NoPanicInTime
  <1>2. Types /\ OnePop /\ NoPanicInTime /\ [Next]_vars => Types' /\ OnePop' /\ NoPanicInTime'
    BY TypesStep, OnePopStep, PanicStep
  <1>3. QED
    BY <1>1, <1>2, PTL DEF Spec
=============================================================================
