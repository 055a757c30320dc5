--------------------------- MODULE PeerWriterProofs ---------------------------
(***************************************************************************)
(* What TLAPS proves about PeerWriter, for any number of packets and       *)
(* messages: if no packet is too big, no wakeup is lost between the peer   *)
(* actor, which waits to be asked, and the writer actor, which asks; and   *)
(* packets keep their order on the way through the two actors.             *)
(***************************************************************************)
EXTENDS PeerWriter, SequenceTheorems, TLAPS

PeerMessage == {"push", "pop", "direct"} \X Nat
WriterMessage == {"send", "keepalive", "check", "flush"} \X Nat

Types ==
  /\ pinbox \in Seq(PeerMessage)
  /\ winbox \in Seq(WriterMessage)
  /\ queue \in Seq(Nat)
  /\ ready \in BOOLEAN
  /\ seq \in Nat /\ sent \in Nat

\* The elements of a sequence with one more at the end.
LEMMA Appended ==
  ASSUME NEW S, NEW s \in Seq(S), NEW e \in S
  PROVE  /\ Append(s, e) \in Seq(S)
         /\ Len(s) \in Nat
         /\ DOMAIN s = 1..Len(s)
         /\ DOMAIN Append(s, e) = 1..(Len(s) + 1)
         /\ \A i \in 1..Len(s) : Append(s, e)[i] = s[i]
         /\ Append(s, e)[Len(s) + 1] = e
OBVIOUS

\* The elements of a sequence without the first.
LEMMA Tailed ==
  ASSUME NEW S, NEW s \in Seq(S), s # <<>>
  PROVE  /\ Tail(s) \in Seq(S)
         /\ Head(s) = s[1] /\ s[1] \in S
         /\ Len(s) \in Nat \ {0}
         /\ DOMAIN s = 1..Len(s)
         /\ DOMAIN Tail(s) = 1..(Len(s) - 1)
         /\ \A i \in 1..(Len(s) - 1) : Tail(s)[i] = s[i + 1]
OBVIOUS

\* The first state has them.
LEMMA InitTypes ==
  ASSUME Init
  PROVE  Types
<1>1. <<"direct", 0>> \in PeerMessage
  BY DEF PeerMessage
<1>2. pinbox \in Seq(PeerMessage)
  BY <1>1 DEF Init
<1>3. winbox \in Seq(WriterMessage) /\ queue \in Seq(Nat) /\ seq \in Nat /\ sent \in Nat
  BY DEF Init
<1>4. ready \in BOOLEAN
  BY Zenon DEF Init
<1>. QED  BY <1>2, <1>3, <1>4 DEF Types

\* Every step of the two actors keeps the types.
LEMMA TypesStep ==
  ASSUME Types, [Next]_vars
  PROVE  Types'
<1>. USE DEF Types
<1>a. /\ \A m \in PeerMessage : Append(pinbox, m) \in Seq(PeerMessage)
      /\ \A m \in WriterMessage : Append(winbox, m) \in Seq(WriterMessage)
      /\ \A n \in Nat : Append(queue, n) \in Seq(Nat)
  BY Appended
<1>b. /\ pinbox # <<>> => Head(pinbox) \in PeerMessage /\ Tail(pinbox) \in Seq(PeerMessage)
      /\ winbox # <<>> => Head(winbox) \in WriterMessage /\ Tail(winbox) \in Seq(WriterMessage)
      /\ queue # <<>> => Head(queue) \in Nat /\ Tail(queue) \in Seq(Nat)
  BY Tailed
<1>1. CASE SendQueued
  <2>1. <<"push", sent'>> \in PeerMessage /\ sent' \in Nat
    BY <1>1 DEF SendQueued, PeerMessage
  <2>. QED  BY <1>1, <1>a, <2>1 DEF SendQueued
<1>2. CASE SendDirect
  <2>1. <<"direct", 0>> \in PeerMessage
    BY DEF PeerMessage
  <2>. QED  BY <1>2, <1>a, <2>1 DEF SendDirect
<1>3. CASE KeepAlive
  <2>1. <<"keepalive", 0>> \in WriterMessage
    BY DEF WriterMessage
  <2>. QED  BY <1>3, <1>a, <2>1 DEF KeepAlive
<1>4. CASE PeerStep
  <2>1. pinbox # <<>> /\ pinbox' = Tail(pinbox) /\ UNCHANGED <<seq, buffer, wire, sent>>
    BY <1>4 DEF PeerStep
  <2>2. Head(pinbox)[2] \in Nat
    BY <1>b, <2>1 DEF PeerMessage
  <2>3. \A n \in Nat : <<"send", n>> \in WriterMessage /\ <<"flush", n>> \in WriterMessage
    BY DEF WriterMessage
  <2>4. \A n \in Nat : Append(winbox, <<"send", n>>) \in Seq(WriterMessage)
    BY <1>a, <2>3, Zenon
  <2>5. Append(winbox, <<"flush", 0>>) \in Seq(WriterMessage)
    BY <1>a, <2>3, ZenonT(30)
  <2>6. CASE Push(Head(pinbox)[2])
    <3>1. winbox' \in Seq(WriterMessage)
      BY <2>2, <2>4, <2>6, Zenon DEF Push, SendPacket
    <3>2. queue' \in Seq(Nat)
      <4>1. queue # <<>> => Append(Tail(queue), Head(pinbox)[2]) \in Seq(Nat)
        BY <1>b, <2>2, Appended
      <4>. QED  BY <1>a, <2>2, <2>6, <4>1, Zenon DEF Push
    <3>3. ready' \in BOOLEAN
      BY <2>6, Zenon DEF Push
    <3>. QED  BY <1>b, <2>1, <3>1, <3>2, <3>3
  <2>7. CASE Pop
    <3>1. winbox' \in Seq(WriterMessage)
      BY <1>b, <2>4, <2>5, <2>7, Zenon DEF Pop, SendPacket
    <3>2. queue' \in Seq(Nat)
      BY <1>b, <2>7, Zenon DEF Pop
    <3>3. ready' \in BOOLEAN
      BY <2>7, Zenon DEF Pop
    <3>. QED  BY <1>b, <2>1, <3>1, <3>2, <3>3
  <2>8. CASE SendPacket(0) /\ UNCHANGED <<queue, ready, dropped>>
    BY <1>b, <2>1, <2>4, <2>8 DEF SendPacket
  <2>. QED  BY <1>4, <2>6, <2>7, <2>8 DEF PeerStep
<1>5. CASE WriterStep
  <2>1. winbox # <<>> /\ UNCHANGED <<queue, ready, sent>>
    BY <1>5 DEF WriterStep
  <2>2. Head(winbox)[2] \in Nat
    BY <1>b, <2>1 DEF WriterMessage
  <2>3. CASE Write(Head(winbox)[2]) /\ UNCHANGED wire
    <3>1. seq' \in Nat /\ <<"check", seq'>> \in WriterMessage
      BY <2>3 DEF Write, WriterMessage
    <3>2. Append(Tail(winbox), <<"check", seq'>>) \in Seq(WriterMessage)
      BY <1>b, <2>1, <3>1, Appended
    <3>. QED  BY <1>a, <2>1, <2>2, <2>3, <3>1, <3>2 DEF Write
  <2>4. CASE /\ winbox' = Tail(winbox) /\ UNCHANGED <<seq, wire, buffer>>
             /\ pinbox' \in {pinbox, Append(pinbox, <<"pop", 0>>)}
    <3>1. <<"pop", 0>> \in PeerMessage
      BY DEF PeerMessage
    <3>2. pinbox' \in Seq(PeerMessage)
      BY <1>a, <2>4, <3>1, Zenon
    <3>. QED  BY <1>b, <2>1, <2>4, <3>2
  <2>5. CASE /\ winbox' = Tail(winbox) /\ wire' = wire \o buffer /\ buffer' = <<>>
             /\ UNCHANGED <<seq, pinbox>>
    BY <1>b, <2>1, <2>5
  <2>. QED  BY <1>5, <2>3, <2>4, <2>5, SMTT(30) DEF WriterStep
<1>6. CASE UNCHANGED vars
  BY <1>6 DEF vars
<1>. QED  BY <1>1, <1>2, <1>3, <1>4, <1>5, <1>6 DEF Next

-----------------------------------------------------------------------------
(* No wakeup is lost *)

\* What is in a sequence is its head or in its tail.
LEMMA InTail ==
  ASSUME NEW S, NEW s \in Seq(S), s # <<>>, NEW i \in DOMAIN s, s[i] # Head(s)
  PROVE  \E j \in DOMAIN Tail(s) : Tail(s)[j] = s[i]
<1>1. /\ Len(s) \in Nat /\ DOMAIN s = 1..Len(s) /\ DOMAIN Tail(s) = 1..(Len(s) - 1)
      /\ Head(s) = s[1]
      /\ \A k \in 1..(Len(s) - 1) : Tail(s)[k] = s[k + 1]
  BY Tailed
<1>2. i # 1 /\ (i - 1) \in 1..(Len(s) - 1) /\ Tail(s)[i - 1] = s[(i - 1) + 1]
  BY <1>1
<1>. QED  BY <1>1, <1>2

\* The messages that will ask for traffic.
PeerAsks(m) == m[1] \in {"pop", "direct"}
WriterAsks(m, latest) ==
  m = <<"check", latest>> \/ m[1] = "keepalive" \/ (m[1] = "send" /\ m[2] \notin Big)

Waiting ==
  \/ ready
  \/ \E i \in DOMAIN pinbox : PeerAsks(pinbox[i])
  \/ \E i \in DOMAIN winbox : WriterAsks(winbox[i], seq)

\* Whatever takes away what would ask the peer for traffic asks, or puts something
\* in its place that will: a write its check, the check of the last write a pop, a
\* pop a packet to be written or the peer's being ready.
LEMMA AsksStep ==
  ASSUME Big = {}, Types, Waiting, [Next]_vars
  PROVE  Waiting'
<1>. USE DEF Types
<1>a. ASSUME NEW m \in PeerMessage, pinbox' = Append(pinbox, m)
      PROVE  /\ \A i \in DOMAIN pinbox : \E j \in DOMAIN pinbox' : pinbox'[j] = pinbox[i]
             /\ \E j \in DOMAIN pinbox' : pinbox'[j] = m
  <2>1. \A i \in DOMAIN pinbox : i \in DOMAIN pinbox' /\ pinbox'[i] = pinbox[i]
    BY <1>a
  <2>2. (Len(pinbox) + 1) \in DOMAIN pinbox' /\ pinbox'[Len(pinbox) + 1] = m
    BY <1>a
  <2>. QED  BY <2>1, <2>2, Zenon
<1>c. ASSUME NEW m \in WriterMessage, winbox' = Append(winbox, m)
      PROVE  /\ \A i \in DOMAIN winbox : \E j \in DOMAIN winbox' : winbox'[j] = winbox[i]
             /\ \E j \in DOMAIN winbox' : winbox'[j] = m
  <2>1. \A i \in DOMAIN winbox : i \in DOMAIN winbox' /\ winbox'[i] = winbox[i]
    BY <1>c
  <2>2. (Len(winbox) + 1) \in DOMAIN winbox' /\ winbox'[Len(winbox) + 1] = m
    BY <1>c
  <2>. QED  BY <2>1, <2>2, Zenon
<1>b. /\ pinbox # <<>> => \A i \in DOMAIN pinbox : pinbox[i] # Head(pinbox) =>
            \E j \in DOMAIN Tail(pinbox) : Tail(pinbox)[j] = pinbox[i]
      /\ winbox # <<>> => \A i \in DOMAIN winbox : winbox[i] # Head(winbox) =>
            \E j \in DOMAIN Tail(winbox) : Tail(winbox)[j] = winbox[i]
  BY InTail
<1>1. CASE SendQueued
  <2>1. <<"push", sent'>> \in PeerMessage
    BY <1>1 DEF SendQueued, PeerMessage
  <2>. QED  BY <1>1, <1>a, <2>1, Zenon DEF SendQueued, Waiting
<1>2. CASE SendDirect
  <2>1. <<"direct", 0>> \in PeerMessage /\ PeerAsks(<<"direct", 0>>)
    BY DEF PeerMessage, PeerAsks
  <2>. QED  BY <1>2, <1>a, <2>1, Zenon DEF SendDirect, Waiting
<1>3. CASE KeepAlive
  <2>1. <<"keepalive", 0>> \in WriterMessage /\ WriterAsks(<<"keepalive", 0>>, seq)
    BY DEF WriterMessage, WriterAsks
  <2>. QED  BY <1>3, <1>c, <2>1, Zenon DEF KeepAlive, Waiting
<1>4. CASE PeerStep
  <2>1. pinbox # <<>> /\ pinbox' = Tail(pinbox) /\ seq' = seq
    BY <1>4 DEF PeerStep
  <2>2. Head(pinbox) \in PeerMessage /\ Head(pinbox)[2] \in Nat
    BY <2>1, Tailed DEF PeerMessage
  <2>3. \A n \in Nat : <<"send", n>> \in WriterMessage /\ WriterAsks(<<"send", n>>, seq)
    BY DEF WriterMessage, WriterAsks
  <2>4. ASSUME NEW n \in Nat, SendPacket(n) PROVE Waiting'
    <3>1. PICK j \in DOMAIN winbox' : winbox'[j] = <<"send", n>>
      BY <1>c, <2>3, <2>4, Zenon DEF SendPacket
    <3>2. WriterAsks(winbox'[j], seq')
      BY <2>1, <2>3, <3>1
    <3>. QED  BY <3>2, Zenon DEF Waiting
  <2>5. CASE Head(pinbox)[1] = "push" /\ Push(Head(pinbox)[2])
    <3>1. CASE SendPacket(Head(pinbox)[2])
      BY <2>2, <2>4, <3>1
    <3>2. CASE ~ready /\ UNCHANGED <<ready, winbox>>
      <4>1. \A m : PeerAsks(m) => m # Head(pinbox)
        BY <2>5 DEF PeerAsks
      <4>. QED  BY <1>b, <2>1, <3>2, <4>1, Zenon DEF Waiting
    <3>. QED  BY <2>5, <3>1, <3>2 DEF Push
  <2>6. CASE Pop
    <3>1. queue # <<>> => Head(queue) \in Nat
      BY Tailed
    <3>. QED  BY <2>4, <2>6, <3>1 DEF Pop, Waiting
  <2>7. CASE SendPacket(0)
    BY <2>4, <2>7
  <2>. QED  BY <1>4, <2>5, <2>6, <2>7 DEF PeerStep
<1>5. CASE WriterStep
  <2>1. winbox # <<>> /\ ready' = ready /\ Head(winbox) \in WriterMessage
    BY <1>5, Tailed DEF WriterStep
  <2>2. CASE Write(Head(winbox)[2])
    <3>1. <<"check", seq'>> \in WriterMessage /\ WriterAsks(<<"check", seq'>>, seq')
      BY <2>2 DEF Write, WriterMessage, WriterAsks
    <3>2. Tail(winbox) \in Seq(WriterMessage)
      BY <2>1, Tailed
    <3>3. \E j \in DOMAIN winbox' : winbox'[j] = <<"check", seq'>>
      <4>1. (Len(Tail(winbox)) + 1) \in DOMAIN winbox'
        BY <2>2, <3>1, <3>2 DEF Write
      <4>2. winbox'[Len(Tail(winbox)) + 1] = <<"check", seq'>>
        BY <2>2, <3>1, <3>2 DEF Write
      <4>. QED  BY <4>1, <4>2, Zenon
    <3>. QED  BY <3>1, <3>3, Zenon DEF Waiting
  <2>3. CASE /\ Head(winbox)[1] = "check" /\ winbox' = Tail(winbox) /\ seq' = seq
             /\ pinbox' = IF Head(winbox)[2] = seq THEN Append(pinbox, <<"pop", 0>>) ELSE pinbox
    <3>1. <<"pop", 0>> \in PeerMessage /\ PeerAsks(<<"pop", 0>>)
      BY DEF PeerMessage, PeerAsks
    <3>2. CASE Head(winbox)[2] = seq
      <4>1. pinbox' = Append(pinbox, <<"pop", 0>>)
        BY <2>3, <3>2
      <4>. QED  BY <1>a, <3>1, <4>1, Zenon DEF Waiting
    <3>3. CASE Head(winbox)[2] # seq
      <4>1. \A m : WriterAsks(m, seq) => m # Head(winbox)
        BY <2>3, <3>3 DEF WriterAsks
      <4>. QED  BY <1>b, <2>1, <2>3, <3>3, <4>1, Zenon DEF Waiting
    <3>. QED  BY <3>2, <3>3
  <2>4. CASE Head(winbox)[1] = "flush" /\ winbox' = Tail(winbox) /\ UNCHANGED <<seq, pinbox>>
    <3>1. \A m : WriterAsks(m, seq) => m # Head(winbox)
      BY <2>4 DEF WriterAsks
    <3>. QED  BY <1>b, <2>1, <2>4, <3>1, Zenon DEF Waiting
  <2>. QED  BY <1>5, <2>2, <2>3, <2>4 DEF WriterStep
<1>6. CASE UNCHANGED vars
  BY <1>6 DEF vars, Waiting
<1>. QED  BY <1>1, <1>2, <1>3, <1>4, <1>5, <1>6 DEF Next

\* PeerWriter!SomeoneAsks: if no packet is too big, then however the messages to
\* the peer and to its writer interleave, a peer that is not ready will be asked
\* for traffic.
THEOREM NoLostWakeup ==
  ASSUME Big = {}
  PROVE  Spec => []SomeoneAsks
<1>1. Init => Types /\ Waiting
  <2>. SUFFICES ASSUME Init PROVE Types /\ Waiting
    OBVIOUS
  <2>1. 1 \in DOMAIN pinbox /\ PeerAsks(pinbox[1])
    BY DEF Init, PeerAsks
  <2>2. Waiting
    BY <2>1, Zenon DEF Waiting
  <2>. QED  BY <2>2, InitTypes
<1>2. Types /\ Waiting /\ [Next]_vars => (Types /\ Waiting)'
  <2>1. Types /\ [Next]_vars => Types'
    BY TypesStep
  <2>2. Types /\ Waiting /\ [Next]_vars => Waiting'
    BY AsksStep
  <2>. QED  BY <2>1, <2>2
<1>3. Waiting => SomeoneAsks
  BY DEF Waiting, PeerAsks, WriterAsks, SomeoneAsks
<1>. QED  BY <1>1, <1>2, <1>3, PTL DEF Spec

-----------------------------------------------------------------------------
(* Packets keep their order *)

Out == wire \o buffer

\* The four places of a packet, and which packet is where: written, on its way
\* to the writer, in the queue, on its way to the peer.
Place == 1..4
At(s, i, n) ==
  \/ s = 1 /\ i \in DOMAIN Out /\ Out[i] = n
  \/ s = 2 /\ i \in DOMAIN winbox /\ winbox[i][1] = "send" /\ winbox[i][2] = n
  \/ s = 3 /\ i \in DOMAIN queue /\ queue[i] = n
  \/ s = 4 /\ i \in DOMAIN pinbox /\ pinbox[i][1] = "push" /\ pinbox[i][2] = n

Packet == Nat \ {0}

\* Packets further on were sent before those behind them.
Sorted ==
  \A s, t \in Place, i, j \in Nat, m, n \in Packet :
    At(s, i, m) /\ At(t, j, n) /\ (s < t \/ (s = t /\ i < j)) => m < n

Bounded == \A s \in Place, i \in Nat, n \in Packet : At(s, i, n) => n <= sent

\* A peer that is ready has nothing in its queue, so that a packet sent past the
\* queue overtakes none; a keepalive is no packet.
Order ==
  /\ buffer \in Seq(Nat) /\ wire \in Seq(Nat)
  /\ Sorted
  /\ Bounded
  /\ ready => queue = <<>>
  /\ \A i \in DOMAIN winbox : winbox[i][1] = "keepalive" => winbox[i][2] = 0

\* A step that moves or loses packets only at the head of a place keeps the order.
LEMMA Shifted ==
  ASSUME Sorted, NEW d \in [Place -> {0, 1}],
         \A s \in Place, i \in Nat, n \in Packet : At(s, i, n)' => At(s, i + d[s], n)
  PROVE  Sorted'
<1>1. \A s \in Place, i \in Nat : i + d[s] \in Nat
  OBVIOUS
<1>2. \A s, t \in Place, i, j \in Nat :
        (s < t \/ (s = t /\ i < j)) => (s < t \/ (s = t /\ i + d[s] < j + d[t]))
  OBVIOUS
<1>3. ASSUME NEW s \in Place, NEW t \in Place, NEW i \in Nat, NEW j \in Nat,
             NEW m \in Packet, NEW n \in Packet, At(s, i, m)', At(t, j, n)',
             s < t \/ (s = t /\ i < j)
      PROVE  m < n
  <2>1. At(s, i + d[s], m) /\ At(t, j + d[t], n)
    BY <1>3
  <2>2. i + d[s] \in Nat /\ j + d[t] \in Nat
    BY <1>1
  <2>3. s < t \/ (s = t /\ i + d[s] < j + d[t])
    BY <1>2, <1>3
  <2>. QED  BY <2>1, <2>2, <2>3 DEF Sorted
<1>. QED  BY <1>3 DEF Sorted

\* So does one that also puts packet p at the end e of place T, if it fits there.
Puts(d, T, e, p) ==
  \A s \in Place, i \in Nat, n \in Packet : At(s, i, n)' =>
    \/ /\ At(s, i + d[s], n)
       /\ (s < T /\ n < p) \/ (s = T /\ i < e /\ n < p) \/ (s > T /\ p < n)
    \/ s = T /\ i = e /\ n = p

LEMMA Placed ==
  ASSUME Sorted, NEW d \in [Place -> {0, 1}],
         NEW T \in Place, NEW e \in Nat, NEW p \in Nat, Puts(d, T, e, p)
  PROVE  Sorted'
<1>1. \A s \in Place, i \in Nat : i + d[s] \in Nat
  OBVIOUS
<1>2. \A s, t \in Place, i, j \in Nat :
        (s < t \/ (s = t /\ i < j)) => (s < t \/ (s = t /\ i + d[s] < j + d[t]))
  OBVIOUS
<1>3. ASSUME NEW s \in Place, NEW t \in Place, NEW i \in Nat, NEW j \in Nat,
             NEW m \in Packet, NEW n \in Packet, At(s, i, m)', At(t, j, n)',
             s < t \/ (s = t /\ i < j)
      PROVE  m < n
  <2>0. s \in Nat /\ t \in Nat /\ T \in Nat
    BY DEF Place
  <2>1. i + d[s] \in Nat /\ j + d[t] \in Nat
    BY <1>1
  <2>2. s < t \/ (s = t /\ i + d[s] < j + d[t])
    BY <1>2, <1>3
  <2>3. m \in Nat /\ n \in Nat
    BY DEF Packet
  <2>4. CASE At(s, i + d[s], m) /\ At(t, j + d[t], n)
    BY <2>1, <2>2, <2>4 DEF Sorted
  <2>5. CASE ~At(s, i + d[s], m)
    <3>1. s = T /\ i = e /\ m = p
      BY <1>3, <2>5 DEF Puts
    <3>2. ~(t = T /\ j = e) => (t = T /\ j < e) \/ t < T \/ (t > T /\ p < n)
      BY <1>3 DEF Puts
    <3>. QED  BY <1>3, <2>0, <3>1, <3>2
  <2>6. CASE ~At(t, j + d[t], n)
    <3>1. t = T /\ j = e /\ n = p
      BY <1>3, <2>6 DEF Puts
    <3>2. ~(s = T /\ i = e) => (s <= T /\ m < p) \/ s > T
      BY <1>3, <2>0 DEF Puts
    <3>. QED  BY <1>3, <2>0, <3>1, <3>2
  <2>. QED  BY <2>4, <2>5, <2>6
<1>. QED  BY <1>3 DEF Sorted

\* What is where after a step that adds to the messages of the peer or the writer.
LEMMA CallOrder ==
  ASSUME Types, Order, SendQueued \/ SendDirect \/ KeepAlive
  PROVE  Order'
<1>. DEFINE d == [s \in Place |-> 0]
<1>0. d \in [Place -> {0, 1}] /\ \A s \in Place, i \in Nat : i + d[s] = i
  OBVIOUS
<1>. HIDE DEF d
<1>1. UNCHANGED <<queue, ready, buffer, wire>> /\ Out' = Out
  BY SMTT(30) DEF SendQueued, SendDirect, KeepAlive, Out
<1>2. CASE SendQueued
  <2>. DEFINE e == Len(pinbox) + 1
              p == sent + 1
  <2>1. UNCHANGED winbox /\ sent' = p /\ pinbox' = Append(pinbox, <<"push", p>>)
    BY <1>2 DEF SendQueued
  <2>2. /\ sent \in Nat /\ p = sent + 1 /\ p \in Nat /\ e \in Nat /\ DOMAIN pinbox' = DOMAIN pinbox \cup {e}
        /\ \A i \in DOMAIN pinbox : i < e /\ pinbox'[i] = pinbox[i]
        /\ pinbox'[e] = <<"push", p>>
    BY <2>1 DEF Types
  <2>. HIDE DEF e, p
  <2>3. \A s \in Place, i \in Nat, n \in Packet : At(s, i, n)' =>
          (At(s, i, n) /\ (s = 4 => i < e)) \/ (s = 4 /\ i = e /\ n = p)
    BY <1>1, <2>1, <2>2 DEF At
  <2>4. \A s \in Place, i \in Nat, n \in Packet : At(s, i, n) => n < p
    BY <2>2 DEF Order, Bounded, Packet
  <2>5. Sorted'
    <3>1. \A s \in Place : s < 4 \/ s = 4
      BY DEF Place
    <3>2. 4 \in Place /\ Sorted
      BY DEF Place, Order
    <3>3. Puts(d, 4, e, p)
      BY <1>0, <2>3, <2>4, <3>1 DEF Puts
    <3>. QED  BY <1>0, <2>2, <3>2, <3>3, Placed
  <2>6. Bounded'
    BY <2>1, <2>2, <2>3, <2>4 DEF Bounded, Packet
  <2>. QED  BY <1>1, <2>1, <2>5, <2>6 DEF Order
<1>3. ASSUME UNCHANGED sent,
             \A s \in Place, i \in Nat, n \in Packet : At(s, i, n)' => At(s, i, n),
             \A i \in DOMAIN winbox' : winbox'[i][1] = "keepalive" => winbox'[i][2] = 0
      PROVE  Order'
  <2>1. Sorted'
    BY <1>0, <1>3, Shifted DEF Order
  <2>2. Bounded'
    BY <1>3 DEF Order, Bounded
  <2>. QED  BY <1>1, <1>3, <2>1, <2>2 DEF Order
<1>4. CASE SendDirect
  <2>. DEFINE e == Len(pinbox) + 1
  <2>1. UNCHANGED <<winbox, sent>> /\ pinbox' = Append(pinbox, <<"direct", 0>>)
    BY <1>4 DEF SendDirect
  <2>2. /\ DOMAIN pinbox' = DOMAIN pinbox \cup {e}
        /\ \A i \in DOMAIN pinbox : pinbox'[i] = pinbox[i]
        /\ pinbox'[e] = <<"direct", 0>>
    BY <2>1 DEF Types
  <2>. HIDE DEF e
  <2>3. \A s \in Place, i \in Nat, n \in Packet : At(s, i, n)' => At(s, i, n)
    BY <1>1, <2>1, <2>2 DEF At
  <2>. QED  BY <1>3, <2>1, <2>3 DEF Order
<1>5. CASE KeepAlive
  <2>. DEFINE e == Len(winbox) + 1
  <2>1. UNCHANGED <<pinbox, sent>> /\ winbox' = Append(winbox, <<"keepalive", 0>>)
    BY <1>5 DEF KeepAlive
  <2>2. /\ DOMAIN winbox' = DOMAIN winbox \cup {e}
        /\ \A i \in DOMAIN winbox : winbox'[i] = winbox[i]
        /\ winbox'[e] = <<"keepalive", 0>>
    BY <2>1 DEF Types
  <2>. HIDE DEF e
  <2>3. \A s \in Place, i \in Nat, n \in Packet : At(s, i, n)' => At(s, i, n)
    BY <1>1, <2>1, <2>2 DEF At
  <2>4. \A i \in DOMAIN winbox' : winbox'[i][1] = "keepalive" => winbox'[i][2] = 0
    BY <2>2 DEF Order
  <2>. QED  BY <1>3, <2>1, <2>3, <2>4, ZenonT(30)
<1>. QED  BY <1>2, <1>4, <1>5

\* One place on: packet p, the first at place S, may go to the end e of place T,
\* past places that are empty, while the places in A lose what was first there.
Shift(A) == [s \in Place |-> IF s \in A THEN 1 ELSE 0]

Moves(A, S, T, e, p) ==
  \A s \in Place, i \in Nat, n \in Packet : At(s, i, n)' =>
    \/ /\ At(s, i + Shift(A)[s], n)
       /\ s = T => i < e
       /\ s = S => i + Shift(A)[s] > 1
       /\ ~(T < s /\ s < S)
    \/ s = T /\ i = e /\ n = p

\* A packet that moves so keeps its place in the order.
LEMMA Moved ==
  ASSUME Sorted, Bounded, sent' = sent, NEW A, NEW S \in Place, NEW T \in Place, T < S,
         NEW e \in Nat, NEW p \in Nat, p # 0 => At(S, 1, p), Moves(A, S, T, e, p)
  PROVE  Sorted' /\ Bounded'
<1>. DEFINE d == Shift(A)
<1>1. d \in [Place -> {0, 1}]
  BY DEF Shift
<1>. HIDE DEF d
<1>2. \A s \in Place, i \in Nat : i + d[s] \in Nat
  BY <1>1
<1>3. \A s \in Place : s \in Nat
  BY DEF Place
<1>4. CASE p = 0
  <2>1. \A s \in Place, i \in Nat, n \in Packet : At(s, i, n)' => At(s, i + d[s], n)
    BY <1>4 DEF Moves, Packet, d
  <2>2. Sorted'
    BY <1>1, <2>1, Shifted
  <2>3. Bounded'
    BY <1>2, <2>1 DEF Bounded
  <2>. QED  BY <2>2, <2>3
<1>5. CASE p # 0
  <2>1. At(S, 1, p) /\ p \in Packet
    BY <1>5 DEF Packet
  <2>2. Puts(d, T, e, p)
    <3>. SUFFICES ASSUME NEW s \in Place, NEW i \in Nat, NEW n \in Packet, At(s, i, n)',
                         ~(s = T /\ i = e /\ n = p)
                  PROVE  /\ At(s, i + d[s], n)
                         /\ (s < T /\ n < p) \/ (s = T /\ i < e /\ n < p) \/ (s > T /\ p < n)
      BY DEF Puts
    <3>1. /\ At(s, i + d[s], n) /\ (s = T => i < e) /\ (s = S => i + d[s] > 1)
          /\ ~(T < s /\ s < S)
      BY DEF Moves, d
    <3>2. i + d[s] \in Nat /\ s \in Nat /\ S \in Nat /\ T \in Nat
      BY <1>2, <1>3
    <3>3. CASE s <= T
      <4>1. n < p
        BY <2>1, <3>1, <3>2, <3>3 DEF Sorted
      <4>. QED  BY <3>1, <3>2, <3>3, <4>1, SMTT(30)
    <3>4. CASE s > T
      <4>1. S < s \/ (S = s /\ 1 < i + d[s])
        BY <3>1, <3>2, <3>4
      <4>2. p < n
        BY <2>1, <3>1, <3>2, <4>1 DEF Sorted
      <4>. QED  BY <3>1, <3>2, <3>4, <4>2
    <3>. QED  BY <3>2, <3>3, <3>4
  <2>3. Sorted'
    BY <1>1, <2>2, Placed
  <2>4. Bounded'
    BY <1>2, <2>1, <2>2 DEF Bounded, Puts
  <2>. QED  BY <2>3, <2>4
<1>. QED  BY <1>4, <1>5

\* So do packets of which only the first at a place are lost.
LEMMA Lost ==
  ASSUME Sorted, Bounded, sent' = sent, NEW A,
         \A s \in Place, i \in Nat, n \in Packet : At(s, i, n)' => At(s, i + Shift(A)[s], n)
  PROVE  Sorted' /\ Bounded'
<1>. DEFINE d == Shift(A)
<1>1. d \in [Place -> {0, 1}]
  BY DEF Shift
<1>2. \A s \in Place, i \in Nat, n \in Packet : At(s, i, n)' => At(s, i + d[s], n)
  OBVIOUS
<1>. HIDE DEF d
<1>3. \A s \in Place, i \in Nat : i + d[s] \in Nat
  BY <1>1
<1>4. Sorted'
  BY <1>1, <1>2, Shifted
<1>5. Bounded'
  BY <1>2, <1>3 DEF Bounded
<1>. QED  BY <1>4, <1>5

\* The peer actor: a packet goes to the queue, or past it if it is empty.
LEMMA PeerOrder ==
  ASSUME Types, Order, PeerStep
  PROVE  Order'
<1>. DEFINE p == pinbox[1][2]
            e == Len(winbox) + 1
            f == Len(queue) + 1
<1>1. /\ pinbox # <<>> /\ pinbox' = Tail(pinbox)
      /\ UNCHANGED <<buffer, wire, sent>> /\ Out' = Out
  BY DEF PeerStep, Out
<1>2. /\ Head(pinbox) = pinbox[1] /\ 1 \in DOMAIN pinbox /\ p \in Nat
      /\ \A i \in DOMAIN pinbox' : i >= 1 /\ i + 1 \in DOMAIN pinbox /\ pinbox'[i] = pinbox[i + 1]
  BY <1>1 DEF Types, PeerMessage
<1>3. e \in Nat /\ f \in Nat
  BY DEF Types
<1>. HIDE DEF p
<1>4. /\ \A s \in Place : Shift({4})[s] = IF s = 4 THEN 1 ELSE 0
      /\ \A s \in Place : Shift({3, 4})[s] = IF s \in {3, 4} THEN 1 ELSE 0
  BY DEF Shift
<1>5. Place = {1, 2, 3, 4} /\ 2 < 3 /\ 3 < 4 /\ 2 < 4
  BY DEF Place
<1>6. ASSUME NEW n \in Nat, SendPacket(n)
      PROVE  /\ DOMAIN winbox' = DOMAIN winbox \cup {e}
             /\ \A i \in DOMAIN winbox : i < e /\ winbox'[i] = winbox[i]
             /\ winbox'[e] = <<"send", n>>
             /\ \A i \in DOMAIN winbox' : winbox'[i][1] = "keepalive" => winbox'[i][2] = 0
  <2>1. <<"send", n>> \in WriterMessage
    BY DEF WriterMessage
  <2>2. /\ DOMAIN winbox' = DOMAIN winbox \cup {e}
        /\ \A i \in DOMAIN winbox : i < e /\ winbox'[i] = winbox[i]
        /\ winbox'[e] = <<"send", n>>
    BY <1>6, <2>1 DEF SendPacket, Types
  <2>. QED  BY <2>2 DEF Order
<1>. HIDE DEF e
<1>7. ASSUME Sorted' /\ Bounded', ready' => queue' = <<>>,
             \A i \in DOMAIN winbox' : winbox'[i][1] = "keepalive" => winbox'[i][2] = 0
      PROVE  Order'
  BY <1>1, <1>7 DEF Order
<1>8. CASE pinbox[1][1] = "push" /\ Push(p)
  <2>1. At(4, 1, p)
    BY <1>2, <1>8 DEF At, p
  <2>2. CASE ready /\ SendPacket(p) /\ ready' = FALSE /\ UNCHANGED queue
    <3>1. queue = <<>> /\ DOMAIN queue = {}
      BY <2>2 DEF Order
    <3>2. Moves({4}, 4, 2, e, p)
      BY <1>1, <1>2, <1>3, <1>4, <1>5, <1>6, <2>2, <3>1, SMTT(30) DEF Moves, At
    <3>3. Sorted' /\ Bounded'
      BY <1>1, <1>2, <1>3, <1>5, <2>1, <3>2, Moved, ZenonT(30) DEF Order
    <3>. QED  BY <1>2, <1>6, <1>7, <2>2, <3>3
  <2>3. CASE ~ready /\ queue' = Append(queue, p) /\ UNCHANGED <<ready, winbox>>
    <3>1. /\ DOMAIN queue' = DOMAIN queue \cup {f}
          /\ \A i \in DOMAIN queue : i < f /\ queue'[i] = queue[i]
          /\ queue'[f] = p
      BY <1>2, <2>3 DEF Types
    <3>2. Moves({4}, 4, 3, f, p)
      <4>1. winbox' = winbox
        BY <2>3
      <4>. QED  BY <1>1, <1>2, <1>4, <1>5, <3>1, <4>1, SMTT(30) DEF Moves, At
    <3>3. Sorted' /\ Bounded'
      BY <1>1, <1>2, <1>3, <1>5, <2>1, <3>2, Moved, ZenonT(30) DEF Order
    <3>. QED  BY <1>7, <2>3, <3>3 DEF Order
  <2>4. CASE /\ ~ready /\ queue # <<>> /\ queue' = Append(Tail(queue), p)
             /\ UNCHANGED <<ready, winbox>>
    <3>. DEFINE g == Len(queue)
    <3>1. /\ DOMAIN queue' = 1..g /\ g \in Nat
          /\ \A i \in 1..g : i # g => i + 1 \in DOMAIN queue /\ queue'[i] = queue[i + 1]
          /\ queue'[g] = p
      BY <1>2, <2>4 DEF Types
    <3>. HIDE DEF g
    <3>2. Moves({3, 4}, 4, 3, g, p)
      <4>1. winbox' = winbox
        BY <2>4
      <4>. QED  BY <1>1, <1>2, <1>4, <1>5, <3>1, <4>1, SMTT(30) DEF Moves, At
    <3>3. Sorted' /\ Bounded'
      BY <1>1, <1>2, <3>1, <1>5, <2>1, <3>2, Moved, ZenonT(30) DEF Order
    <3>. QED  BY <1>7, <2>4, <3>3 DEF Order
  <2>. QED  BY <1>8, <2>2, <2>3, <2>4, ZenonT(30) DEF Push
<1>9. CASE pinbox[1][1] = "pop" /\ Pop
  <2>1. CASE queue # <<>> /\ SendPacket(Head(queue)) /\ queue' = Tail(queue) /\ UNCHANGED ready
    <3>. DEFINE q == queue[1]
    <3>1. /\ Head(queue) = q /\ q \in Nat /\ 1 \in DOMAIN queue
          /\ \A i \in DOMAIN queue' : i >= 1 /\ i + 1 \in DOMAIN queue /\ queue'[i] = queue[i + 1]
      BY <2>1 DEF Types
    <3>2. At(3, 1, q) /\ SendPacket(q)
      BY <2>1, <3>1 DEF At
    <3>. HIDE DEF q
    <3>3. Moves({3, 4}, 3, 2, e, q)
      BY <1>1, <1>2, <1>3, <1>4, <1>5, <1>6, <3>1, <3>2, SMTT(30) DEF Moves, At
    <3>4. Sorted' /\ Bounded'
      BY <1>1, <1>3, <1>5, <3>1, <3>2, <3>3, Moved, ZenonT(30) DEF Order
    <3>. QED  BY <1>6, <1>7, <2>1, <3>1, <3>2, <3>4, SMTT(30) DEF Order
  <2>2. CASE queue = <<>> /\ winbox' = Append(winbox, <<"flush", 0>>) /\ UNCHANGED queue
    <3>1. /\ DOMAIN winbox' = DOMAIN winbox \cup {e}
          /\ \A i \in DOMAIN winbox : winbox'[i] = winbox[i]
          /\ winbox'[e] = <<"flush", 0>>
      BY <2>2 DEF Types, e
    <3>2. \A s \in Place, i \in Nat, n \in Packet : At(s, i, n)' => At(s, i + Shift({4})[s], n)
      <4>1. queue' = queue
        BY <2>2
      <4>. QED  BY <1>1, <1>2, <1>4, <1>5, <3>1, <4>1, SMTT(30) DEF At
    <3>3. Sorted' /\ Bounded'
      BY <1>1, <3>2, Lost DEF Order
    <3>4. \A i \in DOMAIN winbox' : winbox'[i][1] = "keepalive" => winbox'[i][2] = 0
      BY <3>1 DEF Order
    <3>. QED  BY <1>7, <2>2, <3>3, <3>4
  <2>. QED  BY <1>9, <2>1, <2>2 DEF Pop
<1>10. CASE pinbox[1][1] = "direct" /\ SendPacket(0) /\ UNCHANGED <<queue, ready>>
  <2>1. \A s \in Place, i \in Nat, n \in Packet : At(s, i, n)' => At(s, i + Shift({4})[s], n)
    BY <1>1, <1>2, <1>4, <1>5, <1>6, <1>10, SMTT(30) DEF At, Packet
  <2>2. Sorted' /\ Bounded'
    BY <1>1, <2>1, Lost DEF Order
  <2>. QED  BY <1>6, <1>7, <1>10, <2>2, SMTT(30) DEF Order
<1>. QED  BY <1>2, <1>8, <1>9, <1>10 DEF PeerStep, p

\* The writer actor: packets are written in the order of its messages, and a
\* flush moves what is in the buffer behind what has left.
LEMMA WriterOrder ==
  ASSUME Types, Order, WriterStep
  PROVE  Order'
<1>. DEFINE p == winbox[1][2]
            e == Len(Out) + 1
<1>1. winbox # <<>> /\ UNCHANGED <<queue, ready, sent>>
  BY DEF WriterStep
<1>2. /\ Head(winbox) = winbox[1] /\ 1 \in DOMAIN winbox /\ p \in Nat
      /\ Tail(winbox) \in Seq(WriterMessage)
      /\ \A i \in DOMAIN Tail(winbox) :
           i >= 1 /\ i + 1 \in DOMAIN winbox /\ Tail(winbox)[i] = winbox[i + 1]
  BY <1>1 DEF Types, WriterMessage
<1>3. Out \in Seq(Nat) /\ e \in Nat
  BY DEF Order, Out
<1>. HIDE DEF p
<1>4. \A s \in Place : Shift({2})[s] = IF s = 2 THEN 1 ELSE 0
  BY DEF Shift
<1>5. Place = {1, 2, 3, 4} /\ 1 < 2
  BY DEF Place
<1>6. \A i \in DOMAIN winbox : winbox[i][1] = "keepalive" => winbox[i][2] = 0
  BY DEF Order
<1>7. CASE /\ winbox[1][1] = "keepalive" \/ winbox[1][1] = "send"
           /\ Write(p) /\ UNCHANGED wire
  <2>. DEFINE w == Len(Tail(winbox)) + 1
  <2>1. /\ winbox' = Append(Tail(winbox), <<"check", seq'>>) /\ pinbox' = pinbox
        /\ buffer' = Append(buffer, p) /\ seq' \in Nat
    BY <1>7 DEF Write, Types
  <2>2. <<"check", seq'>> \in WriterMessage
    BY <2>1 DEF WriterMessage
  <2>3. /\ DOMAIN winbox' = DOMAIN Tail(winbox) \cup {w}
        /\ \A i \in DOMAIN Tail(winbox) : winbox'[i] = Tail(winbox)[i]
        /\ winbox'[w] = <<"check", seq'>>
    BY <1>2, <2>1, <2>2
  <2>. HIDE DEF w
  <2>4. \A i \in DOMAIN winbox' :
          \/ i >= 1 /\ i + 1 \in DOMAIN winbox /\ winbox'[i] = winbox[i + 1]
          \/ winbox'[i][1] = "check"
    BY <1>2, <2>3
  <2>5. /\ buffer' \in Seq(Nat) /\ wire' \in Seq(Nat)
        /\ DOMAIN Out' = DOMAIN Out \cup {e}
        /\ \A i \in DOMAIN Out : i < e /\ Out'[i] = Out[i]
        /\ Out'[e] = p
    <3>. DEFINE b == buffer'
    <3>1. /\ wire \in Seq(Nat) /\ buffer \in Seq(Nat) /\ b \in Seq(Nat) /\ wire' = wire
          /\ Len(wire) \in Nat /\ Len(buffer) \in Nat /\ Len(b) = Len(buffer) + 1
          /\ \A i \in 1..Len(buffer) : b[i] = buffer[i]
          /\ b[Len(buffer) + 1] = p
      BY <1>2, <1>7, <2>1 DEF Order
    <3>2. Out' = wire \o b
      BY <3>1 DEF Out
    <3>. HIDE DEF b
    <3>3. /\ wire \o b \in Seq(Nat) /\ Len(wire \o b) = Len(wire) + Len(b)
          /\ \A i \in 1..(Len(wire) + Len(b)) :
               (wire \o b)[i] = IF i <= Len(wire) THEN wire[i] ELSE b[i - Len(wire)]
      BY <3>1, ConcatProperties, Zenon
    <3>4. /\ Out \in Seq(Nat) /\ Len(Out) = Len(wire) + Len(buffer)
          /\ \A i \in 1..(Len(wire) + Len(buffer)) :
               Out[i] = IF i <= Len(wire) THEN wire[i] ELSE buffer[i - Len(wire)]
      BY <3>1, ConcatProperties, Zenon DEF Out
    <3>. DEFINE o == wire \o b
    <3>. HIDE DEF o
    <3>5. /\ DOMAIN Out = 1..(Len(wire) + Len(buffer))
          /\ DOMAIN o = 1..(Len(wire) + Len(buffer) + 1)
          /\ e = Len(wire) + Len(buffer) + 1
      <4>1. DOMAIN Out = 1..Len(Out)
        BY <3>4
      <4>2. DOMAIN o = 1..Len(o) /\ Len(o) = Len(wire) + Len(b)
        BY <3>3 DEF o
      <4>. QED  BY <3>1, <3>4, <4>1, <4>2
    <3>6. \A i \in DOMAIN Out : i < e /\ o[i] = Out[i]
      <4>. SUFFICES ASSUME NEW i \in 1..(Len(wire) + Len(buffer))
                    PROVE  i < e /\ o[i] = Out[i]
        BY <3>5
      <4>1. i < e /\ i \in 1..(Len(wire) + Len(b))
        BY <3>1, <3>5
      <4>2. o[i] = IF i <= Len(wire) THEN wire[i] ELSE b[i - Len(wire)]
        BY <3>3, <4>1 DEF o
      <4>3. ~(i <= Len(wire)) => i - Len(wire) \in 1..Len(buffer)
        BY <3>1
      <4>. QED  BY <3>1, <3>4, <4>1, <4>2, <4>3, ZenonT(30)
    <3>7. DOMAIN o = DOMAIN Out \cup {e} /\ o[e] = p
      <4>1. e \in 1..(Len(wire) + Len(b)) /\ ~(e <= Len(wire)) /\ e - Len(wire) = Len(buffer) + 1
        BY <3>1, <3>5
      <4>2. o[e] = b[e - Len(wire)]
        BY <3>3, <4>1 DEF o
      <4>3. DOMAIN o = DOMAIN Out \cup {e}
        BY <3>1, <3>5
      <4>. QED  BY <3>1, <4>1, <4>2, <4>3, SMTT(30)
    <3>. QED  BY <3>1, <3>2, <3>6, <3>7, SMTT(30) DEF b, o
  <2>. HIDE DEF e
  <2>6. p # 0 => At(2, 1, p)
    BY <1>2, <1>6, <1>7, SMTT(30) DEF At, p
  <2>7. Moves({2}, 2, 1, e, p)
    BY <1>1, <1>4, <1>5, <2>1, <2>4, <2>5, SMTT(30) DEF Moves, At
  <2>8. Sorted' /\ Bounded'
    <3>1. Sorted /\ Bounded /\ sent' = sent
      BY <1>1 DEF Order
    <3>. QED  BY <1>2, <1>3, <1>5, <2>6, <2>7, <3>1, Moved, ZenonT(30)
  <2>9. \A i \in DOMAIN winbox' : winbox'[i][1] = "keepalive" => winbox'[i][2] = 0
    BY <1>6, <2>4
  <2>. QED  BY <1>1, <2>5, <2>8, <2>9 DEF Order
<1>8. CASE /\ winbox' = Tail(winbox)
           /\ \/ UNCHANGED <<buffer, wire>>
              \/ wire' = wire \o buffer /\ buffer' = <<>>
           /\ pinbox' \in {pinbox, Append(pinbox, <<"pop", 0>>)}
  <2>1. buffer' \in Seq(Nat) /\ wire' \in Seq(Nat) /\ Out' = Out
    <3>1. CASE wire' = Out /\ buffer' = <<>>
      <4>1. Out \o <<>> = Out
        BY <1>3, ConcatEmptySeq, Zenon
      <4>2. Out' = Out
        BY <3>1, <4>1, Zenon DEF Out
      <4>. QED  BY <1>3, <3>1, <4>2
    <3>2. CASE UNCHANGED <<buffer, wire>>
      BY <3>2 DEF Order, Out
    <3>. QED  BY <1>8, <3>1, <3>2 DEF Out
  <2>2. \A i \in DOMAIN pinbox' :
          (i \in DOMAIN pinbox /\ pinbox'[i] = pinbox[i]) \/ pinbox'[i][1] = "pop"
    <3>1. <<"pop", 0>> \in PeerMessage
      BY DEF PeerMessage
    <3>2. CASE pinbox' = Append(pinbox, <<"pop", 0>>)
      BY <3>1, <3>2 DEF Types
    <3>. QED  BY <1>8, <3>2
  <2>3. \A i \in DOMAIN winbox' : i >= 1 /\ i + 1 \in DOMAIN winbox /\ winbox'[i] = winbox[i + 1]
    BY <1>2, <1>8
  <2>4. \A s \in Place, i \in Nat, n \in Packet : At(s, i, n)' => At(s, i + Shift({2})[s], n)
    BY <1>1, <1>4, <1>5, <2>1, <2>2, <2>3, SMTT(30) DEF At
  <2>5. Sorted' /\ Bounded'
    BY <1>1, <2>4, Lost DEF Order
  <2>6. \A i \in DOMAIN winbox' : winbox'[i][1] = "keepalive" => winbox'[i][2] = 0
    BY <1>6, <2>3
  <2>. QED  BY <1>1, <2>1, <2>5, <2>6 DEF Order
<1>. QED  BY <1>2, <1>7, <1>8 DEF WriterStep, p

\* PeerWriter!InOrder: however the two actors interleave with those who send, and
\* whatever is dropped from the queue, packets leave in the order in which they
\* were sent to the peer.
THEOREM PacketsInOrder == Spec => []InOrder
<1>1. Init => Types /\ Order
  <2>. SUFFICES ASSUME Init PROVE Types /\ Order
    OBVIOUS
  <2>1. Types
    BY InitTypes
  <2>2. /\ buffer \in Seq(Nat) /\ wire \in Seq(Nat)
        /\ DOMAIN Out = {} /\ DOMAIN winbox = {} /\ DOMAIN queue = {}
        /\ DOMAIN pinbox = {1} /\ pinbox[1][1] = "direct"
        /\ queue = <<>>
    BY DEF Init, Out
  <2>3. \A s \in Place, i \in Nat, n \in Packet : ~At(s, i, n)
    BY <2>2 DEF At
  <2>4. Sorted /\ Bounded
    BY <2>3 DEF Sorted, Bounded
  <2>. QED  BY <2>1, <2>2, <2>4 DEF Order
<1>2. Types /\ Order /\ [Next]_vars => (Types /\ Order)'
  <2>. SUFFICES ASSUME Types, Order, [Next]_vars PROVE Types' /\ Order'
    OBVIOUS
  <2>1. Types'
    BY TypesStep
  <2>2. CASE UNCHANGED vars
    <3>1. /\ UNCHANGED <<winbox, queue, pinbox, ready, sent, buffer, wire>> /\ Out' = Out
      BY <2>2 DEF vars, Out
    <3>2. \A s, i, n : At(s, i, n)' <=> At(s, i, n)
      BY <3>1 DEF At
    <3>. QED  BY <2>1, <3>1, <3>2 DEF Order, Sorted, Bounded
  <2>. QED  BY <2>1, <2>2, CallOrder, PeerOrder, WriterOrder DEF Next
<1>3. Types /\ Order => InOrder
  <2>. SUFFICES ASSUME Order, NEW i \in DOMAIN Out, NEW j \in DOMAIN Out,
                       i < j, Out[i] # 0, Out[j] # 0
                PROVE  Out[i] < Out[j]
    BY DEF InOrder, Out
  <2>0. Out \in Seq(Nat)
    BY ConcatProperties, Zenon DEF Order, Out
  <2>1. i \in Nat /\ j \in Nat /\ Out[i] \in Packet /\ Out[j] \in Packet
    BY <2>0 DEF Packet
  <2>2. At(1, i, Out[i]) /\ At(1, j, Out[j]) /\ 1 \in Place
    BY DEF At, Place
  <2>. QED  BY <2>1, <2>2 DEF Order, Sorted
<1>. QED  BY <1>1, <1>2, <1>3, PTL DEF Spec
=============================================================================
