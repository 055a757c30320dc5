--------------------------- MODULE KeepaliveProofs ---------------------------
(***************************************************************************)
(* A connection whose ends both work is never given up, for every timeout, *)
(* keepalive delay and network delay for which the acknowledgement of a    *)
(* packet is due before the deadline.  See Keepalive for the model.        *)
(***************************************************************************)
EXTENDS Keepalive, TLAPS

-----------------------------------------------------------------------------
(* The inductive invariant *)

Packet == {"data", "keepalive"}
Packets == Seq(Packet \X (0..MaxDelay))
Message == {"sent", "recv", "keepalive"} \X Packet

\* The shape of the two monitors and of what is on its way to them.
Types ==
  /\ deadlined \in [End -> BOOLEAN]
  /\ deadline \in [End -> {None} \cup 0..PeerTimeout]
  /\ timer \in [End -> {None, Fired} \cup 0..KeepAliveDelay]
  /\ inbox \in [End -> Seq(Message)]
  /\ net \in [End -> Packets]
  /\ mayS \in [End -> BOOLEAN]
  /\ crashed \in [End -> BOOLEAN]
  /\ timedOut \in [End -> BOOLEAN]

\* There is a read deadline exactly while the monitor believes so.
Deadlines == \A e \in End : deadlined[e] <=> deadline[e] # None

\* Packets s are in the order of their age.
Sorted(s) == \A i, j \in 1..Len(s) : i <= j => s[j][2] <= s[i][2]

\* Packets on their way overtake none, and go to ends that are up.
InAge == \A e \in End : Sorted(net[e]) /\ (~Up(e) => net[e] = <<>>)

\* From position i of inbox s on there is a message of kind k.
Has(s, k, i) == \E j \in i..Len(s) : s[j][1] = k

\* A timer that has fired and is not cleared has its keepalive still to be
\* written, or has it written and not yet counted as sent.
FiredIsKnown ==
  \A e \in End : timer[e] = Fired => Has(inbox[e], "keepalive", 1) \/ Has(inbox[e], "sent", 1)

\* Inbox s has a packet that starts the timer, which nothing after it stops.
Starts(s) ==
  \E j \in 1..Len(s) : s[j] = <<"recv", "data">> /\ ~Has(s, "sent", j)

\* The first of the packets s on their way is read within less than d ticks.
Nears(s, d) == s # <<>> /\ d + s[1][2] > MaxDelay

\* One of the packets s on their way is read and answered by a keepalive, and
\* that is read, within less than d ticks.
Returns(s, d) ==
  \E j \in 1..Len(s) : s[j][1] = "data" /\ d + s[j][2] > KeepAliveDelay + 2 * MaxDelay

\* End o has its keepalive to write, or waits for its timer to write it, or has
\* the packet in its inbox that starts the timer.
Acknowledges(o, d) ==
  \/ Has(inbox[o], "keepalive", 1) /\ d > MaxDelay
  \/ ~Has(inbox[o], "sent", 1) /\ timer[o] >= 0 /\ d > timer[o] + MaxDelay
  \/ Starts(inbox[o]) /\ d > KeepAliveDelay + MaxDelay

\* Within less than d ticks, and after the first i messages in its inbox, the
\* monitor of e hears of something received.
Answered(e, i, d) ==
  \/ d > 0 /\ Has(inbox[e], "recv", i + 1)
  \/ Nears(net[e], d)
  \/ Acknowledges(Other(e), d)
  \/ Returns(net[Other(e)], d)

\* Every deadline there is, and every one that a packet sent is going to set, is
\* cleared in time.
Cleared ==
  \A e \in End :
    /\ deadlined[e] => Answered(e, 0, deadline[e])
    /\ \A i \in 1..Len(inbox[e]) :
         inbox[e][i] = <<"sent", "data">> => Answered(e, i, PeerTimeout)

\* As long as no end has crashed.
Working ==
  (\A e \in End : ~crashed[e])
    => (\A e \in End : ~timedOut[e]) /\ Deadlines /\ FiredIsKnown /\ Cleared

Inv == Types /\ InAge /\ Working

-----------------------------------------------------------------------------
(* Sequences *)

\* What a message appended to an inbox changes.
LEMMA AppendInbox ==
  ASSUME NEW s \in Seq(Message), NEW m \in Message
  PROVE  /\ Append(s, m) \in Seq(Message) /\ Len(Append(s, m)) = Len(s) + 1
         /\ \A k, i : i \in Nat \ {0} =>
              (Has(Append(s, m), k, i) <=> Has(s, k, i) \/ (m[1] = k /\ i <= Len(s) + 1))
         /\ m[1] # "sent" /\ Starts(s) => Starts(Append(s, m))
         /\ m = <<"recv", "data">> => Starts(Append(s, m))
<1>1. /\ Append(s, m) \in Seq(Message) /\ Len(Append(s, m)) = Len(s) + 1
      /\ \A j \in 1..Len(s) : Append(s, m)[j] = s[j]
      /\ Append(s, m)[Len(s) + 1] = m
      /\ Len(s) \in Nat
  OBVIOUS
<1>2. ASSUME NEW k, NEW i \in Nat \ {0}
      PROVE  Has(Append(s, m), k, i) <=> Has(s, k, i) \/ (m[1] = k /\ i <= Len(s) + 1)
  <2>1. ASSUME Has(Append(s, m), k, i) PROVE Has(s, k, i) \/ (m[1] = k /\ i <= Len(s) + 1)
    <3>1. PICK j \in i..Len(Append(s, m)) : Append(s, m)[j][1] = k
      BY <2>1, ZenonT(30) DEF Has
    <3>2. CASE j = Len(s) + 1
      BY <1>1, <3>1, <3>2
    <3>3. CASE j # Len(s) + 1
      <4>1. j \in i..Len(s) /\ j \in 1..Len(s)
        BY <1>1, <3>1, <3>3
      <4>. QED  BY <1>1, <3>1, <4>1, ZenonT(30) DEF Has
    <3>. QED  BY <3>2, <3>3, ZenonT(30)
  <2>2. ASSUME Has(s, k, i) PROVE Has(Append(s, m), k, i)
    <3>1. PICK j \in i..Len(s) : s[j][1] = k
      BY <2>2, ZenonT(30) DEF Has
    <3>. QED  BY <1>1, <3>1 DEF Has
  <2>3. ASSUME m[1] = k, i <= Len(s) + 1 PROVE Has(Append(s, m), k, i)
    BY <1>1, <2>3 DEF Has
  <2>. QED  BY <2>1, <2>2, <2>3, ZenonT(30)
<1>3. ASSUME m[1] # "sent", Starts(s) PROVE Starts(Append(s, m))
  <2>1. PICK j \in 1..Len(s) : s[j] = <<"recv", "data">> /\ ~Has(s, "sent", j)
    BY <1>3, ZenonT(30) DEF Starts
  <2>2. ~Has(Append(s, m), "sent", j) /\ Append(s, m)[j] = s[j] /\ j \in 1..Len(Append(s, m))
    BY <1>1, <1>2, <1>3, <2>1
  <2>. QED  BY <2>1, <2>2, ZenonT(30) DEF Starts
<1>4. ASSUME m = <<"recv", "data">> PROVE Starts(Append(s, m))
  <2>1. ~Has(Append(s, m), "sent", Len(s) + 1)
    BY <1>1, <1>4 DEF Has
  <2>. QED  BY <1>1, <1>4, <2>1 DEF Starts
<1>. QED  BY <1>1, <1>2, <1>3, <1>4, ZenonT(30)

\* What remains of an inbox once its first message is handled.
LEMMA TailInbox ==
  ASSUME NEW s \in Seq(Message), s # <<>>
  PROVE  /\ Head(s) = s[1] /\ Head(s) \in Message
         /\ Tail(s) \in Seq(Message) /\ Len(Tail(s)) = Len(s) - 1 /\ Len(s) \in Nat \ {0}
         /\ \A i \in 1..Len(Tail(s)) : Tail(s)[i] = s[i + 1]
         /\ \A k, i : i \in Nat \ {0} => (Has(Tail(s), k, i) <=> Has(s, k, i + 1))
         /\ \A k : Has(s, k, 1) <=> Head(s)[1] = k \/ Has(Tail(s), k, 1)
         /\ Starts(s) =>
              Starts(Tail(s)) \/ (Head(s) = <<"recv", "data">> /\ ~Has(s, "sent", 1))
<1>1. /\ Tail(s) \in Seq(Message) /\ Len(Tail(s)) = Len(s) - 1 /\ Len(s) \in Nat \ {0}
      /\ \A i \in 1..Len(Tail(s)) : Tail(s)[i] = s[i + 1]
      /\ Head(s) = s[1] /\ Head(s) \in Message
  OBVIOUS
<1>2. ASSUME NEW k, NEW i \in Nat \ {0}
      PROVE  Has(Tail(s), k, i) <=> Has(s, k, i + 1)
  <2>1. ASSUME Has(Tail(s), k, i) PROVE Has(s, k, i + 1)
    <3>1. PICK j \in i..Len(Tail(s)) : Tail(s)[j][1] = k
      BY <2>1, ZenonT(30) DEF Has
    <3>2. j + 1 \in (i + 1)..Len(s) /\ s[j + 1][1] = k
      BY <1>1, <3>1
    <3>. QED  BY <3>2, ZenonT(30) DEF Has
  <2>2. ASSUME Has(s, k, i + 1) PROVE Has(Tail(s), k, i)
    <3>1. PICK j \in (i + 1)..Len(s) : s[j][1] = k
      BY <2>2, ZenonT(30) DEF Has
    <3>2. j - 1 \in i..Len(Tail(s)) /\ j - 1 \in 1..Len(Tail(s)) /\ (j - 1) + 1 = j
      BY <1>1, <3>1
    <3>. QED  BY <1>1, <3>1, <3>2, ZenonT(30) DEF Has
  <2>. QED  BY <2>1, <2>2, ZenonT(30)
<1>3. ASSUME NEW k PROVE Has(s, k, 1) <=> Head(s)[1] = k \/ Has(Tail(s), k, 1)
  <2>1. Has(Tail(s), k, 1) <=> Has(s, k, 2)
    BY <1>2
  <2>2. Has(s, k, 1) <=> s[1][1] = k \/ Has(s, k, 2)
    BY <1>1 DEF Has
  <2>. QED  BY <1>1, <2>1, <2>2, ZenonT(30)
<1>4. ASSUME Starts(s), ~(Head(s) = <<"recv", "data">> /\ ~Has(s, "sent", 1))
      PROVE  Starts(Tail(s))
  <2>1. PICK j \in 1..Len(s) : s[j] = <<"recv", "data">> /\ ~Has(s, "sent", j)
    BY <1>4, ZenonT(30) DEF Starts
  <2>2. j # 1
    BY <1>1, <1>4, <2>1, ZenonT(30)
  <2>3. j - 1 \in 1..Len(Tail(s)) /\ j - 1 \in Nat \ {0} /\ (j - 1) + 1 = j
    BY <1>1, <2>2
  <2>4. ~Has(Tail(s), "sent", j - 1) /\ Tail(s)[j - 1] = s[j]
    BY <1>1, <1>2, <2>1, <2>3, ZenonT(30)
  <2>. QED  BY <2>1, <2>3, <2>4, ZenonT(30) DEF Starts
<1>. QED  BY <1>1, <1>2, <1>3, <1>4, ZenonT(30)

\* An inbox that is empty promises nothing.
LEMMA EmptyInbox == (\A k, i : i \in Nat \ {0} => ~Has(<<>>, k, i)) /\ ~Starts(<<>>)
BY DEF Has, Starts

\* What a packet that is written changes.
LEMMA AppendNet ==
  ASSUME NEW s \in Packets, NEW p \in Packet, NEW d \in Int
  PROVE  /\ Append(s, <<p, 0>>) \in Packets
         /\ Append(s, <<p, 0>>) # <<>>
         /\ Nears(s, d) => Nears(Append(s, <<p, 0>>), d)
         /\ d > MaxDelay => Nears(Append(s, <<p, 0>>), d)
         /\ Returns(s, d) => Returns(Append(s, <<p, 0>>), d)
         /\ p = "data" /\ d > KeepAliveDelay + 2 * MaxDelay => Returns(Append(s, <<p, 0>>), d)
         /\ Sorted(s) => Sorted(Append(s, <<p, 0>>))
<1>. DEFINE P == Packet \X (0..MaxDelay)
<1>a. <<p, 0>> \in P /\ \A x \in P : x[2] \in 0..MaxDelay
  BY KeepaliveAssumption
<1>. HIDE DEF P
<1>b. s \in Seq(P) /\ Packets = Seq(P)
  BY ZenonT(30) DEF Packets, P
<1>c. Append(s, <<p, 0>>) \in Packets
  BY <1>a, <1>b
<1>d. /\ Len(s) \in Nat /\ Len(Append(s, <<p, 0>>)) = Len(s) + 1
      /\ \A j \in 1..Len(s) : Append(s, <<p, 0>>)[j] = s[j]
      /\ Append(s, <<p, 0>>)[Len(s) + 1] = <<p, 0>>
  BY <1>b
<1>e. /\ Append(s, <<p, 0>>) # <<>>
      /\ s # <<>> => 1 \in 1..Len(s)
      /\ s = <<>> => Len(s) = 0
  BY <1>b, <1>d
<1>f. \A j \in 1..Len(s) : s[j][2] \in 0..MaxDelay
  BY <1>a, <1>b
<1>1. /\ Append(s, <<p, 0>>) \in Packets /\ Len(Append(s, <<p, 0>>)) = Len(s) + 1
      /\ \A j \in 1..Len(s) : Append(s, <<p, 0>>)[j] = s[j] /\ s[j][2] \in 0..MaxDelay
      /\ Append(s, <<p, 0>>)[Len(s) + 1] = <<p, 0>>
      /\ Len(s) \in Nat /\ Append(s, <<p, 0>>) # <<>>
      /\ s # <<>> => 1 \in 1..Len(s)
      /\ s = <<>> => Len(s) = 0
  BY <1>c, <1>d, <1>e, <1>f, ZenonT(30)
<1>2. Nears(s, d) => Nears(Append(s, <<p, 0>>), d)
  BY <1>1, ZenonT(30) DEF Nears
<1>3. d > MaxDelay => Nears(Append(s, <<p, 0>>), d)
  BY <1>1, KeepaliveAssumption DEF Nears
<1>4. ASSUME Returns(s, d) PROVE Returns(Append(s, <<p, 0>>), d)
  <2>1. PICK j \in 1..Len(s) : s[j][1] = "data" /\ d + s[j][2] > KeepAliveDelay + 2 * MaxDelay
    BY <1>4, ZenonT(30) DEF Returns
  <2>. QED  BY <1>1, <2>1 DEF Returns
<1>5. p = "data" /\ d > KeepAliveDelay + 2 * MaxDelay => Returns(Append(s, <<p, 0>>), d)
  BY <1>1, KeepaliveAssumption DEF Returns
<1>6. Sorted(s) => Sorted(Append(s, <<p, 0>>))
  <2>1. SUFFICES ASSUME Sorted(s), NEW i \in 1..(Len(s) + 1), NEW j \in 1..(Len(s) + 1), i <= j
                 PROVE  Append(s, <<p, 0>>)[j][2] <= Append(s, <<p, 0>>)[i][2]
    BY <1>d, ZenonT(30) DEF Sorted
  <2>2. CASE j \in 1..Len(s)
    <3>1. i \in 1..Len(s)
      BY <1>d, <2>1, <2>2
    <3>. QED  BY <1>d, <2>1, <2>2, <3>1, ZenonT(30) DEF Sorted
  <2>3. CASE j = Len(s) + 1 /\ i \in 1..Len(s)
    BY <1>d, <1>f, <2>3, KeepaliveAssumption
  <2>4. CASE i = Len(s) + 1 /\ j = Len(s) + 1
    BY <1>d, <2>4
  <2>. QED  BY <1>d, <2>1, <2>2, <2>3, <2>4
<1>. QED  BY <1>1, <1>2, <1>3, <1>4, <1>5, <1>6, ZenonT(30)

\* What remains once the first packet is read.
LEMMA TailNet ==
  ASSUME NEW s \in Packets, NEW d \in Int, s # <<>>
  PROVE  /\ Tail(s) \in Packets /\ Head(s) = s[1] /\ Head(s)[1] \in Packet
         /\ Head(s)[2] \in 0..MaxDelay
         /\ Sorted(s) => Sorted(Tail(s))
         /\ Returns(s, d) =>
              Returns(Tail(s), d) \/ (Head(s)[1] = "data" /\ d > KeepAliveDelay + MaxDelay)
<1>1. /\ Tail(s) \in Packets /\ Head(s) = s[1] /\ Head(s) \in Packet \X (0..MaxDelay)
      /\ Len(s) \in Nat \ {0} /\ Len(Tail(s)) = Len(s) - 1
      /\ \A i \in 1..Len(Tail(s)) : Tail(s)[i] = s[i + 1]
  BY DEF Packets
<1>2. Head(s)[1] \in Packet /\ Head(s)[2] \in 0..MaxDelay
  BY <1>1, ZenonT(30)
<1>3. ASSUME Returns(s, d), ~(Head(s)[1] = "data" /\ d > KeepAliveDelay + MaxDelay)
      PROVE  Returns(Tail(s), d)
  <2>1. PICK j \in 1..Len(s) : s[j][1] = "data" /\ d + s[j][2] > KeepAliveDelay + 2 * MaxDelay
    BY <1>3, ZenonT(30) DEF Returns
  <2>2. j # 1
    BY <1>1, <1>2, <1>3, <2>1, KeepaliveAssumption
  <2>3. j - 1 \in 1..Len(Tail(s)) /\ (j - 1) + 1 = j
    BY <1>1, <2>2
  <2>. QED  BY <1>1, <2>1, <2>3, ZenonT(30) DEF Returns
<1>4. Sorted(s) => Sorted(Tail(s))
  <2>1. SUFFICES ASSUME Sorted(s), NEW i \in 1..Len(Tail(s)), NEW j \in 1..Len(Tail(s)), i <= j
                 PROVE  Tail(s)[j][2] <= Tail(s)[i][2]
    BY ZenonT(30) DEF Sorted
  <2>2. i + 1 \in 1..Len(s) /\ j + 1 \in 1..Len(s) /\ i + 1 <= j + 1
    BY <1>1, <2>1
  <2>. QED  BY <1>1, <2>1, <2>2, ZenonT(30) DEF Sorted
<1>. QED  BY <1>1, <1>2, <1>3, <1>4, ZenonT(30)

\* What a tick does to packets the first of which is not too old.
LEMMA OlderNet ==
  ASSUME NEW s \in Packets, NEW d \in Int, Sorted(s), s # <<>> => Head(s)[2] < MaxDelay
  PROVE  /\ Older(s) \in Packets /\ Sorted(Older(s)) /\ (s = <<>> => Older(s) = <<>>)
         /\ Nears(s, d) => Nears(Older(s), d - 1)
         /\ Returns(s, d) => Returns(Older(s), d - 1)
<1>. DEFINE P == Packet \X (0..MaxDelay)
<1>a. \A x \in P : x[1] \in Packet /\ x[2] \in 0..MaxDelay
  OBVIOUS
<1>b. \A q \in Packet, x \in 0..MaxDelay : <<q, x>> \in P
  OBVIOUS
<1>. HIDE DEF P
<1>c. s \in Seq(P) /\ Packets = Seq(P)
  BY ZenonT(30) DEF Packets, P
<1>1. /\ Len(s) \in Nat /\ DOMAIN s = 1..Len(s)
      /\ \A j \in 1..Len(s) : s[j] \in P
      /\ s # <<>> => 1 \in 1..Len(s) /\ Head(s) = s[1]
  BY <1>c
<1>2. ASSUME NEW j \in 1..Len(s)
      PROVE  s[j][1] \in Packet /\ s[j][2] \in 0..MaxDelay /\ s[j][2] + 1 \in 0..MaxDelay
  <2>1. s[j][1] \in Packet /\ s[j][2] \in 0..MaxDelay
    BY <1>a, <1>1, ZenonT(30)
  <2>2. s # <<>> /\ 1 \in 1..Len(s) /\ 1 <= j
    BY <1>1
  <2>3. s[j][2] <= s[1][2] /\ s[1][2] \in 0..MaxDelay
    BY <1>a, <1>1, <2>2, ZenonT(30) DEF Sorted
  <2>. QED  BY <1>1, <2>1, <2>2, <2>3, KeepaliveAssumption
<1>3. /\ Older(s) \in [1..Len(s) -> P]
      /\ \A j \in 1..Len(s) : Older(s)[j] = <<s[j][1], s[j][2] + 1>>
  BY <1>b, <1>1, <1>2, ZenonT(30) DEF Older
<1>4. Older(s) \in Seq(P) /\ Len(Older(s)) = Len(s)
  BY <1>1, <1>3
<1>5. \A j \in 1..Len(s) : Older(s)[j][1] = s[j][1] /\ Older(s)[j][2] = s[j][2] + 1
  BY <1>3
<1>6. Sorted(Older(s))
  <2>1. SUFFICES ASSUME NEW i \in 1..Len(s), NEW j \in 1..Len(s), i <= j
                 PROVE  Older(s)[j][2] <= Older(s)[i][2]
    BY <1>4, ZenonT(30) DEF Sorted
  <2>2. s[j][2] <= s[i][2]
    BY <2>1, ZenonT(30) DEF Sorted
  <2>. QED  BY <1>2, <1>5, <2>2
<1>7. s = <<>> => Older(s) = <<>>
  BY <1>1, <1>4
<1>8. ASSUME Nears(s, d) PROVE Nears(Older(s), d - 1)
  <2>1. s # <<>> /\ 1 \in 1..Len(s) /\ d + s[1][2] > MaxDelay
    BY <1>1, <1>8, ZenonT(30) DEF Nears
  <2>2. Older(s) # <<>>
    BY <1>1, <1>4, <2>1
  <2>. QED  BY <1>2, <1>5, <2>1, <2>2, KeepaliveAssumption DEF Nears
<1>9. ASSUME Returns(s, d) PROVE Returns(Older(s), d - 1)
  <2>1. PICK j \in 1..Len(s) : s[j][1] = "data" /\ d + s[j][2] > KeepAliveDelay + 2 * MaxDelay
    BY <1>9, ZenonT(30) DEF Returns
  <2>2. Older(s)[j][1] = "data" /\ Older(s)[j][2] = s[j][2] + 1 /\ s[j][2] \in Int
    BY <1>2, <1>5, <2>1
  <2>3. (d - 1) + Older(s)[j][2] > KeepAliveDelay + 2 * MaxDelay
    BY <2>1, <2>2, KeepaliveAssumption
  <2>. QED  BY <1>4, <2>1, <2>2, <2>3, ZenonT(30) DEF Returns
<1>. QED  BY <1>c, <1>4, <1>6, <1>7, <1>8, <1>9, ZenonT(30)

-----------------------------------------------------------------------------
(* Types, and the order of packets *)

\* There are two ends.
LEMMA TwoEnds ==
  ASSUME NEW e \in End
  PROVE  /\ Other(e) \in End /\ Other(e) # e /\ Other(Other(e)) = e
         /\ \A x \in End : x = e \/ x = Other(e)
BY DEF End, Other

\* The initial state.
LEMMA InitInv == Init => Inv
<1>. SUFFICES ASSUME Init PROVE Inv
  OBVIOUS
<1>1. \A e \in End : inbox[e] = <<>> /\ net[e] = <<>> /\ timer[e] = None
                     /\ deadlined[e] = FALSE /\ deadline[e] = None
                     /\ crashed[e] = FALSE /\ timedOut[e] = FALSE
  BY ZenonT(30) DEF Init
<1>2. <<>> \in Seq(Message) /\ <<>> \in Packets
  BY DEF Packets
<1>3. Types
  BY <1>2, KeepaliveAssumption, ZenonT(30) DEF Init, Types
<1>4. InAge
  BY <1>1 DEF InAge, Sorted
<1>5. Deadlines /\ FiredIsKnown /\ Cleared
  BY <1>1 DEF Deadlines, FiredIsKnown, Cleared, None, Fired
<1>. QED  BY <1>1, <1>3, <1>4, <1>5, ZenonT(30) DEF Inv, Working

\* What an end that writes a packet changes (peerWriter._write).
LEMMA WriteEffect ==
  ASSUME Types, InAge, NEW a \in End, NEW p \in Packet, NEW messages \in Seq(Message),
         Write(a, p, messages)
  PROVE  /\ inbox' \in [End -> Seq(Message)]
         /\ net' \in [End -> Packets]
         /\ inbox'[a] = Append(messages, <<"sent", p>>)
         /\ inbox'[Other(a)] = inbox[Other(a)]
         /\ net'[a] = net[a]
         /\ Up(Other(a)) => net'[Other(a)] = Append(net[Other(a)], <<p, 0>>)
         /\ \A e \in End : Sorted(net'[e]) /\ (~Up(e) => net'[e] = <<>>)
<1>. DEFINE o == Other(a)
<1>1. o \in End /\ o # a /\ \A x \in End : x = a \/ x = o
  BY TwoEnds, ZenonT(30)
<1>2. <<"sent", p>> \in Message
  BY ZenonT(30) DEF Message
<1>3. Append(messages, <<"sent", p>>) \in Seq(Message)
  BY <1>2, AppendInbox, ZenonT(30)
<1>4. /\ inbox' \in [End -> Seq(Message)]
      /\ inbox'[a] = Append(messages, <<"sent", p>>) /\ inbox'[o] = inbox[o]
  BY <1>1, <1>3, ZenonT(30) DEF Write, Types
<1>5. net[a] \in Packets /\ net[o] \in Packets /\ Sorted(net[a]) /\ Sorted(net[o])
  BY <1>1, ZenonT(30) DEF Types, InAge
<1>6. Append(net[o], <<p, 0>>) \in Packets /\ Sorted(Append(net[o], <<p, 0>>))
  BY <1>5, AppendNet
<1>7. CASE Up(o)
  <2>1. net' = [net EXCEPT ![o] = Append(@, <<p, 0>>)]
    BY <1>7, ZenonT(30) DEF Write
  <2>2. net' \in [End -> Packets] /\ net'[a] = net[a] /\ net'[o] = Append(net[o], <<p, 0>>)
    BY <1>1, <1>6, <2>1, ZenonT(30) DEF Types
  <2>3. ~Up(a) => net[a] = <<>>
    BY ZenonT(30) DEF InAge
  <2>. QED  BY <1>1, <1>4, <1>5, <1>6, <1>7, <2>2, <2>3, ZenonT(30)
<1>8. CASE ~Up(o)
  <2>1. net' = net
    BY <1>8, ZenonT(30) DEF Write
  <2>. QED  BY <1>1, <1>4, <1>5, <1>8, <2>1, ZenonT(30) DEF Types, InAge
<1>. QED  BY <1>7, <1>8, ZenonT(30)

\* SendData.
LEMMA SendDataTypes ==
  ASSUME Types, InAge, NEW a \in End, SendData(a)
  PROVE  Types' /\ InAge'
<1>1. "data" \in Packet /\ inbox[a] \in Seq(Message)
  BY ZenonT(30) DEF Types, Packet
<1>2. /\ inbox' \in [End -> Seq(Message)] /\ net' \in [End -> Packets]
      /\ \A e \in End : Sorted(net'[e]) /\ (~Up(e) => net'[e] = <<>>)
  BY <1>1, WriteEffect, ZenonT(30) DEF SendData
<1>3. UNCHANGED <<deadlined, deadline, timer, crashed, timedOut>> /\ mayS' \in [End -> BOOLEAN]
  BY ZenonT(30) DEF SendData, monitor, Types
<1>. QED  BY <1>2, <1>3, ZenonT(30) DEF Types, InAge, Up

\* handler and _handlePacket.
LEMMA ReadTypes ==
  ASSUME Types, InAge, NEW a \in End, Read(a)
  PROVE  Types' /\ InAge'
<1>1. net[a] \in Packets /\ net[a] # <<>> /\ inbox[a] \in Seq(Message) /\ Sorted(net[a])
  BY ZenonT(30) DEF Read, Types, InAge
<1>2. Tail(net[a]) \in Packets /\ Head(net[a])[1] \in Packet /\ Sorted(Tail(net[a]))
  BY <1>1, TailNet
<1>3. <<"recv", Head(net[a])[1]>> \in Message
  BY <1>2, ZenonT(30) DEF Message
<1>4. Append(inbox[a], <<"recv", Head(net[a])[1]>>) \in Seq(Message)
  BY <1>1, <1>3, AppendInbox
<1>5. net' \in [End -> Packets] /\ inbox' \in [End -> Seq(Message)]
  BY <1>2, <1>4, ZenonT(30) DEF Read, Types
<1>6. UNCHANGED <<deadlined, deadline, timer, mayS, crashed, timedOut>> /\ Up(a)
  BY ZenonT(30) DEF Read, monitor
<1>7. \A e \in End : IF e = a THEN net'[e] = Tail(net[a]) ELSE net'[e] = net[e]
  BY ZenonT(30) DEF Read, Types
<1>8. InAge'
  BY <1>2, <1>6, <1>7, ZenonT(30) DEF InAge, Up
<1>. QED  BY <1>5, <1>6, <1>8, ZenonT(30) DEF Types

\* The keepAliveTimer.
LEMMA TimerTypes ==
  ASSUME Types, InAge, NEW a \in End, TimerFires(a)
  PROVE  Types' /\ InAge'
<1>1. <<"keepalive", "keepalive">> \in Message /\ inbox[a] \in Seq(Message)
  BY ZenonT(30) DEF Message, Packet, Types
<1>2. Append(inbox[a], <<"keepalive", "keepalive">>) \in Seq(Message)
  BY <1>1, AppendInbox, ZenonT(30)
<1>3. inbox' \in [End -> Seq(Message)] /\ timer' \in [End -> {None, Fired} \cup 0..KeepAliveDelay]
  BY <1>2, ZenonT(30) DEF TimerFires, Types
<1>. QED  BY <1>3, ZenonT(30) DEF TimerFires, Types, InAge, Up

\* An end that is gone, by its deadline or by a crash.
LEMMA GoneTypes ==
  ASSUME Types, InAge, NEW a \in End, ReadFails(a) \/ Crash(a)
  PROVE  Types' /\ InAge'
<1>1. Clear(a)
  BY ZenonT(30) DEF ReadFails, Crash
<1>2. <<>> \in Seq(Message) /\ <<>> \in Packets
  BY DEF Packets
<1>3. /\ deadlined' \in [End -> BOOLEAN]
      /\ deadline' \in [End -> {None} \cup 0..PeerTimeout]
      /\ timer' \in [End -> {None, Fired} \cup 0..KeepAliveDelay]
      /\ inbox' \in [End -> Seq(Message)]
      /\ net' \in [End -> Packets]
      /\ mayS' \in [End -> BOOLEAN]
  BY <1>1, <1>2, ZenonT(30) DEF Clear, Types
<1>4. crashed' \in [End -> BOOLEAN] /\ timedOut' \in [End -> BOOLEAN]
  BY ZenonT(30) DEF ReadFails, Crash, Types
<1>5. \A e \in End : IF e = a THEN net'[e] = <<>> ELSE net'[e] = net[e]
  BY <1>1, ZenonT(30) DEF Clear, Types
<1>6. \A e \in End : e # a => crashed'[e] = crashed[e] /\ timedOut'[e] = timedOut[e]
  BY ZenonT(30) DEF ReadFails, Crash, Types
<1>7. Sorted(<<>>)
  BY DEF Sorted
<1>8. InAge'
  BY <1>5, <1>6, <1>7, ZenonT(30) DEF InAge, Up
<1>. QED  BY <1>3, <1>4, <1>8, ZenonT(30) DEF Types

\* Messages the monitor handles and leaves the network alone.
LEMMA HandleTypes ==
  ASSUME Types, InAge, NEW a \in End, inbox[a] # <<>>,
         inbox' = [inbox EXCEPT ![a] = Tail(@)], UNCHANGED <<net, mayS, crashed, timedOut>>,
         \E p : Sent(a, p) \/ Recv(a, p)
  PROVE  Types' /\ InAge'
<1>1. inbox[a] \in Seq(Message)
  BY ZenonT(30) DEF Types
<1>2. Tail(inbox[a]) \in Seq(Message)
  BY <1>1, TailInbox, ZenonT(30)
<1>3. inbox' \in [End -> Seq(Message)]
  BY <1>2, ZenonT(30) DEF Types
<1>4. /\ deadlined' \in [End -> BOOLEAN]
      /\ deadline' \in [End -> {None} \cup 0..PeerTimeout]
      /\ timer' \in [End -> {None, Fired} \cup 0..KeepAliveDelay]
  <2>1. PICK p : Sent(a, p) \/ Recv(a, p)
    OBVIOUS
  <2>2. PeerTimeout \in 0..PeerTimeout /\ KeepAliveDelay \in 0..KeepAliveDelay
    BY KeepaliveAssumption
  <2>3. /\ deadlined' \in [End -> BOOLEAN]
        /\ deadline' \in [End -> {None} \cup 0..PeerTimeout]
    <3>1. \/ UNCHANGED <<deadline, deadlined>>
          \/ /\ deadline' = [deadline EXCEPT ![a] = PeerTimeout]
             /\ deadlined' = [deadlined EXCEPT ![a] = TRUE]
          \/ /\ deadline' = [deadline EXCEPT ![a] = None]
             /\ deadlined' = [deadlined EXCEPT ![a] = FALSE]
      BY <2>1, ZenonT(30) DEF Sent, Recv
    <3>2. /\ deadline \in [End -> {None} \cup 0..PeerTimeout]
          /\ PeerTimeout \in {None} \cup 0..PeerTimeout /\ None \in {None} \cup 0..PeerTimeout
      BY <2>2, ZenonT(30) DEF Types
    <3>3. deadline' \in [End -> {None} \cup 0..PeerTimeout]
      BY <3>1, <3>2, ZenonT(30)
    <3>4. deadlined' \in [End -> BOOLEAN]
      BY <3>1, ZenonT(30) DEF Types
    <3>. QED  BY <3>3, <3>4, ZenonT(30)
  <2>4. timer' \in [End -> {None, Fired} \cup 0..KeepAliveDelay]
    <3>1. \/ timer' = [timer EXCEPT ![a] = None]
          \/ timer' = [timer EXCEPT ![a] = KeepAliveDelay]
          \/ timer' = timer
      BY <2>1, ZenonT(30) DEF Sent, Recv
    <3>. QED  BY <2>2, <3>1, ZenonT(30) DEF Types
  <2>. QED  BY <2>3, <2>4, ZenonT(30)
<1>5. InAge'
  BY ZenonT(30) DEF InAge, Up
<1>. QED  BY <1>3, <1>4, <1>5, ZenonT(30) DEF Types

\* keepalive.
LEMMA KeepAliveTypes ==
  ASSUME Types, InAge, NEW a \in End, inbox[a] # <<>>, KeepAlive(a),
         UNCHANGED <<mayS, crashed, timedOut>>
  PROVE  Types' /\ InAge'
<1>1. "keepalive" \in Packet /\ inbox[a] \in Seq(Message)
  BY ZenonT(30) DEF Types, Packet
<1>2. Tail(inbox[a]) \in Seq(Message)
  BY <1>1, TailInbox, ZenonT(30)
<1>3. /\ inbox' \in [End -> Seq(Message)] /\ net' \in [End -> Packets]
      /\ \A e \in End : Sorted(net'[e]) /\ (~Up(e) => net'[e] = <<>>)
  BY <1>1, <1>2, WriteEffect, ZenonT(30) DEF KeepAlive
<1>4. UNCHANGED <<deadlined, deadline, timer>>
  BY ZenonT(30) DEF KeepAlive, monitor
<1>. QED  BY <1>3, <1>4, ZenonT(30) DEF Types, InAge, Up

\* What a tick does to each end.
LEMMA TickTypes ==
  ASSUME Types, InAge, Tick
  PROVE  Types' /\ InAge'
<1>1. ASSUME NEW e \in End
      PROVE  net[e] \in Packets /\ Sorted(net[e]) /\ (net[e] # <<>> => Head(net[e])[2] < MaxDelay)
             /\ net'[e] = Older(net[e])
  BY ZenonT(30) DEF Types, InAge, Tick
<1>2. ASSUME NEW e \in End
      PROVE  Older(net[e]) \in Packets /\ Sorted(Older(net[e]))
             /\ (net[e] = <<>> => Older(net[e]) = <<>>)
  <2>1. 0 \in Int
    OBVIOUS
  <2>. QED  BY <1>1, <2>1, OlderNet, ZenonT(30)
<1>3. net' \in [End -> Packets]
  BY <1>2, ZenonT(30) DEF Tick
<1>4. /\ \A t \in {None} \cup 0..PeerTimeout : Sooner(t) \in {None} \cup 0..PeerTimeout
      /\ \A t \in {None, Fired} \cup 0..KeepAliveDelay :
           Sooner(t) \in {None, Fired} \cup 0..KeepAliveDelay
  BY KeepaliveAssumption DEF Sooner, None, Fired
<1>5. /\ deadline' \in [End -> {None} \cup 0..PeerTimeout]
      /\ timer' \in [End -> {None, Fired} \cup 0..KeepAliveDelay]
  BY <1>4, ZenonT(30) DEF Tick, Types
<1>6. \A e \in End : Up(e) \in BOOLEAN
  BY ZenonT(30) DEF Up
<1>7. mayS' \in [End -> BOOLEAN]
  BY <1>6, ZenonT(30) DEF Tick
<1>8. InAge'
  BY <1>1, <1>2, ZenonT(30) DEF InAge, Up, Tick
<1>. QED  BY <1>3, <1>5, <1>7, <1>8, ZenonT(30) DEF Types, Tick

-----------------------------------------------------------------------------
(* Answers in time *)

\* An end that owes a keepalive leaves time for it to arrive.
LEMMA AckSoon ==
  ASSUME Types, NEW o \in End, NEW d \in Int, Acknowledges(o, d)
  PROVE  d > MaxDelay
<1>1. timer[o] \in {None, Fired} \cup 0..KeepAliveDelay
  BY ZenonT(30) DEF Types
<1>. QED  BY <1>1, KeepaliveAssumption DEF Acknowledges, None, Fired

\* An answer is never due in no time.
LEMMA AnswerTakesTime ==
  ASSUME Types, NEW e \in End, NEW i \in Nat, NEW d \in Int, Answered(e, i, d)
  PROVE  d > 0
<1>1. Other(e) \in End
  BY TwoEnds, ZenonT(30)
<1>2. ASSUME NEW s \in Packets, Nears(s, d) PROVE d > 0
  <2>1. s # <<>> /\ d + s[1][2] > MaxDelay
    BY <1>2, ZenonT(30) DEF Nears
  <2>2. Head(s)[2] \in 0..MaxDelay /\ Head(s) = s[1]
    BY <2>1, TailNet, ZenonT(30)
  <2>. QED  BY <2>1, <2>2, KeepaliveAssumption
<1>3. ASSUME NEW s \in Packets, Returns(s, d) PROVE d > 0
  <2>1. PICK j \in 1..Len(s) : s[j][1] = "data" /\ d + s[j][2] > KeepAliveDelay + 2 * MaxDelay
    BY <1>3, ZenonT(30) DEF Returns
  <2>2. s[j] \in Packet \X (0..MaxDelay)
    BY <2>1 DEF Packets
  <2>3. s[j][2] \in 0..MaxDelay
    BY <2>2, ZenonT(30)
  <2>. QED  BY <2>1, <2>3, KeepaliveAssumption
<1>4. net[e] \in Packets /\ net[Other(e)] \in Packets
  BY <1>1, ZenonT(30) DEF Types
<1>5. Acknowledges(Other(e), d) => d > 0
  BY <1>1, AckSoon, KeepaliveAssumption
<1>. QED  BY <1>2, <1>3, <1>4, <1>5, ZenonT(30) DEF Answered

\* The data sent by a are answered, and a's packet is an answer.
LEMMA SendDataWorks ==
  ASSUME Inv, NEW a \in End, SendData(a), \A e \in End : ~crashed[e]
  PROVE  (\A e \in End : ~timedOut'[e]) /\ Deadlines' /\ FiredIsKnown' /\ Cleared'
<1>. DEFINE o == Other(a)
<1>1. /\ o \in End /\ o # a /\ Other(o) = a /\ Other(a) = o
      /\ \A x \in End : x = a \/ x = o
  BY TwoEnds, ZenonT(30)
<1>. HIDE DEF o
<1>2. /\ Types /\ InAge /\ Deadlines /\ FiredIsKnown /\ Cleared
      /\ \A e \in End : ~timedOut[e] /\ Up(e)
  BY ZenonT(30) DEF Inv, Working, Up
<1>3. /\ inbox[a] \in Seq(Message) /\ net[o] \in Packets /\ "data" \in Packet
      /\ <<"sent", "data">> \in Message
  BY <1>1, <1>2, ZenonT(30) DEF Types, Packet, Message
<1>4. /\ inbox'[a] = Append(inbox[a], <<"sent", "data">>) /\ inbox'[o] = inbox[o]
      /\ net'[a] = net[a] /\ net'[o] = Append(net[o], <<"data", 0>>)
  BY <1>1, <1>2, <1>3, WriteEffect DEF SendData
<1>5. UNCHANGED <<deadlined, deadline, timer, crashed, timedOut>>
  BY ZenonT(30) DEF SendData, monitor
<1>6. /\ \A k, i : i \in Nat \ {0} /\ Has(inbox[a], k, i) => Has(inbox'[a], k, i)
      /\ Len(inbox'[a]) = Len(inbox[a]) + 1 /\ Len(inbox[a]) \in Nat
      /\ \A i \in 1..Len(inbox[a]) : inbox'[a][i] = inbox[a][i]
  <2>1. Len(inbox'[a]) = Len(inbox[a]) + 1 /\ Len(inbox[a]) \in Nat
    BY <1>3, <1>4
  <2>2. \A i \in 1..Len(inbox[a]) : inbox'[a][i] = inbox[a][i]
    BY <1>3, <1>4
  <2>. QED  BY <1>3, <1>4, <2>1, <2>2, AppendInbox
<1>7. ASSUME NEW i \in Nat, NEW d \in Int, Answered(a, i, d)
      PROVE  Answered(a, i, d)'
  <2>1. Returns(net[o], d) => Returns(net'[o], d)
    BY <1>3, <1>4, AppendNet
  <2>2. Acknowledges(o, d) => Acknowledges(o, d)'
    BY <1>4, <1>5, ZenonT(30) DEF Acknowledges
  <2>3. Has(inbox[a], "recv", i + 1) => Has(inbox'[a], "recv", i + 1)
    BY <1>6
  <2>. QED  BY <1>1, <1>4, <1>7, <2>1, <2>2, <2>3, ZenonT(30) DEF Answered
<1>8. ASSUME NEW i \in Nat, NEW d \in Int, Answered(o, i, d)
      PROVE  Answered(o, i, d)'
  <2>1. Nears(net[o], d) \/ Acknowledges(a, d) => Nears(net'[o], d)
    BY <1>2, <1>3, <1>4, AppendNet, AckSoon, ZenonT(30)
  <2>. QED  BY <1>1, <1>4, <1>8, <2>1, ZenonT(30) DEF Answered
<1>9. ASSUME NEW i \in Nat PROVE Answered(a, i, PeerTimeout)'
  <2>1. Returns(net'[o], PeerTimeout)
    BY <1>3, <1>4, AppendNet, KeepaliveAssumption
  <2>. QED  BY <1>1, <2>1, ZenonT(30) DEF Answered
<1>10. PeerTimeout \in Int /\ \A e \in End : deadline[e] \in Int
  BY <1>2, KeepaliveAssumption DEF Types, None
<1>11. ASSUME NEW e \in End, deadlined[e]
       PROVE  Answered(e, 0, deadline[e])'
  <2>1. Answered(e, 0, deadline[e])
    BY <1>2, <1>11, ZenonT(30) DEF Cleared
  <2>2. deadline'[e] = deadline[e]
    BY <1>5, ZenonT(30)
  <2>. QED  BY <1>1, <1>7, <1>8, <1>10, <2>1, <2>2, ZenonT(30)
<1>12. ASSUME NEW i \in 1..Len(inbox'[a]), inbox'[a][i] = <<"sent", "data">>
       PROVE  Answered(a, i, PeerTimeout)'
  BY <1>9
<1>13. ASSUME NEW i \in 1..Len(inbox'[o]), inbox'[o][i] = <<"sent", "data">>
       PROVE  Answered(o, i, PeerTimeout)'
  BY <1>1, <1>2, <1>4, <1>8, <1>10, <1>13 DEF Cleared
<1>14. Cleared'
  BY <1>1, <1>5, <1>11, <1>12, <1>13, ZenonT(30) DEF Cleared
<1>15. FiredIsKnown'
  <2>1. \A k : Has(inbox[a], k, 1) => Has(inbox'[a], k, 1)
    BY <1>6
  <2>. QED  BY <1>1, <1>2, <1>4, <1>5, <2>1, ZenonT(30) DEF FiredIsKnown
<1>. QED  BY <1>2, <1>5, <1>14, <1>15, ZenonT(30) DEF Deadlines

\* What a reads is heard of, and starts its timer once it is handled.
LEMMA ReadWorks ==
  ASSUME Inv, NEW a \in End, Read(a), \A e \in End : ~crashed[e]
  PROVE  (\A e \in End : ~timedOut'[e]) /\ Deadlines' /\ FiredIsKnown' /\ Cleared'
<1>. DEFINE o == Other(a)
<1>1. /\ o \in End /\ o # a /\ Other(o) = a /\ Other(a) = o
      /\ \A x \in End : x = a \/ x = o
  BY TwoEnds, ZenonT(30)
<1>. HIDE DEF o
<1>2. /\ Types /\ InAge /\ Deadlines /\ FiredIsKnown /\ Cleared
      /\ \A e \in End : ~timedOut[e] /\ Up(e)
  BY ZenonT(30) DEF Inv, Working, Up
<1>. DEFINE m == <<"recv", Head(net[a])[1]>>
<1>3. /\ inbox[a] \in Seq(Message) /\ net[a] \in Packets /\ net[a] # <<>>
      /\ Head(net[a])[1] \in Packet /\ Head(net[a])[2] \in 0..MaxDelay
      /\ Head(net[a]) = net[a][1]
  BY <1>2, TailNet DEF Types, Read
<1>4. /\ inbox'[a] = Append(inbox[a], m) /\ inbox'[o] = inbox[o]
      /\ net'[a] = Tail(net[a]) /\ net'[o] = net[o]
  BY <1>1, <1>2, ZenonT(30) DEF Read, Types
<1>5. UNCHANGED <<deadlined, deadline, timer, crashed, timedOut>>
  BY ZenonT(30) DEF Read, monitor
<1>6. m \in Message /\ m[1] = "recv" /\ (Head(net[a])[1] = "data" => m = <<"recv", "data">>)
  BY <1>3, ZenonT(30) DEF Message
<1>. HIDE DEF m
<1>7. /\ Len(inbox'[a]) = Len(inbox[a]) + 1 /\ Len(inbox[a]) \in Nat
      /\ \A i \in 1..Len(inbox[a]) : inbox'[a][i] = inbox[a][i]
      /\ inbox'[a][Len(inbox[a]) + 1] = m
  BY <1>3, <1>4
<1>8. /\ \A k, i : i \in Nat \ {0} =>
           (Has(inbox'[a], k, i) <=> Has(inbox[a], k, i) \/ (m[1] = k /\ i <= Len(inbox[a]) + 1))
      /\ Starts(inbox[a]) => Starts(inbox'[a])
      /\ Head(net[a])[1] = "data" => Starts(inbox'[a])
  BY <1>3, <1>4, <1>6, AppendInbox
<1>9. ASSUME NEW i \in 0..Len(inbox[a]), NEW d \in Int, Answered(a, i, d)
      PROVE  Answered(a, i, d)'
  <2>1. i + 1 \in Nat \ {0} /\ i + 1 <= Len(inbox[a]) + 1
    BY <1>7
  <2>2. Has(inbox'[a], "recv", i + 1)
    BY <1>6, <1>8, <2>1, ZenonT(30)
  <2>3. d > 0
    BY <1>2, <1>9, AnswerTakesTime
  <2>. QED  BY <2>2, <2>3, ZenonT(30) DEF Answered
<1>10. ASSUME NEW i \in Nat, NEW d \in Int, Answered(o, i, d)
       PROVE  Answered(o, i, d)'
  <2>1. \A k : k # "recv" => (Has(inbox'[a], k, 1) <=> Has(inbox[a], k, 1))
    BY <1>6, <1>8
  <2>2. Acknowledges(a, d) => Acknowledges(a, d)'
    BY <1>5, <1>8, <2>1, ZenonT(30) DEF Acknowledges
  <2>3. Returns(net[a], d) => Returns(net'[a], d) \/ Acknowledges(a, d)'
    BY <1>3, <1>4, <1>8, TailNet, ZenonT(30) DEF Acknowledges
  <2>. QED  BY <1>1, <1>4, <1>10, <2>2, <2>3, ZenonT(30) DEF Answered
<1>11. PeerTimeout \in Int /\ \A e \in End : deadline[e] \in Int
  BY <1>2, KeepaliveAssumption DEF Types, None
<1>12. ASSUME NEW e \in End, deadlined[e]
       PROVE  Answered(e, 0, deadline[e])'
  <2>1. Answered(e, 0, deadline[e])
    BY <1>2, <1>12, ZenonT(30) DEF Cleared
  <2>2. deadline'[e] = deadline[e] /\ 0 \in 0..Len(inbox[a])
    BY <1>5, <1>7
  <2>. QED  BY <1>1, <1>9, <1>10, <1>11, <2>1, <2>2, ZenonT(30)
<1>13. ASSUME NEW i \in 1..Len(inbox'[a]), inbox'[a][i] = <<"sent", "data">>
       PROVE  Answered(a, i, PeerTimeout)'
  <2>1. i # Len(inbox[a]) + 1
    BY <1>6, <1>7, <1>13
  <2>2. i \in 1..Len(inbox[a]) /\ i \in 0..Len(inbox[a])
    BY <1>7, <2>1
  <2>3. Answered(a, i, PeerTimeout)
    BY <1>2, <1>7, <1>13, <2>2, ZenonT(30) DEF Cleared
  <2>. QED  BY <1>9, <1>11, <2>2, <2>3, ZenonT(30)
<1>14. ASSUME NEW i \in 1..Len(inbox'[o]), inbox'[o][i] = <<"sent", "data">>
       PROVE  Answered(o, i, PeerTimeout)'
  BY <1>1, <1>2, <1>4, <1>10, <1>11, <1>14 DEF Cleared
<1>15. Cleared'
  BY <1>1, <1>5, <1>12, <1>13, <1>14, ZenonT(30) DEF Cleared
<1>16. FiredIsKnown'
  <2>1. \A k : Has(inbox[a], k, 1) => Has(inbox'[a], k, 1)
    BY <1>8
  <2>. QED  BY <1>1, <1>2, <1>4, <1>5, <2>1, ZenonT(30) DEF FiredIsKnown
<1>. QED  BY <1>2, <1>5, <1>15, <1>16, ZenonT(30) DEF Deadlines

\* A timer that fires leaves a keepalive to be written.
LEMMA TimerWorks ==
  ASSUME Inv, NEW a \in End, TimerFires(a), \A e \in End : ~crashed[e]
  PROVE  (\A e \in End : ~timedOut'[e]) /\ Deadlines' /\ FiredIsKnown' /\ Cleared'
<1>. DEFINE o == Other(a)
<1>1. /\ o \in End /\ o # a /\ Other(o) = a /\ Other(a) = o
      /\ \A x \in End : x = a \/ x = o
  BY TwoEnds, ZenonT(30)
<1>. HIDE DEF o
<1>2. /\ Types /\ InAge /\ Deadlines /\ FiredIsKnown /\ Cleared
      /\ \A e \in End : ~timedOut[e] /\ Up(e)
  BY ZenonT(30) DEF Inv, Working, Up
<1>. DEFINE m == <<"keepalive", "keepalive">>
<1>3. inbox[a] \in Seq(Message)
  BY <1>2, ZenonT(30) DEF Types
<1>4. /\ inbox'[a] = Append(inbox[a], m) /\ inbox'[o] = inbox[o]
      /\ timer'[o] = timer[o]
  BY <1>1, <1>2, ZenonT(30) DEF TimerFires, Types
<1>5. UNCHANGED <<deadlined, deadline, net, crashed, timedOut>>
  BY ZenonT(30) DEF TimerFires
<1>6. m \in Message /\ m[1] = "keepalive" /\ m # <<"sent", "data">>
  BY ZenonT(30) DEF Message, Packet
<1>. HIDE DEF m
<1>7. /\ Len(inbox'[a]) = Len(inbox[a]) + 1 /\ Len(inbox[a]) \in Nat
      /\ \A i \in 1..Len(inbox[a]) : inbox'[a][i] = inbox[a][i]
      /\ inbox'[a][Len(inbox[a]) + 1] = m
  BY <1>3, <1>4
<1>8. \A k, i : i \in Nat \ {0} =>
        (Has(inbox'[a], k, i) <=> Has(inbox[a], k, i) \/ (m[1] = k /\ i <= Len(inbox[a]) + 1))
  BY <1>3, <1>4, <1>6, AppendInbox
<1>9. Has(inbox'[a], "keepalive", 1)
  BY <1>6, <1>7, <1>8
<1>10. ASSUME NEW i \in Nat, NEW d \in Int, Answered(a, i, d)
       PROVE  Answered(a, i, d)'
  <2>1. Has(inbox[a], "recv", i + 1) => Has(inbox'[a], "recv", i + 1)
    BY <1>8
  <2>2. Acknowledges(o, d) => Acknowledges(o, d)'
    BY <1>4, ZenonT(30) DEF Acknowledges
  <2>. QED  BY <1>1, <1>5, <1>10, <2>1, <2>2, ZenonT(30) DEF Answered
<1>11. ASSUME NEW i \in Nat, NEW d \in Int, Answered(o, i, d)
       PROVE  Answered(o, i, d)'
  <2>1. Acknowledges(a, d) => Acknowledges(a, d)'
    BY <1>2, <1>9, AckSoon, ZenonT(30) DEF Acknowledges
  <2>. QED  BY <1>1, <1>4, <1>5, <1>11, <2>1, ZenonT(30) DEF Answered
<1>12. PeerTimeout \in Int /\ \A e \in End : deadline[e] \in Int
  BY <1>2, KeepaliveAssumption DEF Types, None
<1>13. ASSUME NEW e \in End, deadlined[e]
       PROVE  Answered(e, 0, deadline[e])'
  <2>1. Answered(e, 0, deadline[e])
    BY <1>2, <1>13, ZenonT(30) DEF Cleared
  <2>2. deadline'[e] = deadline[e]
    BY <1>5, ZenonT(30)
  <2>. QED  BY <1>1, <1>10, <1>11, <1>12, <2>1, <2>2, ZenonT(30)
<1>14. ASSUME NEW i \in 1..Len(inbox'[a]), inbox'[a][i] = <<"sent", "data">>
       PROVE  Answered(a, i, PeerTimeout)'
  <2>1. i # Len(inbox[a]) + 1
    BY <1>6, <1>7, <1>14, ZenonT(30)
  <2>2. i \in 1..Len(inbox[a])
    BY <1>7, <2>1
  <2>3. Answered(a, i, PeerTimeout)
    BY <1>2, <1>7, <1>14, <2>2, ZenonT(30) DEF Cleared
  <2>. QED  BY <1>10, <1>12, <2>2, <2>3
<1>15. ASSUME NEW i \in 1..Len(inbox'[o]), inbox'[o][i] = <<"sent", "data">>
       PROVE  Answered(o, i, PeerTimeout)'
  BY <1>1, <1>2, <1>4, <1>11, <1>12, <1>15 DEF Cleared
<1>16. Cleared'
  BY <1>1, <1>5, <1>13, <1>14, <1>15, ZenonT(30) DEF Cleared
<1>17. FiredIsKnown'
  BY <1>1, <1>2, <1>4, <1>9, ZenonT(30) DEF FiredIsKnown
<1>. QED  BY <1>2, <1>5, <1>16, <1>17, ZenonT(30) DEF Deadlines

\* No deadline passes.
LEMMA NoReadFails ==
  ASSUME Inv, NEW a \in End, \A e \in End : ~crashed[e]
  PROVE  ~ReadFails(a)
<1>1. Types /\ Deadlines /\ Cleared
  BY ZenonT(30) DEF Inv, Working
<1>2. SUFFICES ASSUME deadline[a] = 0 PROVE FALSE
  BY ZenonT(30) DEF ReadFails
<1>3. deadlined[a]
  BY <1>1, <1>2 DEF Deadlines, None
<1>4. Answered(a, 0, 0)
  BY <1>1, <1>2, <1>3, ZenonT(30) DEF Cleared
<1>. QED  BY <1>1, <1>4, AnswerTakesTime

\* What the end that handles its first message has to hear is still to come.
LEMMA HandleHome ==
  ASSUME Types, NEW a \in End, inbox[a] # <<>>, inbox'[a] = Tail(inbox[a]),
         inbox'[Other(a)] = inbox[Other(a)], timer'[Other(a)] = timer[Other(a)], net' = net
  PROVE  /\ \A i \in Nat, d \in Int : Answered(a, i + 1, d) => Answered(a, i, d)'
         /\ Head(inbox[a])[1] # "recv" =>
              \A d \in Int : Answered(a, 0, d) => Answered(a, 0, d)'
<1>1. inbox[a] \in Seq(Message)
  BY ZenonT(30) DEF Types
<1>2. /\ \A k, i : i \in Nat \ {0} => (Has(inbox'[a], k, i) <=> Has(inbox[a], k, i + 1))
      /\ \A k : Has(inbox[a], k, 1) <=> Head(inbox[a])[1] = k \/ Has(inbox'[a], k, 1)
  BY <1>1, TailInbox
<1>3. ASSUME NEW d \in Int PROVE Acknowledges(Other(a), d) => Acknowledges(Other(a), d)'
  BY ZenonT(30) DEF Acknowledges
<1>4. ASSUME NEW i \in Nat, NEW d \in Int, Answered(a, i + 1, d)
      PROVE  Answered(a, i, d)'
  <2>1. i + 1 \in Nat \ {0} /\ (i + 1) + 1 = i + 2
    OBVIOUS
  <2>2. Has(inbox[a], "recv", (i + 1) + 1) => Has(inbox'[a], "recv", i + 1)
    BY <1>2, <2>1, ZenonT(30)
  <2>. QED  BY <1>3, <1>4, <2>2, ZenonT(30) DEF Answered
<1>5. ASSUME NEW d \in Int, Head(inbox[a])[1] # "recv", Answered(a, 0, d)
      PROVE  Answered(a, 0, d)'
  <2>1. Has(inbox[a], "recv", 0 + 1) => Has(inbox'[a], "recv", 0 + 1)
    BY <1>2, <1>5
  <2>. QED  BY <1>3, <1>5, <2>1, ZenonT(30) DEF Answered
<1>. QED  BY <1>4, <1>5, ZenonT(30)

\* The data that are waiting to be counted as sent are answered still.
LEMMA HandlePending ==
  ASSUME Types, Cleared, NEW a \in End, inbox[a] # <<>>, inbox'[a] = Tail(inbox[a]),
         inbox'[Other(a)] = inbox[Other(a)], timer'[Other(a)] = timer[Other(a)], net' = net,
         NEW i \in 1..Len(inbox'[a]), inbox'[a][i] = <<"sent", "data">>
  PROVE  Answered(a, i, PeerTimeout)'
<1>1. inbox[a] \in Seq(Message)
  BY ZenonT(30) DEF Types
<1>2. i + 1 \in 1..Len(inbox[a]) /\ inbox[a][i + 1] = <<"sent", "data">> /\ i \in Nat
  BY <1>1, TailInbox
<1>3. Answered(a, i + 1, PeerTimeout)
  BY <1>2, ZenonT(30) DEF Cleared
<1>. QED  BY <1>2, <1>3, HandleHome, KeepaliveAssumption

\* sent: the timer is stopped, and a deadline is set if there is none.
LEMMA SentWorks ==
  ASSUME Inv, NEW a \in End, inbox[a] # <<>>, Head(inbox[a])[1] = "sent",
         Sent(a, Head(inbox[a])[2]), inbox' = [inbox EXCEPT ![a] = Tail(@)],
         UNCHANGED <<net, mayS, crashed, timedOut>>, \A e \in End : ~crashed[e]
  PROVE  (\A e \in End : ~timedOut'[e]) /\ Deadlines' /\ FiredIsKnown' /\ Cleared'
<1>. DEFINE o == Other(a)
<1>1. /\ o \in End /\ o # a /\ Other(o) = a /\ Other(a) = o
      /\ \A x \in End : x = a \/ x = o
  BY TwoEnds, ZenonT(30)
<1>. HIDE DEF o
<1>2. /\ Types /\ InAge /\ Deadlines /\ FiredIsKnown /\ Cleared
      /\ \A e \in End : ~timedOut[e] /\ Up(e)
  BY ZenonT(30) DEF Inv, Working, Up
<1>3. inbox[a] \in Seq(Message) /\ Head(inbox[a]) = inbox[a][1] /\ Head(inbox[a]) \in Message
      /\ 1 \in 1..Len(inbox[a])
  BY <1>2, TailInbox DEF Types
<1>4. /\ inbox'[a] = Tail(inbox[a]) /\ inbox'[o] = inbox[o]
      /\ timer'[a] = None /\ timer'[o] = timer[o]
  BY <1>1, <1>2, ZenonT(30) DEF Sent, Types
<1>5. /\ deadlined'[o] = deadlined[o] /\ deadline'[o] = deadline[o]
      /\ \/ deadlined'[a] = deadlined[a] /\ deadline'[a] = deadline[a]
         \/ /\ Head(inbox[a])[2] = "data"
            /\ deadlined'[a] = TRUE /\ deadline'[a] = PeerTimeout
  BY <1>1, <1>2, ZenonT(30) DEF Sent, Types
<1>6. /\ \A k : Has(inbox[a], k, 1) <=> Head(inbox[a])[1] = k \/ Has(inbox'[a], k, 1)
      /\ Starts(inbox[a]) => Starts(inbox'[a])
  <2>1. Head(inbox[a]) # <<"recv", "data">>
    OBVIOUS
  <2>. QED  BY <1>3, <1>4, <2>1, TailInbox
<1>7. /\ \A i \in Nat, d \in Int : Answered(a, i + 1, d) => Answered(a, i, d)'
      /\ \A d \in Int : Answered(a, 0, d) => Answered(a, 0, d)'
  BY <1>1, <1>2, <1>4, HandleHome, ZenonT(30)
<1>8. ASSUME NEW i \in Nat, NEW d \in Int, Answered(o, i, d)
      PROVE  Answered(o, i, d)'
  <2>1. /\ Has(inbox[a], "sent", 1)
        /\ Has(inbox[a], "keepalive", 1) => Has(inbox'[a], "keepalive", 1)
    BY <1>6, ZenonT(30)
  <2>2. Acknowledges(a, d) => Acknowledges(a, d)'
    BY <1>6, <2>1, ZenonT(30) DEF Acknowledges
  <2>. QED  BY <1>1, <1>4, <1>8, <2>2, ZenonT(30) DEF Answered
<1>9. PeerTimeout \in Int /\ \A e \in End : deadline[e] \in Int
  BY <1>2, KeepaliveAssumption DEF Types, None
<1>10. ASSUME deadlined'[o] PROVE Answered(o, 0, deadline[o])'
  <2>1. Answered(o, 0, deadline[o])
    BY <1>1, <1>2, <1>5, <1>10, ZenonT(30) DEF Cleared
  <2>. QED  BY <1>1, <1>5, <1>8, <1>9, <2>1, ZenonT(30)
<1>11. ASSUME deadlined'[a] PROVE Answered(a, 0, deadline[a])'
  <2>1. CASE deadlined'[a] = deadlined[a] /\ deadline'[a] = deadline[a]
    <3>1. Answered(a, 0, deadline[a])
      BY <1>2, <1>11, <2>1, ZenonT(30) DEF Cleared
    <3>. QED  BY <1>7, <1>9, <2>1, <3>1, ZenonT(30)
  <2>2. CASE Head(inbox[a])[2] = "data" /\ deadline'[a] = PeerTimeout
    <3>1. inbox[a][1] = <<"sent", "data">>
      BY <1>3, <2>2 DEF Message
    <3>2. Answered(a, 1, PeerTimeout)
      BY <1>2, <1>3, <3>1, ZenonT(30) DEF Cleared
    <3>3. Answered(a, 0 + 1, PeerTimeout)
      BY <3>2
    <3>. QED  BY <1>7, <1>9, <2>2, <3>3, ZenonT(30)
  <2>. QED  BY <1>5, <2>1, <2>2, ZenonT(30)
<1>12. ASSUME NEW i \in 1..Len(inbox'[a]), inbox'[a][i] = <<"sent", "data">>
       PROVE  Answered(a, i, PeerTimeout)'
  BY <1>1, <1>2, <1>4, <1>12, HandlePending, ZenonT(30)
<1>13. ASSUME NEW i \in 1..Len(inbox'[o]), inbox'[o][i] = <<"sent", "data">>
       PROVE  Answered(o, i, PeerTimeout)'
  BY <1>1, <1>2, <1>4, <1>8, <1>9, <1>13 DEF Cleared
<1>14. Cleared'
  BY <1>1, <1>10, <1>11, <1>12, <1>13, ZenonT(30) DEF Cleared
<1>15. FiredIsKnown'
  BY <1>1, <1>2, <1>4 DEF FiredIsKnown, None, Fired
<1>16. Deadlines'
  <2>1. PeerTimeout # None
    BY KeepaliveAssumption DEF None
  <2>. QED  BY <1>1, <1>2, <1>5, <2>1, ZenonT(30) DEF Deadlines
<1>. QED  BY <1>2, <1>14, <1>15, <1>16, ZenonT(30)

\* recv: the deadline is cleared, and the timer started if none is running.
LEMMA RecvWorks ==
  ASSUME Inv, NEW a \in End, inbox[a] # <<>>, Head(inbox[a])[1] = "recv",
         Recv(a, Head(inbox[a])[2]), inbox' = [inbox EXCEPT ![a] = Tail(@)],
         UNCHANGED <<net, mayS, crashed, timedOut>>, \A e \in End : ~crashed[e]
  PROVE  (\A e \in End : ~timedOut'[e]) /\ Deadlines' /\ FiredIsKnown' /\ Cleared'
<1>. DEFINE o == Other(a)
<1>1. /\ o \in End /\ o # a /\ Other(o) = a /\ Other(a) = o
      /\ \A x \in End : x = a \/ x = o
  BY TwoEnds, ZenonT(30)
<1>. HIDE DEF o
<1>2. /\ Types /\ InAge /\ Deadlines /\ FiredIsKnown /\ Cleared
      /\ \A e \in End : ~timedOut[e] /\ Up(e)
  BY ZenonT(30) DEF Inv, Working, Up
<1>3. inbox[a] \in Seq(Message) /\ Head(inbox[a]) \in Message
  BY <1>2, TailInbox, ZenonT(30) DEF Types
<1>4. /\ inbox'[a] = Tail(inbox[a]) /\ inbox'[o] = inbox[o] /\ timer'[o] = timer[o]
      /\ timer'[a] = IF timer[a] = None /\ Head(inbox[a])[2] = "data"
                       THEN KeepAliveDelay ELSE timer[a]
  BY <1>1, <1>2, ZenonT(30) DEF Recv, Types
<1>5. /\ deadlined'[o] = deadlined[o] /\ deadline'[o] = deadline[o]
      /\ deadlined'[a] = FALSE /\ deadline'[a] = None
  BY <1>1, <1>2, ZenonT(30) DEF Recv, Types
<1>6. /\ \A k : Has(inbox[a], k, 1) <=> Head(inbox[a])[1] = k \/ Has(inbox'[a], k, 1)
      /\ Starts(inbox[a]) => \/ Starts(inbox'[a])
                             \/ Head(inbox[a]) = <<"recv", "data">> /\ ~Has(inbox[a], "sent", 1)
  BY <1>3, <1>4, TailInbox
<1>7. /\ Has(inbox[a], "sent", 1) <=> Has(inbox'[a], "sent", 1)
      /\ Has(inbox[a], "keepalive", 1) <=> Has(inbox'[a], "keepalive", 1)
  BY <1>6, ZenonT(30)
<1>8. timer[a] \in {None, Fired} \cup 0..KeepAliveDelay
  BY <1>2, ZenonT(30) DEF Types
<1>9. ASSUME NEW d \in Int, Acknowledges(a, d)
      PROVE  Acknowledges(a, d)'
  <2>1. CASE Has(inbox[a], "keepalive", 1) /\ d > MaxDelay
    BY <1>7, <2>1, ZenonT(30) DEF Acknowledges
  <2>2. CASE ~Has(inbox[a], "sent", 1) /\ timer[a] >= 0 /\ d > timer[a] + MaxDelay
    <3>1. timer'[a] = timer[a]
      BY <1>4, <2>2 DEF None
    <3>. QED  BY <1>7, <2>2, <3>1, ZenonT(30) DEF Acknowledges
  <2>3. CASE Starts(inbox'[a]) /\ d > KeepAliveDelay + MaxDelay
    BY <2>3, ZenonT(30) DEF Acknowledges
  <2>4. CASE /\ Head(inbox[a]) = <<"recv", "data">> /\ ~Has(inbox[a], "sent", 1)
             /\ d > KeepAliveDelay + MaxDelay
    <3>1. CASE timer[a] = Fired
      <4>1. Has(inbox'[a], "keepalive", 1)
        BY <1>2, <1>7, <2>4, <3>1, ZenonT(30) DEF FiredIsKnown
      <4>2. d > MaxDelay
        BY <2>4, KeepaliveAssumption
      <4>. QED  BY <4>1, <4>2, ZenonT(30) DEF Acknowledges
    <3>2. CASE timer[a] # Fired
      <4>1. Head(inbox[a])[2] = "data"
        BY <2>4
      <4>2. timer'[a] \in 0..KeepAliveDelay
        BY <1>4, <1>8, <3>2, <4>1, KeepaliveAssumption
      <4>3. timer'[a] >= 0 /\ d > timer'[a] + MaxDelay
        BY <2>4, <4>2, KeepaliveAssumption
      <4>. QED  BY <1>7, <2>4, <4>3, ZenonT(30) DEF Acknowledges
    <3>. QED  BY <3>1, <3>2, ZenonT(30)
  <2>. QED  BY <1>6, <1>9, <2>1, <2>2, <2>3, <2>4, ZenonT(30) DEF Acknowledges
<1>10. ASSUME NEW i \in Nat, NEW d \in Int, Answered(o, i, d)
       PROVE  Answered(o, i, d)'
  BY <1>1, <1>4, <1>9, <1>10, ZenonT(30) DEF Answered
<1>11. PeerTimeout \in Int /\ \A e \in End : deadline[e] \in Int
  BY <1>2, KeepaliveAssumption DEF Types, None
<1>12. ASSUME deadlined'[o] PROVE Answered(o, 0, deadline[o])'
  <2>1. Answered(o, 0, deadline[o])
    BY <1>1, <1>2, <1>5, <1>12, ZenonT(30) DEF Cleared
  <2>. QED  BY <1>1, <1>5, <1>10, <1>11, <2>1, ZenonT(30)
<1>13. ASSUME NEW i \in 1..Len(inbox'[a]), inbox'[a][i] = <<"sent", "data">>
       PROVE  Answered(a, i, PeerTimeout)'
  BY <1>1, <1>2, <1>4, <1>13, HandlePending, ZenonT(30)
<1>14. ASSUME NEW i \in 1..Len(inbox'[o]), inbox'[o][i] = <<"sent", "data">>
       PROVE  Answered(o, i, PeerTimeout)'
  BY <1>1, <1>2, <1>4, <1>10, <1>11, <1>14 DEF Cleared
<1>15. Cleared'
  BY <1>1, <1>5, <1>12, <1>13, <1>14, ZenonT(30) DEF Cleared
<1>16. FiredIsKnown'
  <2>1. KeepAliveDelay # Fired
    BY KeepaliveAssumption DEF Fired
  <2>2. timer'[a] = Fired => timer[a] = Fired
    BY <1>4, <2>1, ZenonT(30)
  <2>. QED  BY <1>1, <1>2, <1>4, <1>7, <2>2, ZenonT(30) DEF FiredIsKnown
<1>17. Deadlines'
  BY <1>1, <1>2, <1>5, ZenonT(30) DEF Deadlines
<1>. QED  BY <1>2, <1>15, <1>16, <1>17, ZenonT(30)

\* keepalive: the packet written is an answer.
LEMMA KeepAliveWorks ==
  ASSUME Inv, NEW a \in End, inbox[a] # <<>>, Head(inbox[a])[1] = "keepalive", KeepAlive(a),
         UNCHANGED <<mayS, crashed, timedOut>>, \A e \in End : ~crashed[e]
  PROVE  (\A e \in End : ~timedOut'[e]) /\ Deadlines' /\ FiredIsKnown' /\ Cleared'
<1>. DEFINE o == Other(a)
<1>1. /\ o \in End /\ o # a /\ Other(o) = a /\ Other(a) = o
      /\ \A x \in End : x = a \/ x = o
  BY TwoEnds, ZenonT(30)
<1>. HIDE DEF o
<1>2. /\ Types /\ InAge /\ Deadlines /\ FiredIsKnown /\ Cleared
      /\ \A e \in End : ~timedOut[e] /\ Up(e)
  BY ZenonT(30) DEF Inv, Working, Up
<1>. DEFINE t == Tail(inbox[a])
            m == <<"sent", "keepalive">>
<1>3. /\ inbox[a] \in Seq(Message) /\ t \in Seq(Message) /\ net[o] \in Packets
      /\ "keepalive" \in Packet /\ m \in Message /\ m[1] = "sent" /\ m # <<"sent", "data">>
  BY <1>1, <1>2, TailInbox, ZenonT(30) DEF Types, Packet, Message
<1>4. /\ inbox'[a] = Append(t, m) /\ inbox'[o] = inbox[o]
      /\ net'[a] = net[a] /\ net'[o] = Append(net[o], <<"keepalive", 0>>)
  <2>1. Write(a, "keepalive", t)
    BY ZenonT(30) DEF KeepAlive
  <2>. HIDE DEF t
  <2>. QED  BY <1>1, <1>2, <1>3, <2>1, WriteEffect
<1>5. UNCHANGED <<deadlined, deadline, timer>>
  BY ZenonT(30) DEF KeepAlive, monitor
<1>6. /\ \A k, i : i \in Nat \ {0} => (Has(t, k, i) <=> Has(inbox[a], k, i + 1))
      /\ \A k : Has(inbox[a], k, 1) <=> Head(inbox[a])[1] = k \/ Has(t, k, 1)
      /\ \A i \in 1..Len(t) : t[i] = inbox[a][i + 1] /\ i + 1 \in 1..Len(inbox[a])
  <2>1. \A i \in 1..Len(t) : t[i] = inbox[a][i + 1] /\ i + 1 \in 1..Len(inbox[a])
    BY <1>3, TailInbox
  <2>. QED  BY <1>3, <2>1, TailInbox, ZenonT(30)
<1>. HIDE DEF t, m
<1>7. \A k, i : i \in Nat \ {0} =>
        (Has(inbox'[a], k, i) <=> Has(t, k, i) \/ (m[1] = k /\ i <= Len(t) + 1))
  BY <1>3, <1>4, AppendInbox
<1>8. /\ Len(inbox'[a]) = Len(t) + 1 /\ Len(t) \in Nat
      /\ \A i \in 1..Len(t) : inbox'[a][i] = t[i]
      /\ inbox'[a][Len(t) + 1] = m
  BY <1>3, <1>4
<1>9. ASSUME NEW d \in Int
      PROVE  /\ Acknowledges(o, d) => Acknowledges(o, d)'
             /\ Returns(net[o], d) => Returns(net'[o], d)
             /\ Nears(net[o], d) \/ Acknowledges(a, d) => Nears(net'[o], d)
  <2>1. Acknowledges(o, d) => Acknowledges(o, d)'
    BY <1>4, <1>5, ZenonT(30) DEF Acknowledges
  <2>2. Returns(net[o], d) => Returns(net'[o], d)
    BY <1>3, <1>4, AppendNet
  <2>3. Nears(net[o], d) \/ Acknowledges(a, d) => Nears(net'[o], d)
    BY <1>2, <1>3, <1>4, AppendNet, AckSoon
  <2>. QED  BY <2>1, <2>2, <2>3, ZenonT(30)
<1>10. ASSUME NEW i \in Nat, NEW d \in Int, Answered(a, i + 1, d)
       PROVE  Answered(a, i, d)'
  <2>1. i + 1 \in Nat \ {0}
    OBVIOUS
  <2>2. Has(inbox[a], "recv", (i + 1) + 1) => Has(t, "recv", i + 1)
    BY <1>6, <2>1, ZenonT(30)
  <2>3. Has(t, "recv", i + 1) => Has(inbox'[a], "recv", i + 1)
    BY <1>7, <2>1, ZenonT(30)
  <2>. QED  BY <1>1, <1>4, <1>9, <1>10, <2>2, <2>3, ZenonT(30) DEF Answered
<1>11. ASSUME NEW d \in Int, Answered(a, 0, d)
       PROVE  Answered(a, 0, d)'
  <2>1. Has(inbox[a], "recv", 0 + 1) => Has(t, "recv", 1)
    BY <1>6
  <2>2. Has(t, "recv", 1) => Has(inbox'[a], "recv", 0 + 1)
    BY <1>7
  <2>. QED  BY <1>1, <1>4, <1>9, <1>11, <2>1, <2>2, ZenonT(30) DEF Answered
<1>12. ASSUME NEW i \in Nat, NEW d \in Int, Answered(o, i, d)
       PROVE  Answered(o, i, d)'
  BY <1>1, <1>4, <1>9, <1>12, ZenonT(30) DEF Answered
<1>13. PeerTimeout \in Int /\ \A e \in End : deadline[e] \in Int
  BY <1>2, KeepaliveAssumption DEF Types, None
<1>14. ASSUME NEW e \in End, deadlined[e]
       PROVE  Answered(e, 0, deadline[e])'
  <2>1. Answered(e, 0, deadline[e])
    BY <1>2, <1>14, ZenonT(30) DEF Cleared
  <2>2. deadline'[e] = deadline[e]
    BY <1>5, ZenonT(30)
  <2>. QED  BY <1>1, <1>11, <1>12, <1>13, <2>1, <2>2, ZenonT(30)
<1>15. ASSUME NEW i \in 1..Len(inbox'[a]), inbox'[a][i] = <<"sent", "data">>
       PROVE  Answered(a, i, PeerTimeout)'
  <2>1. i # Len(t) + 1
    BY <1>3, <1>8, <1>15, ZenonT(30)
  <2>2. i \in 1..Len(t) /\ i \in Nat
    BY <1>8, <2>1
  <2>3. Answered(a, i + 1, PeerTimeout)
    BY <1>2, <1>6, <1>8, <1>15, <2>2, ZenonT(30) DEF Cleared
  <2>. QED  BY <1>10, <1>13, <2>2, <2>3, ZenonT(30)
<1>16. ASSUME NEW i \in 1..Len(inbox'[o]), inbox'[o][i] = <<"sent", "data">>
       PROVE  Answered(o, i, PeerTimeout)'
  BY <1>1, <1>2, <1>4, <1>12, <1>13, <1>16 DEF Cleared
<1>17. Cleared'
  BY <1>1, <1>5, <1>14, <1>15, <1>16, ZenonT(30) DEF Cleared
<1>18. FiredIsKnown'
  <2>1. Has(inbox'[a], "sent", 1)
    BY <1>3, <1>7, <1>8
  <2>. QED  BY <1>1, <1>2, <1>4, <1>5, <2>1, ZenonT(30) DEF FiredIsKnown
<1>. QED  BY <1>2, <1>5, <1>17, <1>18, ZenonT(30) DEF Deadlines

\* A tick brings every deadline nearer, and with it what clears it.
LEMMA TickWorks ==
  ASSUME Inv, Tick, \A e \in End : ~crashed[e]
  PROVE  (\A e \in End : ~timedOut'[e]) /\ Deadlines' /\ FiredIsKnown' /\ Cleared'
<1>1. /\ Types /\ InAge /\ Deadlines /\ FiredIsKnown /\ Cleared
      /\ \A e \in End : ~timedOut[e] /\ Up(e)
  BY ZenonT(30) DEF Inv, Working, Up
<1>2. /\ \A e \in End : /\ inbox[e] = <<>> /\ timer[e] # 0 /\ deadline[e] # 0
                        /\ net[e] # <<>> => Head(net[e])[2] < MaxDelay
      /\ \A e \in End : /\ timer'[e] = Sooner(timer[e]) /\ deadline'[e] = Sooner(deadline[e])
                        /\ net'[e] = Older(net[e])
      /\ UNCHANGED <<deadlined, inbox, timedOut>>
  BY <1>1, ZenonT(30) DEF Tick
<1>3. \A e \in End : /\ timer[e] \in {None, Fired} \cup 0..KeepAliveDelay
                     /\ deadline[e] \in {None} \cup 0..PeerTimeout
                     /\ net[e] \in Packets /\ Sorted(net[e])
  BY <1>1, ZenonT(30) DEF Types, InAge
<1>4. ASSUME NEW e \in End, NEW d \in Int
      PROVE  /\ Nears(net[e], d) => Nears(net'[e], d - 1)
             /\ Returns(net[e], d) => Returns(net'[e], d - 1)
  BY <1>2, <1>3, OlderNet, ZenonT(30)
<1>5. ASSUME NEW e \in End PROVE (deadline'[e] = None <=> deadline[e] = None)
                                  /\ (timer'[e] = Fired <=> timer[e] = Fired)
  BY <1>2, <1>3, KeepaliveAssumption DEF Sooner, None, Fired
<1>6. ASSUME NEW o \in End, NEW d \in Int, Acknowledges(o, d)
      PROVE  Acknowledges(o, d - 1)'
  <2>1. ~Has(inbox[o], "keepalive", 1) /\ ~Has(inbox[o], "sent", 1) /\ ~Starts(inbox[o])
    BY <1>2, EmptyInbox
  <2>2. timer[o] >= 0 /\ d > timer[o] + MaxDelay
    BY <1>6, <2>1, ZenonT(30) DEF Acknowledges
  <2>3. timer[o] \in 1..KeepAliveDelay
    BY <1>2, <1>3, <2>2, KeepaliveAssumption DEF None, Fired
  <2>4. timer'[o] = timer[o] - 1
    BY <1>2, <2>3 DEF Sooner
  <2>5. timer'[o] >= 0 /\ d - 1 > timer'[o] + MaxDelay
    BY <2>2, <2>3, <2>4, KeepaliveAssumption
  <2>6. ~Has(inbox'[o], "sent", 1)
    BY <1>2, <2>1, ZenonT(30)
  <2>. QED  BY <2>5, <2>6, ZenonT(30) DEF Acknowledges
<1>7. ASSUME NEW e \in End, deadlined[e]
      PROVE  Answered(e, 0, deadline[e])'
  <2>1. Other(e) \in End
    BY TwoEnds, ZenonT(30)
  <2>a. Answered(e, 0, deadline[e])
    BY <1>1, <1>7, ZenonT(30) DEF Cleared
  <2>b. deadline[e] # None
    BY <1>1, <1>7, ZenonT(30) DEF Deadlines
  <2>2. Answered(e, 0, deadline[e]) /\ deadline[e] \in 1..PeerTimeout
    BY <1>2, <1>3, <2>a, <2>b, KeepaliveAssumption
  <2>3. PICK d \in Int : d = deadline[e]
    BY <2>2
  <2>4. deadline'[e] = d - 1
    BY <1>2, <2>2, <2>3 DEF Sooner
  <2>5. ~Has(inbox[e], "recv", 0 + 1)
    BY <1>2, EmptyInbox
  <2>6. Nears(net[e], d) \/ Acknowledges(Other(e), d) \/ Returns(net[Other(e)], d)
    BY <2>2, <2>3, <2>5, ZenonT(30) DEF Answered
  <2>7. \/ Nears(net'[e], d - 1)
        \/ Acknowledges(Other(e), d - 1)'
        \/ Returns(net'[Other(e)], d - 1)
    BY <1>4, <1>6, <2>1, <2>6, ZenonT(30)
  <2>8. Answered(e, 0, d - 1)'
    BY <2>7, ZenonT(30) DEF Answered
  <2>. QED  BY <2>4, <2>8, ZenonT(30)
<1>8. Cleared'
  <2>1. \A e \in End : Len(inbox'[e]) = 0
    BY <1>2
  <2>. QED  BY <1>2, <1>7, <2>1 DEF Cleared
<1>9. FiredIsKnown'
  BY <1>1, <1>2, <1>5, ZenonT(30) DEF FiredIsKnown
<1>10. Deadlines'
  BY <1>1, <1>2, <1>5, ZenonT(30) DEF Deadlines
<1>. QED  BY <1>1, <1>2, <1>8, <1>9, <1>10, ZenonT(30)

-----------------------------------------------------------------------------
(* The theorem *)

\* What MonitorStep may be.
LEMMA MonitorCases ==
  ASSUME Types, NEW a \in End, MonitorStep(a)
  PROVE  /\ inbox[a] # <<>> /\ UNCHANGED <<mayS, crashed, timedOut>>
         /\ \/ Head(inbox[a])[1] = "keepalive" /\ KeepAlive(a)
            \/ /\ Head(inbox[a])[1] = "sent" /\ Sent(a, Head(inbox[a])[2])
               /\ inbox' = [inbox EXCEPT ![a] = Tail(@)] /\ UNCHANGED net
            \/ /\ Head(inbox[a])[1] = "recv" /\ Recv(a, Head(inbox[a])[2])
               /\ inbox' = [inbox EXCEPT ![a] = Tail(@)] /\ UNCHANGED net
BY ZenonT(30) DEF MonitorStep

\* A step of the monitor keeps the invariant.
LEMMA MonitorInv ==
  ASSUME Inv, NEW a \in End, MonitorStep(a)
  PROVE  Inv'
<1>1. Types /\ InAge
  BY ZenonT(30) DEF Inv
<1>2. inbox[a] # <<>> /\ UNCHANGED <<mayS, crashed, timedOut>>
  BY <1>1, MonitorCases, ZenonT(30)
<1>3. CASE Head(inbox[a])[1] = "keepalive" /\ KeepAlive(a)
  <2>1. Types' /\ InAge'
    BY <1>1, <1>2, <1>3, KeepAliveTypes, ZenonT(30)
  <2>2. Working'
    BY <1>2, <1>3, KeepAliveWorks, ZenonT(30) DEF Working
  <2>. QED  BY <2>1, <2>2, ZenonT(30) DEF Inv
<1>4. CASE /\ Head(inbox[a])[1] = "sent" /\ Sent(a, Head(inbox[a])[2])
           /\ inbox' = [inbox EXCEPT ![a] = Tail(@)] /\ UNCHANGED net
  <2>1. Types' /\ InAge'
    BY <1>1, <1>2, <1>4, HandleTypes, ZenonT(30)
  <2>2. Working'
    BY <1>2, <1>4, SentWorks, ZenonT(30) DEF Working
  <2>. QED  BY <2>1, <2>2, ZenonT(30) DEF Inv
<1>5. CASE /\ Head(inbox[a])[1] = "recv" /\ Recv(a, Head(inbox[a])[2])
           /\ inbox' = [inbox EXCEPT ![a] = Tail(@)] /\ UNCHANGED net
  <2>1. Types' /\ InAge'
    BY <1>1, <1>2, <1>5, HandleTypes, ZenonT(30)
  <2>2. Working'
    BY <1>2, <1>5, RecvWorks, ZenonT(30) DEF Working
  <2>. QED  BY <2>1, <2>2, ZenonT(30) DEF Inv
<1>. QED  BY <1>1, <1>3, <1>4, <1>5, MonitorCases, ZenonT(30)

\* Every step keeps the invariant.
LEMMA NextInv == Inv /\ [Next]_vars => Inv'
<1>. SUFFICES ASSUME Inv, [Next]_vars PROVE Inv'
  OBVIOUS
<1>1. Types /\ InAge
  BY ZenonT(30) DEF Inv
<1>2. ASSUME NEW a \in End, SendData(a) PROVE Inv'
  <2>1. Types' /\ InAge' /\ crashed' = crashed
    BY <1>1, <1>2, SendDataTypes, ZenonT(30) DEF SendData
  <2>. QED  BY <1>2, <2>1, SendDataWorks, ZenonT(30) DEF Inv, Working
<1>3. ASSUME NEW a \in End, Crash(a) PROVE Inv'
  <2>1. Types' /\ InAge'
    BY <1>1, <1>3, GoneTypes, ZenonT(30)
  <2>2. crashed'[a] = TRUE
    BY <1>1, <1>3, ZenonT(30) DEF Crash, Types
  <2>. QED  BY <2>1, <2>2, ZenonT(30) DEF Inv, Working
<1>4. ASSUME NEW a \in End, Read(a) PROVE Inv'
  <2>1. Types' /\ InAge' /\ crashed' = crashed
    BY <1>1, <1>4, ReadTypes, ZenonT(30) DEF Read
  <2>. QED  BY <1>4, <2>1, ReadWorks, ZenonT(30) DEF Inv, Working
<1>5. ASSUME NEW a \in End, TimerFires(a) PROVE Inv'
  <2>1. Types' /\ InAge' /\ crashed' = crashed
    BY <1>1, <1>5, TimerTypes, ZenonT(30) DEF TimerFires
  <2>. QED  BY <1>5, <2>1, TimerWorks, ZenonT(30) DEF Inv, Working
<1>6. ASSUME NEW a \in End, ReadFails(a) PROVE Inv'
  <2>1. Types' /\ InAge' /\ crashed' = crashed
    BY <1>1, <1>6, GoneTypes, ZenonT(30) DEF ReadFails
  <2>. QED  BY <1>6, <2>1, NoReadFails, ZenonT(30) DEF Inv, Working
<1>7. ASSUME Tick PROVE Inv'
  <2>1. Types' /\ InAge' /\ crashed' = crashed
    BY <1>1, <1>7, TickTypes, ZenonT(30) DEF Tick
  <2>. QED  BY <1>7, <2>1, TickWorks, ZenonT(30) DEF Inv, Working
<1>8. CASE UNCHANGED vars
  <2>1. Types' /\ InAge'
    BY <1>1, <1>8, ZenonT(30) DEF vars, Types, InAge, Up
  <2>2. Deadlines => Deadlines'
    BY <1>8, ZenonT(30) DEF vars, Deadlines
  <2>3. FiredIsKnown => FiredIsKnown'
    BY <1>8, ZenonT(30) DEF vars, FiredIsKnown
  <2>4. Cleared => Cleared'
    BY <1>8 DEF vars, Cleared, Answered, Acknowledges
  <2>. QED  BY <1>8, <2>1, <2>2, <2>3, <2>4, ZenonT(30) DEF vars, Inv, Working
<1>. QED  BY <1>2, <1>3, <1>4, <1>5, <1>6, <1>7, <1>8, MonitorInv, ZenonT(30) DEF Next, Due

\* Whatever the ends send or do not send, and for every timeout and delays for
\* which the acknowledgement of a packet is due before the deadline, a connection
\* whose ends both work is never given up.
THEOREM WorkingEndsStay == Spec => []NoFalseTimeout
<1>1. Init => Inv
  BY InitInv, ZenonT(30)
<1>2. Inv /\ [Next]_vars => Inv'
  BY NextInv, ZenonT(30)
<1>3. Inv => NoFalseTimeout
  BY ZenonT(30) DEF Inv, Working, NoFalseTimeout
<1>. QED  BY <1>1, <1>2, <1>3, PTL DEF Spec
=============================================================================
