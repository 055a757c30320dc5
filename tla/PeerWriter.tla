----------------------------- MODULE PeerWriter -----------------------------
(***************************************************************************)
(* How packets leave through a peer (ironwood/network/peers.go): the peer  *)
(* actor, which queues traffic while the writer is busy, the writer actor  *)
(* with its buffered connection, and the handshake between them: the       *)
(* writer asks for more after the last write it knows of, and the peer     *)
(* becomes ready, and flushes, when it has nothing more.                   *)
(*                                                                         *)
(* Queued packets are numbered as they are sent; protocol messages, which  *)
(* are not queued, and keepalives are 0.  The queue is the FIFO it is for  *)
(* one stream (see PacketQueue).  A packet of Big passes the MTU check of  *)
(* WriteTo, but not the limit of sendPacket once its path is added to it.  *)
(***************************************************************************)
EXTENDS Naturals, Sequences, SequencesExt

CONSTANTS
  MaxQueued,   \* bound: packets sent through the queue
  MaxDirect,   \* bound: protocol messages and keepalives
  Big          \* packets larger than peerMaxMessageSize with their path

ASSUME PeerWriterAssumption ==
  MaxQueued \in Nat /\ MaxDirect \in Nat /\ Big \subseteq 1..MaxQueued

VARIABLES
  pinbox,   \* the peer actor's messages: <<operation, packet>>
  winbox,   \* the writer actor's messages: <<operation, packet or seq>>
  queue,    \* p.queue
  ready,    \* p.ready
  seq,      \* w.seq
  buffer,   \* packets in w.wbuf
  wire,     \* packets flushed to the connection
  dropped,  \* packets dropped from the queue
  sent,     \* packets sent so far
  direct    \* protocol messages and keepalives so far

vars == <<pinbox, winbox, queue, ready, seq, buffer, wire, dropped, sent, direct>>

\* The router's first message to a new peer, a signature request, is on its way.
Init ==
  /\ pinbox = <<<<"direct", 0>>>>
  /\ winbox = <<>>
  /\ queue = <<>>
  /\ ready = FALSE
  /\ seq = 0
  /\ buffer = <<>>
  /\ wire = <<>>
  /\ dropped = {}
  /\ sent = 0
  /\ direct = 0

-----------------------------------------------------------------------------
(* Calls *)

SendQueued ==
  /\ sent < MaxQueued
  /\ sent' = sent + 1
  /\ pinbox' = Append(pinbox, <<"push", sent'>>)
  /\ UNCHANGED <<winbox, queue, ready, seq, buffer, wire, dropped, direct>>

SendDirect ==
  /\ direct < MaxDirect
  /\ direct' = direct + 1
  /\ pinbox' = Append(pinbox, <<"direct", 0>>)
  /\ UNCHANGED <<winbox, queue, ready, seq, buffer, wire, dropped, sent>>

\* The monitor's timer.
KeepAlive ==
  /\ direct < MaxDirect
  /\ direct' = direct + 1
  /\ winbox' = Append(winbox, <<"keepalive", 0>>)
  /\ UNCHANGED <<pinbox, queue, ready, seq, buffer, wire, dropped, sent>>

-----------------------------------------------------------------------------
(* The peer actor *)

SendPacket(n) == winbox' = Append(winbox, <<"send", n>>)

\* A queue whose oldest packet has waited 25 ms loses it.
Push(n) ==
  \/ /\ ready
     /\ SendPacket(n)
     /\ ready' = FALSE
     /\ UNCHANGED <<queue, dropped>>
  \/ /\ ~ready
     /\ queue' = Append(queue, n)
     /\ UNCHANGED <<ready, dropped, winbox>>
  \/ /\ ~ready /\ queue # <<>>
     /\ queue' = Append(Tail(queue), n)
     /\ dropped' = dropped \cup {Head(queue)}
     /\ UNCHANGED <<ready, winbox>>

\* Mutant: the peer is ready whenever it is asked for more.
Pop_Mutant ==
  /\ ready' = TRUE
  /\ queue' = IF queue = <<>> THEN queue ELSE Tail(queue)
  /\ winbox' = Append(winbox, IF queue = <<>> THEN <<"flush", 0>> ELSE <<"send", Head(queue)>>)

\* Mutant: what was written is not flushed.
Pop_MutantFlush ==
  \/ /\ queue # <<>>
     /\ SendPacket(Head(queue))
     /\ queue' = Tail(queue)
     /\ UNCHANGED ready
  \/ /\ queue = <<>>
     /\ ready' = TRUE
     /\ UNCHANGED <<queue, winbox>>

Pop ==
  \/ /\ queue # <<>>
     /\ SendPacket(Head(queue))
     /\ queue' = Tail(queue)
     /\ UNCHANGED ready
  \/ /\ queue = <<>>
     /\ ready' = TRUE
     /\ winbox' = Append(winbox, <<"flush", 0>>)
     /\ UNCHANGED queue

PeerStep ==
  /\ pinbox # <<>>
  /\ pinbox' = Tail(pinbox)
  /\ \/ Head(pinbox)[1] = "push" /\ Push(Head(pinbox)[2])
     \/ Head(pinbox)[1] = "pop" /\ Pop /\ UNCHANGED dropped
     \/ Head(pinbox)[1] = "direct" /\ SendPacket(0) /\ UNCHANGED <<queue, ready, dropped>>
  /\ UNCHANGED <<seq, buffer, wire, sent, direct>>

-----------------------------------------------------------------------------
(* The writer actor *)

\* Mutant: a keepalive does not ask for more traffic.
Write_Mutant(n) ==
  /\ buffer' = Append(buffer, n)
  /\ seq' = seq + 1
  /\ winbox' = IF Head(winbox)[1] = "keepalive"
                 THEN Tail(winbox)
                 ELSE Append(Tail(winbox), <<"check", seq'>>)
  /\ UNCHANGED pinbox

\* The writer sends itself a message to look, after all that is waiting now,
\* whether this was the last write.
Write(n) ==
  /\ buffer' = Append(buffer, n)
  /\ seq' = seq + 1
  /\ winbox' = Append(Tail(winbox), <<"check", seq'>>)
  /\ UNCHANGED pinbox

WriterStep ==
  /\ winbox # <<>>
  /\ LET m == Head(winbox)
     IN  \/ /\ m[1] = "keepalive" \/ (m[1] = "send" /\ m[2] \notin Big)
            /\ Write(m[2])
            /\ UNCHANGED wire
         \/ /\ m[1] = "send" /\ m[2] \in Big
            /\ winbox' = Tail(winbox)
            /\ UNCHANGED <<buffer, seq, pinbox, wire>>
         \/ /\ m[1] = "check"
            /\ winbox' = Tail(winbox)
            /\ pinbox' = IF m[2] = seq THEN Append(pinbox, <<"pop", 0>>) ELSE pinbox
            /\ UNCHANGED <<buffer, seq, wire>>
         \/ /\ m[1] = "flush"
            /\ winbox' = Tail(winbox)
            /\ wire' = wire \o buffer
            /\ buffer' = <<>>
            /\ UNCHANGED <<seq, pinbox>>
  /\ UNCHANGED <<queue, ready, dropped, sent, direct>>

-----------------------------------------------------------------------------

Next == SendQueued \/ SendDirect \/ KeepAlive \/ PeerStep \/ WriterStep

Spec == Init /\ [][Next]_vars

\* Both actors process their messages.
FairSpec == Spec /\ WF_vars(PeerStep) /\ WF_vars(WriterStep)

-----------------------------------------------------------------------------
(* Properties *)

\* Packets reach the connection in the order in which they were sent to the
\* peer, whichever of the two ways to the writer each of them took.
InOrder ==
  LET out == wire \o buffer
  IN  \A i, j \in DOMAIN out : i < j /\ out[i] # 0 /\ out[j] # 0 => out[i] < out[j]

\* No wakeup is lost: while the peer is not ready something will ask it for
\* traffic, a pop in its inbox, the check of the latest write, a packet to be
\* written, or a protocol message.  A packet that is too big is none of these.
SomeoneAsks ==
  \/ ready
  \/ \E i \in DOMAIN pinbox : pinbox[i][1] \in {"pop", "direct"}
  \/ \E i \in DOMAIN winbox :
       \/ winbox[i] = <<"check", seq>>
       \/ winbox[i][1] = "keepalive"
       \/ (winbox[i][1] = "send" /\ winbox[i][2] \notin Big)

\* Every packet accepted for this peer leaves through the connection, flushed,
\* unless the queue dropped it to make room.
AllLeave ==
  \A n \in 1..MaxQueued : sent >= n ~> n \in dropped \/ Contains(wire, n)
=============================================================================
