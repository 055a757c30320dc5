------------------------------ MODULE PacketConn ------------------------------
(***************************************************************************)
(* The reading side of PacketConn (ironwood/network/packetconn.go): the    *)
(* actor that queues arriving traffic and hands it to callers of ReadFrom  *)
(* through a channel of capacity one, the read deadline, and Close.        *)
(*                                                                         *)
(* A packet is the number of its arrival.  The packet queue is the FIFO it *)
(* is for one source (see PacketQueue), and its 25 ms rule may drop the    *)
(* oldest packet at any push.                                              *)
(***************************************************************************)
EXTENDS Integers, Sequences

CONSTANTS
  Reader,      \* goroutines that call ReadFrom
  MaxPackets,  \* bound: packets that arrive
  MaxSets,     \* bound: calls of SetReadDeadline
  MaxPops      \* bound: calls of doPop that wait for their packet

ASSUME PacketConnAssumption == {MaxPackets, MaxSets, MaxPops} \subseteq Nat

Pop == 0
IsPop(m) == m = Pop

VARIABLES
  inbox,      \* messages of pc.actor: Pop, or the number of a packet
  recvq,      \* pc.recvq
  recv,       \* the channel pc.recv
  recvReady,  \* pc.recvReady
  closed,     \* pc.closed
  panicked,   \* doPop met a full channel, and the program ended
  arrived,    \* packets that arrived so far
  reading,    \* reader -> the cancel channel its ReadFrom waits on, 0: not in
              \* ReadFrom
  returned,   \* packets returned, in the order in which ReadFrom took them
  sets,       \* calls of SetReadDeadline; each has a sync.Once and a timer
  chan,       \* the cancel channel of the deadline after each of them
  armed,      \* calls whose timer was started
  used,       \* calls whose Once is used up
  cancelled   \* cancel channels that are closed

vars == <<inbox, recvq, recv, recvReady, closed, panicked, arrived, reading,
          returned, sets, chan, armed, used, cancelled>>
deadline == <<sets, chan, armed, used, cancelled>>
actor == <<inbox, recvq, recvReady, panicked>>

Init ==
  /\ inbox = <<>>
  /\ recvq = <<>>
  /\ recv = <<>>
  /\ recvReady = 0
  /\ closed = FALSE
  /\ panicked = FALSE
  /\ arrived = 0
  /\ reading = [r \in Reader |-> 0]
  /\ returned = <<>>
  /\ sets = 0
  /\ chan = [n \in 0..MaxSets |-> 1]
  /\ armed = {}
  /\ used = {}
  /\ cancelled = {}

-----------------------------------------------------------------------------
(* ReadFrom *)

ReadFrom(r) ==
  /\ ~panicked
  /\ reading[r] = 0
  /\ recvReady + Len(SelectSeq(inbox, IsPop)) < MaxPops
  /\ inbox' = Append(inbox, Pop)
  /\ reading' = [reading EXCEPT ![r] = chan[sets]]
  /\ UNCHANGED <<recvq, recv, recvReady, closed, panicked, arrived, returned, deadline>>

ReadPacket(r) ==
  /\ ~panicked
  /\ reading[r] # 0
  /\ recv # <<>>
  /\ returned' = Append(returned, Head(recv))
  /\ recv' = Tail(recv)
  /\ reading' = [reading EXCEPT ![r] = 0]
  /\ UNCHANGED <<actor, closed, arrived, deadline>>

\* ErrClosed or ErrTimeout; select takes any case that is ready.
ReadError(r) ==
  /\ ~panicked
  /\ reading[r] # 0
  /\ closed \/ reading[r] \in cancelled
  /\ reading' = [reading EXCEPT ![r] = 0]
  /\ UNCHANGED <<actor, recv, closed, arrived, returned, deadline>>

-----------------------------------------------------------------------------
(* The actor *)

Arrive ==
  /\ ~panicked
  /\ arrived < MaxPackets
  /\ arrived' = arrived + 1
  /\ inbox' = Append(inbox, arrived')
  /\ UNCHANGED <<recvq, recv, recvReady, closed, panicked, reading, returned, deadline>>

\* Mutant: a packet goes to the channel whenever there is room in it.
SendNow_Mutant == recv = <<>>

\* Someone waits for a packet: it need not be queued.
SendNow == recvReady > 0

HandleTraffic ==
  /\ ~panicked
  /\ inbox # <<>> /\ ~IsPop(Head(inbox))
  /\ inbox' = Tail(inbox)
  /\ \/ /\ SendNow
        /\ recv = <<>>
        /\ recv' = <<Head(inbox)>>
        /\ recvReady' = recvReady - 1
        /\ UNCHANGED recvq
     \/ /\ SendNow
        /\ closed
        /\ UNCHANGED <<recv, recvReady, recvq>>
     \/ /\ ~SendNow
        /\ recvq' \in {Append(q, Head(inbox)) : q \in {recvq} \cup
                        (IF recvq = <<>> THEN {} ELSE {Tail(recvq)})}
        /\ UNCHANGED <<recv, recvReady>>
  /\ UNCHANGED <<closed, panicked, arrived, reading, returned, deadline>>

\* Mutant: a call that finds the queue empty is not counted.
DoPop_Mutant ==
  /\ ~panicked
  /\ inbox # <<>> /\ IsPop(Head(inbox))
  /\ inbox' = Tail(inbox)
  /\ recvq # <<>> => recv = <<>>
  /\ recv' = IF recvq = <<>> THEN recv ELSE <<Head(recvq)>>
  /\ recvq' = IF recvq = <<>> THEN recvq ELSE Tail(recvq)
  /\ UNCHANGED <<recvReady, closed, panicked, arrived, reading, returned, deadline>>

DoPop ==
  /\ ~panicked
  /\ inbox # <<>> /\ IsPop(Head(inbox))
  /\ inbox' = Tail(inbox)
  /\ \/ /\ recvq = <<>>
        /\ recvReady' = recvReady + 1
        /\ UNCHANGED <<recvq, recv, panicked>>
     \/ /\ recvq # <<>>
        /\ recvq' = Tail(recvq)
        /\ \/ recv = <<>> /\ recv' = <<Head(recvq)>> /\ UNCHANGED panicked
           \/ closed /\ UNCHANGED <<recv, panicked>>
           \/ recv # <<>> /\ ~closed /\ panicked' = TRUE /\ UNCHANGED recv
        /\ UNCHANGED recvReady
  /\ UNCHANGED <<closed, arrived, reading, returned, deadline>>

-----------------------------------------------------------------------------
(* The deadline, and Close *)

\* Mutant: the timer of the call before is only stopped, which is too late when
\* it has fired and its function is about to run.
Disarm_Mutant == UNCHANGED used

\* The Once of the call before is used up, so that its timer does nothing.
Disarm == used' = used \cup {sets}

\* A zero time sets no timer.
SetReadDeadline(zero) ==
  /\ ~panicked
  /\ sets < MaxSets
  /\ sets' = sets + 1
  /\ Disarm
  /\ chan' = [chan EXCEPT ![sets'] =
                IF chan[sets] \in cancelled THEN chan[sets] + 1 ELSE chan[sets]]
  /\ armed' = IF zero THEN armed ELSE armed \cup {sets'}
  /\ UNCHANGED <<actor, recv, closed, arrived, reading, returned, cancelled>>

Fire(n) ==
  /\ ~panicked
  /\ n \in armed
  /\ armed' = armed \ {n}
  /\ used' = used \cup {n}
  /\ cancelled' = IF n \in used THEN cancelled ELSE cancelled \cup {chan[n]}
  /\ UNCHANGED <<actor, recv, closed, arrived, reading, returned, sets, chan>>

Close ==
  /\ ~panicked
  /\ ~closed
  /\ closed' = TRUE
  /\ UNCHANGED <<actor, recv, arrived, reading, returned, deadline>>

-----------------------------------------------------------------------------

Next ==
  \/ \E r \in Reader : ReadFrom(r) \/ ReadPacket(r) \/ ReadError(r)
  \/ Arrive \/ HandleTraffic \/ DoPop
  \/ \E zero \in BOOLEAN : SetReadDeadline(zero)
  \/ \E n \in 1..MaxSets : Fire(n)
  \/ Close

Spec == Init /\ [][Next]_vars

\* The actor runs and a ReadFrom that can return does; whether it is called
\* again is up to the caller.
FairSpec ==
  /\ Spec
  /\ WF_vars(HandleTraffic \/ DoPop)
  /\ \A r \in Reader : WF_vars(ReadPacket(r) \/ ReadError(r))

-----------------------------------------------------------------------------
(* Properties *)

\* With one reader doPop's panic("this should never happen") takes a read that
\* timed out: as long as no deadline has expired, a pop that finds a packet
\* finds room for it in the channel.
NoPanicInTime == cancelled = {} => ~panicked

\* With one reader, whether or not its reads time out, packets are returned in
\* the order of their arrival, each at most once; what is missing was dropped
\* from the queue or is still waiting.
InOrder ==
  \A i, j \in DOMAIN returned : i < j => returned[i] < returned[j]

\* A ReadFrom does not wait while there is a packet for it, and none waits once
\* the PacketConn is closed.
ReadsReturn ==
  \A r \in Reader :
    reading[r] # 0 /\ (closed \/ recvq # <<>> \/ recv # <<>>)
      ~> reading[r] = 0 \/ panicked

\* A deadline that was replaced can no longer expire: the channel that readers
\* wait on is closed only by the timer of the latest SetReadDeadline.
OnlyLatestFires ==
  [][cancelled' # cancelled => sets \notin used /\ sets \in used']_vars
=============================================================================
