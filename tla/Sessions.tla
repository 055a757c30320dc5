------------------------------- MODULE Sessions -------------------------------
(***************************************************************************)
(* The encrypted sessions of two nodes (ironwood/encrypted/session.go):    *)
(* how a session is set up with an init and an ack, how both ends ratchet  *)
(* their keys forward, and how they find together again after one of them  *)
(* has lost its session or a message was lost.                             *)
(*                                                                         *)
(* Key pairs are made for a session, a buffer or an init: <<n, c, i>> is   *)
(* the i-th of the c-th chain of keys that node n has begun.  The secret   *)
(* that two keys share is the set of the two.  A box opens with the secret *)
(* and the nonce it was sealed with.  What the signatures and the          *)
(* encryption of inits and acks do is that only the node they are for can  *)
(* read them.                                                              *)
(*                                                                         *)
(* The session manager and the sessions are actors, and a manager hands    *)
(* its messages to a session in order; the two take one step here, since a *)
(* session is nobody else's to read.                                       *)
(***************************************************************************)
EXTENDS Integers, Sequences, SequencesExt

CONSTANTS
  None,       \* a model value: no session, no buffer
  NonceMod,   \* nonces are numbers below this (2^64)
  MaxTime,    \* bound: the last second
  Minute,     \* the seconds of a minute, after which what is not used is dropped
  MaxWrites,  \* bound: node -> how often its application writes
  MaxFaults,  \* bound: messages lost or overtaken, and restarts
  MaxTries    \* writes in a row that may be lost, see Heals

ASSUME SessionsAssumption ==
  {NonceMod, MaxTime, Minute, MaxFaults, MaxTries} \subseteq Nat

Node == {1, 2}
Remote(n) == 3 - n

VARIABLES
  now,       \* the time, in seconds
  session,   \* node -> sessionManager.sessions[remote], or None
  buffer,    \* node -> sessionManager.buffers[remote], or None
  chains,    \* node -> how many chains of keys it has begun
  net,       \* node -> messages on their way to it
  late,      \* bound: a second has passed with messages on their way
  wrote,     \* node -> its application has written in this second
  tries,     \* node -> its writes since the last that arrived or the last fault
  writes,    \* node -> how often it has written
  faults     \* how many faults there have been

vars ==
  <<now, session, buffer, chains, net, late, wrote, tries, writes, faults>>

\* newBoxKeys: the i-th key of the chain n begins next, and the first key that
\* session s has not made yet.
NewKey(n, i) == <<n, chains[n] + 1, i>>
KeyAfter(s) == <<s.nextPub[1], s.nextPub[2], s.nextPub[3] + 1>>

-----------------------------------------------------------------------------
(* Sessions: sessionInfo *)

\* _fixShared
FixShared(s, recvNonce, sendNonce) ==
  [s EXCEPT !.recvNonce = recvNonce, !.sendNonce = sendNonce,
            !.nextSendNonce = 0, !.nextRecvNonce = 0]

\* newSession, whose first init or ack is then taken as an update; made out of
\* the keys of the buffer if there is one.
NewSession(n, init) ==
  [seq |-> init.seq - 1, remoteKeySeq |-> 0, current |-> init.current, next |-> init.next,
   localKeySeq |-> 0, recvPub |-> NewKey(n, -1),
   sendPub |-> IF buffer[n] = None THEN NewKey(n, 0) ELSE buffer[n].init.current,
   nextPub |-> IF buffer[n] = None THEN NewKey(n, 1) ELSE buffer[n].init.next,
   recvNonce |-> 0, sendNonce |-> 0, nextSendNonce |-> 0, nextRecvNonce |-> 0,
   rotated |-> -1, used |-> now]

\* The keys of this end go one step on: the next key is sent from, what was
\* sent from is received with.
Advance(s) ==
  [s EXCEPT !.recvPub = s.sendPub, !.sendPub = s.nextPub, !.nextPub = KeyAfter(s),
            !.localKeySeq = @ + 1]

HandleUpdateKeeps_Mutant(s, init) ==
  FixShared([s EXCEPT !.current = init.current, !.next = init.next, !.seq = init.seq,
                      !.remoteKeySeq = init.keySeq, !.used = now], 0, s.sendNonce)

\* _handleUpdate
HandleUpdate(s, init) ==
  LET told == [s EXCEPT !.current = init.current, !.next = init.next, !.seq = init.seq,
                        !.remoteKeySeq = init.keySeq, !.used = now]
  IN  FixShared(Advance(told), 0, s.sendNonce)

SessionInit(type, current, next, keySeq) ==
  [type |-> type, current |-> current, next |-> next, keySeq |-> keySeq, seq |-> now]

AckOf_Mutant(s) == SessionInit("ack", s.sendPub, s.nextPub, 0)

InitOf(s) == SessionInit("init", s.sendPub, s.nextPub, s.localKeySeq)
AckOf(s) == SessionInit("ack", s.sendPub, s.nextPub, s.localKeySeq)

AfterSend_Mutant(s) == [s EXCEPT !.sendNonce = (@ + 1) % NonceMod, !.used = now]

\* doSend: the session afterwards.  A nonce that overflows rotates the keys.
AfterSend(s) ==
  LET t == [s EXCEPT !.sendNonce = (@ + 1) % NonceMod, !.used = now]
  IN  IF t.sendNonce # 0 THEN t ELSE FixShared(Advance(t), 0, 0)

\* doSend: the message.
TrafficOf(s) ==
  [type |-> "traffic", localKeySeq |-> s.localKeySeq, remoteKeySeq |-> s.remoteKeySeq,
   nonce |-> s.sendNonce, shared |-> {s.current, s.sendPub}, innerKey |-> s.nextPub]

-----------------------------------------------------------------------------
(* The network *)

\* n has taken the next message that was on its way to it and sends out.
Exchange(n, out) == net' = [net EXCEPT ![n] = Tail(@), ![Remote(n)] = @ \o out]

SendTo(n, out) == net' = [net EXCEPT ![Remote(n)] = @ \o out]

-----------------------------------------------------------------------------
(* Inits and acks: _handleInit, _handleAck, _sessionForInit *)

\* A session is made for init, taking over the keys and the packet of the
\* buffer; init is answered with an ack, and the packet follows.
Accept(n, init) ==
  LET s == HandleUpdate(NewSession(n, init), init)
      t == AfterSend(s)
  IN  /\ session[n] = None
      /\ \/ /\ buffer[n] = None
            /\ session' = [session EXCEPT ![n] = s]
            /\ Exchange(n, <<AckOf(s)>>)
            /\ UNCHANGED buffer
         \/ /\ buffer[n] # None
            /\ session' = [session EXCEPT ![n] = t]
            /\ Exchange(n, <<AckOf(s), TrafficOf(t)>>)
            /\ buffer' = [buffer EXCEPT ![n] = None]
      /\ chains' = [chains EXCEPT ![n] = @ + 1]

Update(n, init) ==
  LET s == HandleUpdate(session[n], init)
  IN  /\ session[n] # None
      /\ \/ init.seq <= session[n].seq /\ Exchange(n, <<>>) /\ UNCHANGED session
         \/ /\ init.seq > session[n].seq
            /\ session' = [session EXCEPT ![n] = s]
            /\ Exchange(n, IF init.type = "init" THEN <<AckOf(s)>> ELSE <<>>)
      /\ UNCHANGED <<buffer, chains>>

\* handleData for inits and acks.
HandleInit(n) ==
  /\ net[n] # <<>>
  /\ Head(net[n]).type \in {"init", "ack"}
  /\ Accept(n, Head(net[n])) \/ Update(n, Head(net[n]))
  /\ UNCHANGED <<now, late, wrote, tries, writes, faults>>

-----------------------------------------------------------------------------
(* Traffic: writeTo, _handleTraffic, doRecv *)

\* writeTo; a second write replaces the packet in the buffer and sends the same
\* init again.
Write(n) ==
  /\ ~wrote[n] /\ writes[n] < MaxWrites[n]
  /\ writes' = [writes EXCEPT ![n] = @ + 1]
  /\ wrote' = [wrote EXCEPT ![n] = TRUE]
  /\ tries' = [tries EXCEPT ![n] = @ + 1]
  /\ \/ /\ session[n] # None
        /\ LET s == AfterSend(session[n])
           IN  session' = [session EXCEPT ![n] = s] /\ SendTo(n, <<TrafficOf(s)>>)
        /\ UNCHANGED <<buffer, chains>>
     \/ /\ session[n] = None /\ buffer[n] # None
        /\ buffer' = [buffer EXCEPT ![n].used = now]
        /\ SendTo(n, <<buffer[n].init>>)
        /\ UNCHANGED <<session, chains>>
     \/ /\ session[n] = None /\ buffer[n] = None
        /\ LET init == SessionInit("init", NewKey(n, 0), NewKey(n, 1), 0)
           IN  /\ buffer' = [buffer EXCEPT ![n] = [init |-> init, used |-> now]]
               /\ SendTo(n, <<init>>)
        /\ chains' = [chains EXCEPT ![n] = @ + 1]
        /\ UNCHANGED session
  /\ UNCHANGED <<now, late, faults>>

FromCurrent(s, m) == m.localKeySeq = s.remoteKeySeq
FromNext(s, m) == m.localKeySeq = s.remoteKeySeq + 1
ToRecv(s, m) == m.remoteKeySeq + 1 = s.localKeySeq
ToSend(s, m) == m.remoteKeySeq = s.localKeySeq

\* The cases of doRecv: which secret is tried, and which nonce it must exceed.
Expect(s, m) ==
  CASE FromCurrent(s, m) /\ ToRecv(s, m) ->
         [kind |-> "boring", shared |-> {s.current, s.recvPub}, nonce |-> s.recvNonce]
    [] FromNext(s, m) /\ ToSend(s, m) ->
         [kind |-> "next", shared |-> {s.next, s.sendPub}, nonce |-> s.nextSendNonce]
    [] FromNext(s, m) /\ ToRecv(s, m) ->
         [kind |-> "early", shared |-> {s.next, s.recvPub}, nonce |-> s.nextRecvNonce]
    [] OTHER -> [kind |-> "lost", shared |-> {}, nonce |-> -1]

\* The remote side has ratcheted forward, and so does this one.
Ratchet(s, m) ==
  LET told == [s EXCEPT !.current = s.next, !.next = m.innerKey,
                        !.remoteKeySeq = @ + 1, !.rotated = now]
  IN  FixShared(Advance(told), m.nonce, 0)

\* onSuccess, in each of the cases: at most one ratchet a minute.
AfterRecv(s, m, kind, ratchets) ==
  LET t == [s EXCEPT !.used = now]
      seen == CASE kind = "boring" -> [t EXCEPT !.recvNonce = m.nonce]
                [] kind = "next" -> [t EXCEPT !.nextSendNonce = m.nonce]
                [] kind = "early" -> [t EXCEPT !.nextRecvNonce = m.nonce]
  IN  IF kind # "boring" /\ ratchets THEN Ratchet(seen, m) ELSE seen

\* A minute or more has passed since the last ratchet; when it is a minute to
\* the second, either may be the case.
MayRatchet(s) ==
  CASE s.rotated = -1 \/ now - s.rotated > Minute -> {TRUE}
    [] now - s.rotated = Minute -> BOOLEAN
    [] OTHER -> {FALSE}

\* _handleTraffic without a session: an init with keys that are forgotten.
SelfHeal(n) ==
  /\ net[n] # <<>>
  /\ Head(net[n]).type = "traffic"
  /\ session[n] = None
  /\ Exchange(n, <<SessionInit("init", NewKey(n, 0), NewKey(n, 1), 0)>>)
  /\ chains' = [chains EXCEPT ![n] = @ + 1]
  /\ UNCHANGED <<now, late, session, buffer, wrote, tries, writes, faults>>

\* A message that has been seen is dropped, one that does not open is answered
\* with an init.
DoRecv(n) ==
  LET m == Head(net[n])
      s == session[n]
      e == Expect(s, m)
      opens == e.shared = m.shared
  IN  /\ net[n] # <<>>
      /\ m.type = "traffic"
      /\ s # None
      /\ \/ /\ m.nonce <= e.nonce
            /\ Exchange(n, <<>>)
            /\ UNCHANGED <<session, tries>>
         \/ /\ m.nonce > e.nonce /\ ~opens
            /\ Exchange(n, <<InitOf(s)>>)
            /\ UNCHANGED <<session, tries>>
         \/ /\ m.nonce > e.nonce /\ opens
            /\ \E ratchets \in MayRatchet(s) :
                 session' = [session EXCEPT ![n] = AfterRecv(s, m, e.kind, ratchets)]
            /\ tries' = [tries EXCEPT ![Remote(n)] = 0]
            /\ Exchange(n, <<>>)
      /\ UNCHANGED <<now, late, buffer, chains, wrote, writes, faults>>

-----------------------------------------------------------------------------
(* Time and faults *)

Idle(x) == x # None /\ now - x.used >= Minute

\* The timers of _resetTimer and of _bufferAndInit.
SessionTimeout(n) ==
  /\ Idle(session[n])
  /\ session' = [session EXCEPT ![n] = None]
  /\ UNCHANGED <<now, late, buffer, chains, net, wrote, tries, writes, faults>>

BufferTimeout(n) ==
  /\ Idle(buffer[n])
  /\ buffer' = [buffer EXCEPT ![n] = None]
  /\ UNCHANGED <<now, late, session, chains, net, wrote, tries, writes, faults>>

\* Timers that are due have gone off before the next second.
SecondPasses ==
  /\ now < MaxTime
  /\ \A n \in Node : ~Idle(session[n]) /\ ~Idle(buffer[n])
  /\ now' = now + 1

\* A second in which somebody has written.  Both may write again once all
\* messages have arrived.
Tick ==
  /\ SecondPasses
  /\ \E n \in Node : wrote[n]
  /\ \/ /\ \A n \in Node : net[n] = <<>>
        /\ wrote' = [n \in Node |-> FALSE]
        /\ UNCHANGED late
     \/ /\ \E n \in Node : net[n] # <<>>
        /\ ~late
        /\ late' = TRUE
        /\ UNCHANGED wrote
  /\ UNCHANGED <<session, buffer, chains, net, tries, writes, faults>>

Fault ==
  /\ faults < MaxFaults
  /\ faults' = faults + 1
  /\ tries' = [n \in Node |-> 0]

Lose(n) ==
  /\ net[n] # <<>>
  /\ Fault
  /\ net' = [net EXCEPT ![n] = Tail(@)]
  /\ UNCHANGED <<now, late, session, buffer, chains, wrote, writes>>

\* The second message on its way to n arrives before the first.
Overtake(n) ==
  /\ Len(net[n]) > 1
  /\ Fault
  /\ net' = [net EXCEPT ![n] = <<@[2], @[1]>> \o SubSeq(@, 3, Len(@))]
  /\ UNCHANGED <<now, late, session, buffer, chains, wrote, writes>>

\* The process ends and starts again, which takes more than a second.
Restart(n) ==
  /\ SecondPasses
  /\ Fault
  /\ session' = [session EXCEPT ![n] = None]
  /\ buffer' = [buffer EXCEPT ![n] = None]
  /\ UNCHANGED <<chains, net, late, wrote, writes>>

-----------------------------------------------------------------------------

Init ==
  /\ now = 1
  /\ session = [n \in Node |-> None]
  /\ buffer = [n \in Node |-> None]
  /\ chains = [n \in Node |-> 0]
  /\ net = [n \in Node |-> <<>>]
  /\ late = FALSE
  /\ wrote = [n \in Node |-> FALSE]
  /\ tries = [n \in Node |-> 0]
  /\ faults = 0
  /\ writes = [n \in Node |-> 0]

Next ==
  \/ Tick
  \/ \E n \in Node :
       \/ Write(n) \/ HandleInit(n) \/ SelfHeal(n) \/ DoRecv(n)
       \/ SessionTimeout(n) \/ BufferTimeout(n) \/ Lose(n) \/ Overtake(n)
       \/ Restart(n)

Spec == Init /\ [][Next]_vars

-----------------------------------------------------------------------------
(* Properties *)

\* Whatever was lost, overtaken or forgotten in a restart, an end that goes on
\* writing gets through again: of its writes since the last fault, or since the
\* last one that was received, at most MaxTries are lost (the inits that
\* doRecv and _handleTraffic send when they cannot make sense of a message, the
\* acks that answer them, and the timeouts, mend the session).
Heals == \A n \in Node : tries[n] <= MaxTries

SendSecret(s) == {s.current, s.sendPub}

\* The two ends never seal with the same secret, so that the nonces, which both
\* count from the same number, are not used twice (each update or ratchet takes
\* fresh keys to send from, _handleUpdate, doRecv).
OneWay ==
  (session[1] # None /\ session[2] # None)
     => SendSecret(session[1]) # SendSecret(session[2])

\* A session that goes on sealing with the same secret only counts its nonce
\* up; when the nonce overflows, the keys are rotated first (doSend).
NonceGrows ==
  [][\A n \in Node :
       (session[n] # None /\ session'[n] # None)
          => \/ SendSecret(session'[n]) # SendSecret(session[n])
             \/ session'[n].sendNonce >= session[n].sendNonce]_vars
====
