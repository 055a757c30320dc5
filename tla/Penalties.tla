------------------------------ MODULE Penalties ------------------------------
(***************************************************************************)
(* The cost the router gives a peer connection (ironwood/network/router.go *)
(* _getCost): the lag it measured on the connection plus a penalty kept    *)
(* per key and protocol, which outlives the connection, grows with every   *)
(* disconnect and unanswered request, and halves every five minutes.       *)
(*                                                                         *)
(* The numbers are the code's: lags are in nanoseconds, penalties and the  *)
(* clock in milliseconds.  _sendReqs examines the peers one after another; *)
(* `round` holds those it has still to examine, and no other handler of    *)
(* the router runs until it is empty.  A key has a request as long as it   *)
(* has a peer (addPeer and _sendReqs make it, removePeer deletes it), so   *)
(* the hadReq test of _penalizeMissedResponses never fails.                *)
(***************************************************************************)
EXTENDS Integers

CONSTANTS
  Peer,      \* peer connections, over the life of the router
  KeyOf      \* peer -> routerPenaltyKey: public key and protocol

VARIABLES
  now,       \* milliseconds on the monotonic clock
  peers,     \* router.peers: connections there are
  lags,      \* router.lags: nanoseconds, for peers; others keep a last value
  responded, \* router.responded
  round,     \* peers that the current _sendReqs has still to examine
  sending,   \* _sendReqs is under way
  penalties  \* router.penalties: key -> [ms, at], ms = 0 for a missing entry

vars == <<now, peers, lags, responded, round, sending, penalties>>

routerUnknownLatency == 4294967295
penaltyHalfLife == 300000
minDisconnectPenalty == 200
minLossPenalty == 50
maxPenalty == 30000

Key == {KeyOf[p] : p \in Peer}
NoEntry == [ms |-> 0, at |-> 0]

Milliseconds(ns) == ns \div 1000000
Larger(a, b) == IF a > b THEN a ELSE b
Smaller(a, b) == IF a < b THEN a ELSE b

-----------------------------------------------------------------------------
(* Decay *)

Powers == <<1, 2, 4, 8, 16, 32, 64, 128, 256, 512, 1024, 2048, 4096, 8192, 16384>>

\* ms >> shifts, for ms below 2^15: no penalty exceeds maxPenalty.
ShiftRight(ms, shifts) == IF shifts < 15 THEN ms \div Powers[shifts + 1] ELSE 0

\* What is left of ms a part of a half-life later: a line from all to half of it.
Interpolate(ms, frac) == (ms * (2 * penaltyHalfLife - frac)) \div (2 * penaltyHalfLife)

\* What is left of ms after the given time.
Decay(ms, elapsed) ==
  Interpolate(ShiftRight(ms, elapsed \div penaltyHalfLife), elapsed % penaltyHalfLife)

\* The value of _getDecayedPenalty.  Its threshold is one millisecond, so a
\* penalty below it is 0 already.
Decayed(k, t) == Decay(penalties[k].ms, t - penalties[k].at)

\* The deletion _getDecayedPenalty makes as a side effect.
Cleaned(k) == IF Decayed(k, now) = 0 THEN NoEntry ELSE penalties[k]

GetCost(p) == Larger(1, Milliseconds(lags[p]) + Decayed(KeyOf[p], now))

\* _addPenalty, for a positive component
AddPenalty(k, component) ==
  penalties' = [penalties EXCEPT ![k] =
    [ms |-> Smaller(maxPenalty, Decayed(k, now) + component), at |-> now]]

-----------------------------------------------------------------------------
(* The router's handlers *)

Init ==
  /\ now = 0
  /\ peers = {} /\ responded = {} /\ round = {}
  /\ sending = FALSE
  /\ lags = [p \in Peer |-> routerUnknownLatency]
  /\ penalties = [k \in Key |-> NoEntry]

Tick ==
  /\ \E d \in Nat : now' = now + d
  /\ UNCHANGED <<peers, lags, responded, round, sending, penalties>>

AddPeer(p) ==
  /\ ~sending /\ p \notin peers
  /\ peers' = peers \cup {p}
  /\ lags' = [lags EXCEPT ![p] = routerUnknownLatency]
  /\ responded' = responded \ {p}
  /\ UNCHANGED <<now, round, sending, penalties>>

\* removePeer with _recordDisconnect
RemovePeer(p) ==
  /\ ~sending /\ p \in peers
  /\ peers' = peers \ {p}
  /\ responded' = responded \ {p}
  /\ IF lags[p] = routerUnknownLatency THEN UNCHANGED penalties
     ELSE AddPenalty(KeyOf[p], Larger(minDisconnectPenalty, Milliseconds(lags[p])))
  /\ UNCHANGED <<now, lags, round, sending>>

\* The lag after a response to the current request, rtt after it was sent.
NewLag(lag, rtt) ==
  IF lag = routerUnknownLatency THEN rtt * 2
                                ELSE (lag * 7) \div 8 + Smaller(rtt, lag * 2) \div 8

HandleResponse(p, rtt) ==
  /\ ~sending /\ p \in peers \ responded
  /\ responded' = responded \cup {p}
  /\ lags' = [lags EXCEPT ![p] = NewLag(@, rtt)]
  /\ UNCHANGED <<now, peers, round, sending, penalties>>

\* Reading a cost: _fix, _lookup and GetPeers do.
ReadCost(p) ==
  /\ ~sending /\ p \in peers
  /\ penalties' = [penalties EXCEPT ![KeyOf[p]] = Cleaned(KeyOf[p])]
  /\ UNCHANGED <<now, peers, lags, responded, round, sending>>

-----------------------------------------------------------------------------
(* _sendReqs *)

SendReqs ==
  /\ ~sending
  /\ sending' = TRUE /\ round' = peers
  /\ UNCHANGED <<now, peers, lags, responded, penalties>>

\* The lag of a peer that did not respond
Increased(lag) == Smaller(routerUnknownLatency, lag + lag \div 8)

\* One turn of the loop of _penalizeMissedResponses
PenalizeMissed(p) ==
  /\ p \in round
  /\ round' = round \ {p}
  /\ IF p \in responded \/ lags[p] = routerUnknownLatency
       THEN UNCHANGED <<lags, penalties>>
       ELSE /\ AddPenalty(KeyOf[p], Larger(minLossPenalty,
                                           Milliseconds(Increased(lags[p]) - lags[p])))
            /\ lags' = [lags EXCEPT ![p] = Increased(@)]
  /\ UNCHANGED <<now, peers, responded, sending>>

\* The rest of _sendReqs: every peer is asked anew.
Ask ==
  /\ sending /\ round = {}
  /\ sending' = FALSE /\ responded' = responded \ peers
  /\ UNCHANGED <<now, peers, lags, round, penalties>>

Next ==
  \/ Tick
  \/ SendReqs
  \/ Ask
  \/ \E p \in Peer :
       \/ AddPeer(p)
       \/ RemovePeer(p)
       \/ ReadCost(p)
       \/ PenalizeMissed(p)
       \/ \E rtt \in Nat : HandleResponse(p, rtt)

Spec == Init /\ [][Next]_vars

-----------------------------------------------------------------------------
(* Properties *)

Entry == [ms : 0 .. maxPenalty, at : Nat]

\* The shape of the cost state: no entry of router.penalties exceeds maxPenalty or
\* is dated in the future, and lags and answers are those of peers there are.
TypeOK ==
  /\ now \in Nat
  /\ peers \subseteq Peer /\ responded \subseteq peers /\ round \subseteq peers
  /\ sending \in BOOLEAN /\ (~sending => round = {})
  /\ lags \in [Peer -> Nat]
  /\ penalties \in [Key -> Entry]
  /\ \A k \in Key : penalties[k].at <= now

\* _getCost is used in multiplication and division and "needs to be non-zero";
\* it is, and the penalty never adds more than maxPenalty to the measured lag.
CostBounded ==
  \A p \in Peer : /\ GetCost(p) >= 1
                  /\ GetCost(p) <= Larger(1, Milliseconds(lags[p]) + maxPenalty)

\* The penalty of a key, as _getDecayedPenalty would answer it, grows only where
\* _recordDisconnect or _penalizeMissedResponses adds to it, whatever reads
\* delete entries in between and however much time passes: reconnecting,
\* answering and waiting never make a link dearer.
OnlyFaultsRaise ==
  [][\A k \in Key : Decayed(k, now)' > Decayed(k, now)
       => \E p \in Peer : KeyOf[p] = k /\ (RemovePeer(p) \/ PenalizeMissed(p))]_vars

\* A penalty survives the connection it was earned on: a peer that leaves and
\* comes back at once is not cheaper than when it left.
NotForgiven ==
  [][\A k \in Key : now' = now => Decayed(k, now)' >= Decayed(k, now)]_vars
=============================================================================
