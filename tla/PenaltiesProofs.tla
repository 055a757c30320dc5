--------------------------- MODULE PenaltiesProofs ---------------------------
(***************************************************************************)
(* What TLAPS proves about Penalties, for any connections, keys, lags,     *)
(* round-trip times and moments: costs are bounded and never zero, only a  *)
(* fault raises a penalty, and only time lowers one.                       *)
(***************************************************************************)
EXTENDS Penalties, TLAPS

\* Dividing by twice as much, or more, leaves at most half.
LEMMA DivHalf ==
  ASSUME NEW a \in Nat, NEW b \in Nat \ {0}, NEW c \in Nat, c >= 2 * b
  PROVE  a \div c <= (a \div b) \div 2
<1>. DEFINE q == a \div c
            r == a \div b
<1>1. q \in Nat /\ c * q <= a
  BY SMT
<1>2. r \in Nat /\ a < b * (r + 1)
  BY SMT
<1>3. (2 * b) * q <= c * q
  BY <1>1, SMT
<1>4. b * (2 * q) < b * (r + 1)
  BY <1>1, <1>2, <1>3, SMT
<1>5. 2 * q < r + 1
  BY <1>1, <1>2, <1>4, SMT
<1>. QED  BY <1>1, <1>2, <1>5, SMT

\* Division keeps the order.
LEMMA DivMonotone ==
  ASSUME NEW w \in Nat \ {0}, NEW x \in Nat, NEW y \in Nat, x <= y
  PROVE  x \div w <= y \div w
<1>. DEFINE q == x \div w
            r == y \div w
<1>1. q \in Nat /\ w * q <= x
  BY SMT
<1>2. r \in Nat /\ y < w * (r + 1)
  BY SMT
<1>3. w * q < w * (r + 1)
  BY <1>1, <1>2, SMT
<1>4. q < r + 1
  BY <1>1, <1>2, <1>3, SMT
<1>. QED  BY <1>1, <1>2, <1>4, SMT

\* Half of the width leaves half of the number.
LEMMA HalfWidth ==
  ASSUME NEW m \in Nat, NEW h \in Nat \ {0}, NEW w \in Nat, w = 2 * h
  PROVE  (m * h) \div w = m \div 2
<1>. DEFINE q == m \div 2
            r == (m * h) \div w
<1>1. q \in Nat /\ 2 * q <= m /\ m < 2 * q + 2
  BY SMT
<1>2. r \in Nat /\ w * r <= m * h /\ m * h < w * r + w
  <2>1. m * h \in Nat
    BY SMT
  <2>. QED  BY <2>1, SMT
<1>. HIDE DEF q, r
<1>3. h * (2 * r) <= h * m /\ h * m < h * (2 * r + 2)
  BY <1>2, SMT
<1>4. 2 * r <= m /\ m < 2 * r + 2
  BY <1>1, <1>2, <1>3, SMT
<1>5. q = r
  BY <1>1, <1>2, <1>4, SMT
<1>. QED  BY <1>5 DEF q, r

\* Shifting a penalty right: it stays within its size, and every further place
\* at least halves it.
LEMMA ShiftFacts ==
  ASSUME NEW ms \in Nat, NEW s \in Nat
  PROVE  /\ ShiftRight(ms, s) \in 0 .. ms
         /\ ShiftRight(ms, 0) = ms
         /\ \A t \in Nat : s < t => ShiftRight(ms, t) <= ShiftRight(ms, s) \div 2
<1>1. \A i \in 1 .. 15 : Powers[i] \in Nat \ {0}
  BY DEF Powers
<1>2. \A i, j \in 1 .. 15 : i < j => Powers[j] >= 2 * Powers[i]
  BY DEF Powers
<1>3. Powers[1] = 1
  BY DEF Powers
<1>4. \A t \in Nat : ShiftRight(ms, t) \in 0 .. ms
  <2>. SUFFICES ASSUME NEW t \in Nat, t < 15
                PROVE  ms \div Powers[t + 1] \in 0 .. ms
    BY DEF ShiftRight
  <2>. DEFINE p == Powers[t + 1]
  <2>1. p \in Nat \ {0}
    BY <1>1
  <2>. HIDE DEF p
  <2>2. ms \div p \in 0 .. ms
    BY <2>1, SMT
  <2>. QED  BY <2>2 DEF p
<1>5. ShiftRight(ms, 0) = ms
  BY <1>3 DEF ShiftRight
<1>6. ASSUME NEW t \in Nat, s < t
      PROVE  ShiftRight(ms, t) <= ShiftRight(ms, s) \div 2
  <2>1. CASE t < 15
    <3>1. /\ Powers[s + 1] \in Nat \ {0} /\ Powers[t + 1] \in Nat
          /\ Powers[t + 1] >= 2 * Powers[s + 1]
      BY <1>1, <1>2, <1>6, <2>1
    <3>2. ms \div Powers[t + 1] <= (ms \div Powers[s + 1]) \div 2
      BY <3>1, DivHalf
    <3>. QED  BY <1>6, <2>1, <3>2 DEF ShiftRight
  <2>2. CASE ~(t < 15)
    BY <1>4, <2>2 DEF ShiftRight
  <2>. QED  BY <2>1, <2>2
<1>. QED  BY <1>4, <1>5, <1>6

\* The line between two halvings falls from all of a penalty to half of it.
LEMMA InterpolateFacts ==
  ASSUME NEW m \in Nat, NEW f \in Nat, f < penaltyHalfLife
  PROVE  /\ Interpolate(m, f) \in 0 .. m
         /\ Interpolate(m, 0) = m
         /\ Interpolate(m, f) >= m \div 2
         /\ \A g \in 0 .. f : Interpolate(m, f) <= Interpolate(m, g)
<1>. DEFINE h == penaltyHalfLife
            w == 2 * h
<1>1. h \in Nat \ {0} /\ w \in Nat \ {0} /\ w = 2 * h /\ f < h
  BY DEF penaltyHalfLife
<1>2. \A g : Interpolate(m, g) = (m * (w - g)) \div w
  BY DEF Interpolate
<1>. HIDE DEF h, w
<1>3. \A x, y \in Nat : x <= y => x \div w <= y \div w
  BY <1>1, DivMonotone
<1>4. ASSUME NEW g \in 0 .. f
      PROVE  m * (w - g) \in Nat /\ m * (w - f) <= m * (w - g)
  BY <1>1, SMT
<1>5. m * h \in Nat /\ m * (w - f) >= m * h
  BY <1>1, SMT
<1>6. (m * w) \div w = m
  BY <1>1, SMT
<1>7. (m * h) \div w = m \div 2
  BY <1>1, HalfWidth
<1>8. Interpolate(m, 0) = m
  BY <1>1, <1>2, <1>6
<1>9. \A g \in 0 .. f : Interpolate(m, f) <= Interpolate(m, g)
  BY <1>2, <1>3, <1>4
<1>10. Interpolate(m, f) >= m \div 2
  BY <1>2, <1>3, <1>4, <1>5, <1>7
<1>11. Interpolate(m, f) \in Nat
  BY <1>1, <1>2, <1>4
<1>. QED  BY <1>8, <1>9, <1>10, <1>11

\* What _getDecayedPenalty computes never grows with time and starts at the
\* penalty recorded: the change from one halving to the next is no jump.
LEMMA DecayFacts ==
  ASSUME NEW ms \in Nat, NEW e \in Nat
  PROVE  /\ Decay(ms, e) \in 0 .. ms
         /\ Decay(ms, 0) = ms
         /\ \A d \in Nat : e <= d => Decay(ms, d) <= Decay(ms, e)
<1>. DEFINE S(t) == ShiftRight(ms, t \div penaltyHalfLife)
            F(t) == t % penaltyHalfLife
<1>1. \A t \in Nat : /\ t \div penaltyHalfLife \in Nat
                     /\ F(t) \in Nat /\ F(t) < penaltyHalfLife
  BY DEF penaltyHalfLife
<1>2. \A t \in Nat : S(t) \in Nat /\ S(t) <= ms
  BY <1>1, ShiftFacts
<1>3. \A t \in Nat : Decay(ms, t) = Interpolate(S(t), F(t))
  BY DEF Decay
<1>4. \A t \in Nat : /\ Decay(ms, t) \in 0 .. S(t)
                     /\ Decay(ms, t) >= S(t) \div 2
  <2>. SUFFICES ASSUME NEW t \in Nat
                PROVE  /\ Interpolate(S(t), F(t)) \in 0 .. S(t)
                       /\ Interpolate(S(t), F(t)) >= S(t) \div 2
    BY <1>3
  <2>1. S(t) \in Nat /\ F(t) \in Nat /\ F(t) < penaltyHalfLife
    BY <1>1, <1>2
  <2>. HIDE DEF S, F
  <2>. QED  BY <2>1, InterpolateFacts
<1>5. Decay(ms, e) \in 0 .. ms
  <2>. HIDE DEF S, F
  <2>. QED  BY <1>2, <1>4
<1>6. Decay(ms, 0) = ms
  <2>1. 0 \div penaltyHalfLife = 0 /\ 0 % penaltyHalfLife = 0 /\ 0 < penaltyHalfLife
    BY DEF penaltyHalfLife
  <2>2. ShiftRight(ms, 0) = ms /\ ms \in Nat
    BY ShiftFacts
  <2>3. Interpolate(ms, 0) = ms
    BY <2>1, <2>2, InterpolateFacts
  <2>. QED  BY <2>1, <2>2, <2>3 DEF Decay
<1>7. ASSUME NEW d \in Nat, e <= d
      PROVE  Decay(ms, d) <= Decay(ms, e)
  <2>1. CASE e \div penaltyHalfLife = d \div penaltyHalfLife
    <3>1. F(e) \in 0 .. F(d)
      BY <1>7, <2>1, SMT DEF penaltyHalfLife
    <3>2. S(d) = S(e)
      BY <2>1
    <3>3. S(d) \in Nat /\ F(d) \in Nat /\ F(d) < penaltyHalfLife
      BY <1>1, <1>2
    <3>. HIDE DEF S, F
    <3>4. Interpolate(S(d), F(d)) <= Interpolate(S(d), F(e))
      BY <3>1, <3>3, InterpolateFacts
    <3>. QED  BY <1>3, <3>2, <3>4
  <2>2. CASE e \div penaltyHalfLife # d \div penaltyHalfLife
    <3>1. e \div penaltyHalfLife < d \div penaltyHalfLife
      BY <1>7, <2>2, SMT DEF penaltyHalfLife
    <3>2. S(d) <= S(e) \div 2
      BY <1>1, <3>1, ShiftFacts
    <3>. HIDE DEF S, F
    <3>3. Decay(ms, d) <= S(d) /\ Decay(ms, e) >= S(e) \div 2
      BY <1>4
    <3>4. S(d) \in Nat /\ S(e) \in Nat /\ Decay(ms, d) \in Int /\ Decay(ms, e) \in Int
      BY <1>2, <1>4
    <3>. QED  BY <3>2, <3>3, <3>4
  <2>. QED  BY <2>1, <2>2
<1>. QED  BY <1>5, <1>6, <1>7

-----------------------------------------------------------------------------
(* The invariant *)

\* The penalty read from a well-formed entry, now or later.
LEMMA DecayedType ==
  ASSUME TypeOK, NEW k \in Key, NEW t \in Nat, t >= now
  PROVE  /\ Decayed(k, t) \in 0 .. maxPenalty
         /\ Decayed(k, t) <= Decayed(k, now)
<1>0. maxPenalty \in Nat
  BY DEF maxPenalty
<1>1. /\ penalties[k].ms \in Nat /\ penalties[k].ms <= maxPenalty
      /\ penalties[k].at \in Nat /\ penalties[k].at <= now /\ now \in Nat
  BY <1>0 DEF TypeOK, Entry
<1>2. now - penalties[k].at \in Nat /\ t - penalties[k].at \in Nat
      /\ now - penalties[k].at <= t - penalties[k].at
  BY <1>1
<1>. HIDE DEF TypeOK
<1>3. Decay(penalties[k].ms, t - penalties[k].at) \in 0 .. penalties[k].ms
  BY <1>1, <1>2, DecayFacts, ZenonT(30)
<1>4. Decay(penalties[k].ms, t - penalties[k].at) <= Decay(penalties[k].ms, now - penalties[k].at)
  BY <1>1, <1>2, DecayFacts, ZenonT(30)
<1>. QED  BY <1>0, <1>1, <1>3, <1>4 DEF Decayed

\* _addPenalty records an entry between the current penalty and maxPenalty.
LEMMA AddPenaltyFacts ==
  ASSUME TypeOK, NEW k \in Key, NEW c \in Nat, AddPenalty(k, c)
  PROVE  /\ penalties' \in [Key -> Entry]
         /\ \A j \in Key : penalties'[j].at <= now
         /\ \A j \in Key \ {k} : penalties'[j] = penalties[j]
         /\ penalties'[k].at = now
         /\ penalties'[k].ms \in Nat
         /\ penalties'[k].ms >= Decayed(k, now)
<1>. DEFINE e == [ms |-> Smaller(maxPenalty, Decayed(k, now) + c), at |-> now]
<1>1. now \in Nat /\ maxPenalty \in Nat
  BY DEF TypeOK, maxPenalty
<1>2. Decayed(k, now) \in 0 .. maxPenalty
  BY <1>1, DecayedType
<1>3. /\ Smaller(maxPenalty, Decayed(k, now) + c) \in 0 .. maxPenalty
      /\ Smaller(maxPenalty, Decayed(k, now) + c) >= Decayed(k, now)
  BY <1>1, <1>2 DEF Smaller
<1>4. e \in Entry /\ e.at = now /\ e.ms \in Nat /\ e.ms >= Decayed(k, now)
  BY <1>1, <1>3 DEF Entry
<1>5. penalties' = [penalties EXCEPT ![k] = e]
  BY DEF AddPenalty
<1>. HIDE DEF e
<1>6. /\ penalties \in [Key -> Entry]
      /\ \A j \in Key : penalties[j].at <= now
  BY DEF TypeOK
<1>. QED  BY <1>1, <1>4, <1>5, <1>6

\* Lags and what is added for them are natural numbers.
LEMMA LagTypes ==
  ASSUME NEW lag \in Nat, NEW rtt \in Nat
  PROVE  /\ NewLag(lag, rtt) \in Nat
         /\ Increased(lag) \in Nat
         /\ Milliseconds(lag) \in Nat
         /\ Larger(minDisconnectPenalty, Milliseconds(lag)) \in Nat
         /\ Larger(minLossPenalty, Milliseconds(Increased(lag) - lag)) \in Nat
<1>1. Milliseconds(lag) \in Nat /\ Increased(lag) \in Nat
  BY DEF Milliseconds, Increased, Smaller, routerUnknownLatency
<1>2. NewLag(lag, rtt) \in Nat
  BY DEF NewLag, Smaller, routerUnknownLatency
<1>3. Milliseconds(Increased(lag) - lag) \in Int
  BY <1>1 DEF Milliseconds
<1>. QED  BY <1>1, <1>2, <1>3 DEF Larger, minDisconnectPenalty, minLossPenalty

\* Every handler keeps the router's cost state well-formed: entries stay within
\* maxPenalty and are never dated in the future.
LEMMA TypeStep ==
  ASSUME TypeOK, [Next]_vars
  PROVE  TypeOK'
<1>. USE DEF TypeOK
<1>1. CASE Tick
  <2>1. PICK d \in Nat : now' = now + d
    BY <1>1 DEF Tick
  <2>2. \A k \in Key : penalties[k].at \in Nat
    BY DEF Entry
  <2>3. \A k \in Key : penalties[k].at <= now'
    BY <2>1, <2>2
  <2>. QED  BY <1>1, <2>1, <2>3 DEF Tick
<1>2. CASE SendReqs
  BY <1>2 DEF SendReqs
<1>3. CASE Ask
  BY <1>3, ZenonT(30) DEF Ask
<1>4. ASSUME NEW p \in Peer, AddPeer(p)
      PROVE  TypeOK'
  <2>1. routerUnknownLatency \in Nat
    BY DEF routerUnknownLatency
  <2>. QED  BY <1>4, <2>1 DEF AddPeer
<1>5. ASSUME NEW p \in Peer, RemovePeer(p)
      PROVE  TypeOK'
  <2>. DEFINE c == Larger(minDisconnectPenalty, Milliseconds(lags[p]))
  <2>1. KeyOf[p] \in Key /\ c \in Nat
    BY LagTypes, ZenonT(30) DEF Key
  <2>2. \/ UNCHANGED penalties
        \/ AddPenalty(KeyOf[p], c)
    BY <1>5 DEF RemovePeer
  <2>. HIDE DEF c
  <2>3. /\ penalties' \in [Key -> Entry]
        /\ \A j \in Key : penalties'[j].at <= now
    BY <2>1, <2>2, AddPenaltyFacts
  <2>4. round' \subseteq peers'
    BY <1>5 DEF RemovePeer
  <2>. QED  BY <1>5, <2>3, <2>4 DEF RemovePeer
<1>6. ASSUME NEW p \in Peer, ReadCost(p)
      PROVE  TypeOK'
  <2>0. maxPenalty \in Nat
    BY DEF maxPenalty
  <2>1. NoEntry \in Entry /\ NoEntry.at <= now
    BY <2>0 DEF NoEntry, Entry
  <2>2. KeyOf[p] \in Key
    BY DEF Key
  <2>. QED  BY <1>6, <2>1, <2>2 DEF ReadCost, Cleaned
<1>7. ASSUME NEW p \in Peer, PenalizeMissed(p)
      PROVE  TypeOK'
  <2>. DEFINE c == Larger(minLossPenalty, Milliseconds(Increased(lags[p]) - lags[p]))
  <2>1. KeyOf[p] \in Key /\ c \in Nat /\ Increased(lags[p]) \in Nat
    BY LagTypes, ZenonT(30) DEF Key
  <2>2. \/ UNCHANGED <<lags, penalties>>
        \/ AddPenalty(KeyOf[p], c) /\ lags' = [lags EXCEPT ![p] = Increased(@)]
    BY <1>7 DEF PenalizeMissed
  <2>. HIDE DEF c
  <2>3. /\ penalties' \in [Key -> Entry]
        /\ \A j \in Key : penalties'[j].at <= now
    BY <2>1, <2>2, AddPenaltyFacts
  <2>4. lags' \in [Peer -> Nat]
    BY <2>1, <2>2
  <2>. QED  BY <1>7, <2>3, <2>4 DEF PenalizeMissed
<1>8. ASSUME NEW p \in Peer, NEW rtt \in Nat, HandleResponse(p, rtt)
      PROVE  TypeOK'
  <2>1. NewLag(lags[p], rtt) \in Nat
    BY LagTypes, ZenonT(30)
  <2>. QED  BY <1>8, <2>1 DEF HandleResponse
<1>9. CASE UNCHANGED vars
  BY <1>9 DEF vars
<1>. QED  BY <1>1, <1>2, <1>3, <1>4, <1>5, <1>6, <1>7, <1>8, <1>9 DEF Next

\* Penalties!TypeOK holds always: the router's lags, penalties and round of
\* requests stay well-formed and no penalty exceeds maxPenalty.
THEOREM PenaltiesTypeOK == Spec => []TypeOK
<1>1. Init => TypeOK
  <2>1. routerUnknownLatency \in Nat /\ maxPenalty \in Nat
    BY DEF routerUnknownLatency, maxPenalty
  <2>2. NoEntry \in Entry /\ NoEntry.at = 0
    BY <2>1 DEF NoEntry, Entry
  <2>3. Init => /\ now \in Nat /\ lags \in [Peer -> Nat]
                /\ penalties \in [Key -> Entry]
                /\ \A k \in Key : penalties[k].at <= now
    BY <2>1, <2>2 DEF Init
  <2>4. Init => /\ peers \subseteq Peer /\ responded \subseteq peers /\ round \subseteq peers
                /\ sending \in BOOLEAN /\ (~sending => round = {})
    BY Zenon DEF Init
  <2>. QED  BY <2>3, <2>4, Zenon DEF TypeOK
<1>2. TypeOK /\ [Next]_vars => TypeOK'
  BY TypeStep
<1>. QED  BY <1>1, <1>2, PTL DEF Spec

\* The cost of a connection is never zero, which _fix and _lookup rely on when
\* they multiply by it, and exceeds the measured lag by at most maxPenalty.
THEOREM CostsBounded == Spec => []CostBounded
<1>1. TypeOK => CostBounded
  <2>. SUFFICES ASSUME TypeOK, NEW p \in Peer
                PROVE  GetCost(p) >= 1 /\ GetCost(p) <= Larger(1, Milliseconds(lags[p]) + maxPenalty)
    BY Zenon DEF CostBounded
  <2>1. KeyOf[p] \in Key /\ lags[p] \in Nat /\ now \in Nat /\ maxPenalty \in Nat
    BY DEF Key, TypeOK, maxPenalty
  <2>2. Decayed(KeyOf[p], now) \in 0 .. maxPenalty
    BY <2>1, DecayedType
  <2>3. Milliseconds(lags[p]) \in Nat
    BY <2>1, LagTypes, ZenonT(30)
  <2>. QED  BY <2>1, <2>2, <2>3 DEF GetCost, Larger
<1>. QED  BY <1>1, PenaltiesTypeOK, PTL

-----------------------------------------------------------------------------
(* What may change a penalty *)

\* An entry that is kept, read no earlier, reads no higher; read at the same
\* time it reads the same.
LEMMA KeptEntry ==
  ASSUME TypeOK, NEW k \in Key, penalties'[k] = penalties[k],
         now' \in Nat, now' >= now
  PROVE  /\ Decayed(k, now)' <= Decayed(k, now)
         /\ now' = now => Decayed(k, now)' = Decayed(k, now)
<1>1. Decayed(k, now)' = Decayed(k, now')
  BY DEF Decayed
<1>. QED  BY <1>1, DecayedType

\* An entry that has just been recorded reads as recorded.
LEMMA FreshEntry ==
  ASSUME NEW k \in Key, penalties'[k].at = now, penalties'[k].ms \in Nat,
         now' = now, now \in Nat
  PROVE  Decayed(k, now)' = penalties'[k].ms
<1>1. now' - penalties'[k].at = 0
  OBVIOUS
<1>2. Decayed(k, now)' = Decay(penalties'[k].ms, now' - penalties'[k].at)
  BY DEF Decayed
<1>. QED  BY <1>1, <1>2, DecayFacts

\* Deleting an entry that has decayed to nothing cannot be seen.
LEMMA CleanedEntry ==
  ASSUME TypeOK, NEW k \in Key, penalties'[k] = Cleaned(k), now' = now
  PROVE  Decayed(k, now)' = Decayed(k, now)
<1>1. CASE Decayed(k, now) = 0
  <2>1. penalties'[k].ms = 0 /\ penalties'[k].at = 0 /\ now \in Nat
    BY <1>1 DEF Cleaned, NoEntry, TypeOK
  <2>2. Decay(0, now - 0) \in 0 .. 0
    BY <2>1, DecayFacts
  <2>3. Decayed(k, now)' = Decay(0, now - 0)
    BY <2>1 DEF Decayed
  <2>. QED  BY <1>1, <2>2, <2>3
<1>2. CASE Decayed(k, now) # 0
  BY <1>2 DEF Cleaned, Decayed
<1>. QED  BY <1>1, <1>2

\* The penalty of a key is a number after a step, too.
LEMMA DecayedNext ==
  ASSUME NEW k \in Key, TypeOK'
  PROVE  Decayed(k, now)' \in Int
<1>0. maxPenalty \in Nat
  BY DEF maxPenalty
<1>1. /\ penalties'[k].ms \in Nat /\ penalties'[k].at \in Nat
      /\ now' \in Nat /\ penalties'[k].at <= now'
  BY <1>0 DEF TypeOK, Entry
<1>2. now' - penalties'[k].at \in Nat
  BY <1>1
<1>3. Decay(penalties'[k].ms, now' - penalties'[k].at) \in 0 .. penalties'[k].ms
  BY <1>1, <1>2, DecayFacts, ZenonT(30)
<1>. QED  BY <1>1, <1>3 DEF Decayed

\* One step: unless a fault is being recorded for the key, its penalty does not
\* rise; unless time passes, it does not fall.
LEMMA PenaltyStep ==
  ASSUME TypeOK, [Next]_vars, NEW k \in Key
  PROVE  /\ \/ Decayed(k, now)' <= Decayed(k, now)
            \/ \E p \in Peer : KeyOf[p] = k /\ (RemovePeer(p) \/ PenalizeMissed(p))
         /\ now' = now => Decayed(k, now)' >= Decayed(k, now)
<1>0. /\ now \in Nat
      /\ Decayed(k, now) \in Nat
  <2>1. now \in Nat /\ maxPenalty \in Nat
    BY DEF TypeOK, maxPenalty
  <2>2. Decayed(k, now) \in 0 .. maxPenalty
    BY <2>1, DecayedType
  <2>. QED  BY <2>1, <2>2
<1>1. ASSUME penalties'[k] = penalties[k], now' \in Nat, now' >= now
      PROVE  /\ Decayed(k, now)' <= Decayed(k, now)
             /\ now' = now => Decayed(k, now)' >= Decayed(k, now)
  BY <1>0, <1>1, KeptEntry
<1>2. CASE Tick
  <2>1. penalties'[k] = penalties[k] /\ now' \in Nat /\ now' >= now
    BY <1>0, <1>2 DEF Tick
  <2>. QED  BY <1>1, <2>1
<1>3. CASE \/ SendReqs \/ Ask \/ UNCHANGED vars
           \/ \E p \in Peer : AddPeer(p) \/ \E rtt \in Nat : HandleResponse(p, rtt)
  <2>1. penalties' = penalties /\ now' = now
    BY <1>3 DEF SendReqs, Ask, vars, AddPeer, HandleResponse
  <2>. QED  BY <1>0, <1>1, <2>1
<1>4. ASSUME NEW p \in Peer, NEW c \in Nat, AddPenalty(KeyOf[p], c), now' = now,
             RemovePeer(p) \/ PenalizeMissed(p)
      PROVE  /\ \/ Decayed(k, now)' <= Decayed(k, now)
                \/ \E q \in Peer : KeyOf[q] = k /\ (RemovePeer(q) \/ PenalizeMissed(q))
             /\ Decayed(k, now)' >= Decayed(k, now)
  <2>1. CASE KeyOf[p] = k
    <3>1. /\ penalties'[k].at = now /\ penalties'[k].ms \in Nat
          /\ penalties'[k].ms >= Decayed(k, now)
      BY <1>4, <2>1, AddPenaltyFacts
    <3>2. Decayed(k, now)' = penalties'[k].ms
      BY <1>0, <1>4, <3>1, FreshEntry
    <3>. QED  BY <1>4, <2>1, <3>1, <3>2
  <2>2. CASE KeyOf[p] # k
    <3>1. KeyOf[p] \in Key
      BY DEF Key
    <3>2. penalties'[k] = penalties[k]
      BY <1>4, <2>2, <3>1, AddPenaltyFacts
    <3>. QED  BY <1>0, <1>1, <1>4, <3>2
  <2>. QED  BY <2>1, <2>2
<1>5. ASSUME NEW p \in Peer, RemovePeer(p) \/ PenalizeMissed(p)
      PROVE  /\ \/ Decayed(k, now)' <= Decayed(k, now)
                \/ \E q \in Peer : KeyOf[q] = k /\ (RemovePeer(q) \/ PenalizeMissed(q))
             /\ Decayed(k, now)' >= Decayed(k, now)
  <2>1. lags[p] \in Nat
    BY DEF TypeOK
  <2>2. \/ penalties' = penalties
        \/ AddPenalty(KeyOf[p], Larger(minDisconnectPenalty, Milliseconds(lags[p])))
        \/ AddPenalty(KeyOf[p], Larger(minLossPenalty,
                                       Milliseconds(Increased(lags[p]) - lags[p])))
    BY <1>5 DEF RemovePeer, PenalizeMissed
  <2>3. now' = now
    BY <1>5 DEF RemovePeer, PenalizeMissed
  <2>4. CASE penalties' = penalties
    BY <1>0, <1>1, <2>3, <2>4
  <2>5. ASSUME NEW c \in Nat, AddPenalty(KeyOf[p], c)
        PROVE  /\ \/ Decayed(k, now)' <= Decayed(k, now)
                  \/ \E q \in Peer : KeyOf[q] = k /\ (RemovePeer(q) \/ PenalizeMissed(q))
               /\ Decayed(k, now)' >= Decayed(k, now)
    BY <1>4, <1>5, <2>3, <2>5
  <2>. QED  BY <2>1, <2>2, <2>4, <2>5, LagTypes
<1>6. ASSUME NEW p \in Peer, ReadCost(p)
      PROVE  Decayed(k, now)' = Decayed(k, now)
  <2>1. KeyOf[p] \in Key /\ penalties \in [Key -> Entry]
    BY DEF Key, TypeOK
  <2>2. now' = now /\ penalties' = [penalties EXCEPT ![KeyOf[p]] = Cleaned(KeyOf[p])]
    BY <1>6 DEF ReadCost
  <2>3. penalties'[k] = penalties[k] \/ penalties'[k] = Cleaned(k)
    BY <2>1, <2>2
  <2>. QED  BY <1>0, <2>2, <2>3, KeptEntry, CleanedEntry
<1>. QED  BY <1>0, <1>2, <1>3, <1>5, <1>6 DEF Next

\* Penalties!OnlyFaultsRaise: however reads that delete entries, reconnections,
\* answers and the passing of time interleave, a key's penalty grows only in
\* _recordDisconnect and _penalizeMissedResponses.
THEOREM FaultsRaise == Spec => OnlyFaultsRaise
<1>1. TypeOK /\ [Next]_vars
        => [\A k \in Key : Decayed(k, now)' > Decayed(k, now)
              => \E p \in Peer : KeyOf[p] = k /\ (RemovePeer(p) \/ PenalizeMissed(p))]_vars
  <2>. SUFFICES ASSUME TypeOK, [Next]_vars, NEW k \in Key,
                       Decayed(k, now)' > Decayed(k, now)
                PROVE  \E p \in Peer : KeyOf[p] = k /\ (RemovePeer(p) \/ PenalizeMissed(p))
    OBVIOUS
  <2>1. Decayed(k, now) \in Int /\ Decayed(k, now)' \in Int
    <3>1. TypeOK'
      BY TypeStep
    <3>2. now \in Nat /\ maxPenalty \in Nat
      BY DEF TypeOK, maxPenalty
    <3>3. Decayed(k, now) \in 0 .. maxPenalty
      BY <3>2, DecayedType
    <3>. QED  BY <3>1, <3>2, <3>3, DecayedNext
  <2>. QED  BY <2>1, PenaltyStep
<1>. QED  BY <1>1, PenaltiesTypeOK, PTL DEF Spec, OnlyFaultsRaise

\* Penalties!NotForgiven: only time lowers a penalty; it survives the end of the
\* connection it was earned on, and no read loses it.
THEOREM OnlyTimeForgives == Spec => NotForgiven
<1>1. TypeOK /\ [Next]_vars
        => [\A k \in Key : now' = now => Decayed(k, now)' >= Decayed(k, now)]_vars
  BY PenaltyStep
<1>. QED  BY <1>1, PenaltiesTypeOK, PTL DEF Spec, NotForgiven
=============================================================================
