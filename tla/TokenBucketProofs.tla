------------------------- MODULE TokenBucketProofs --------------------------
(***************************************************************************)
(* Theorems about TokenBucket for every capacity, rate, clock resolution   *)
(* and set of identifiers.                                                 *)
(***************************************************************************)
EXTENDS TokenBucket, TLAPS

\* What the bucket still owes its identifier: the tokens it holds and the time
\* since the stamp, both measured in rate-seconds.
Credit(id) == tokens[id] * UnitsPerSecond + (now - lastCheck[id]) * RefillRate

\* What was granted in the window plus what is still owed never exceeds a full
\* bucket plus what the rate yields over the window.
CreditBound ==
  \A id \in Ids :
    window[id].count > 0 =>
      /\ id \in seen
      /\ window[id].count * UnitsPerSecond + Credit(id)
           <= Capacity * UnitsPerSecond + (now - window[id].start) * RefillRate

\* The stamp moves only together with a grant.
StampedByGrant == \A id \in seen : lastCheck[id] <= lastGrant[id]

\* The inductive invariant.
IInv == TypeOK /\ CreditBound /\ StampedByGrant

-----------------------------------------------------------------------------
(* Arithmetic the solver needs spelled out.                                *)

LEMMA DivLemma ==
  ASSUME NEW n \in Nat, NEW u \in Nat \ {0}
  PROVE  /\ n \div u \in Nat
         /\ (n \div u) * u <= n
         /\ n \div u = 0 => n < u
OBVIOUS

LEMMA DivBoundLemma ==
  ASSUME NEW n \in Nat, NEW u \in Nat \ {0}, NEW k \in Nat, k * u <= n
  PROVE  k <= n \div u
OBVIOUS

LEMMA ProductLemma ==
  ASSUME NEW a \in Nat, NEW b \in Nat
  PROVE  a * b \in Nat
OBVIOUS

LEMMA ScaleLemma ==
  ASSUME NEW a \in Nat, NEW b \in Nat, NEW u \in Nat, a <= b
  PROVE  a * u <= b * u
OBVIOUS

LEMMA DistributeLemma ==
  ASSUME NEW a \in Int, NEW b \in Int, NEW u \in Int
  PROVE  /\ (a + b) * u = a * u + b * u
         /\ (a - b) * u = a * u - b * u
         /\ 1 * u = u /\ 0 * u = 0
OBVIOUS

-----------------------------------------------------------------------------
\* What Allow finds before it decides.
LEMMA FilledLemma ==
  ASSUME TypeOK, NEW id \in Ids
  PROVE  /\ Held(id) \in 0 .. Capacity
         /\ Stamp(id) \in 0 .. now
         /\ Earned(id) \in Nat
         /\ Earned(id) * UnitsPerSecond <= (now - Stamp(id)) * RefillRate
         /\ Earned(id) = 0 => (now - Stamp(id)) * RefillRate < UnitsPerSecond
         /\ Filled(id) \in 0 .. Capacity
         /\ Filled(id) <= Held(id) + Earned(id)
         /\ Earned(id) = 0 => Filled(id) = Held(id)
         /\ Filled(id) = 0 => Held(id) = 0 /\ Earned(id) = 0
         /\ Restamp(id) \in 0 .. now
<1>1. Held(id) \in 0 .. Capacity /\ Stamp(id) \in 0 .. now
  BY LimitAssumption DEF TypeOK, Held, Stamp
<1>2. (now - Stamp(id)) * RefillRate \in Nat
  BY <1>1, LimitAssumption, ProductLemma DEF TypeOK
<1>3. /\ Earned(id) \in Nat
      /\ Earned(id) * UnitsPerSecond <= (now - Stamp(id)) * RefillRate
      /\ Earned(id) = 0 => (now - Stamp(id)) * RefillRate < UnitsPerSecond
  BY <1>2, ClockAssumption, DivLemma DEF Earned
<1>4. /\ Filled(id) \in 0 .. Capacity
      /\ Filled(id) <= Held(id) + Earned(id)
      /\ Earned(id) = 0 => Filled(id) = Held(id)
      /\ Filled(id) = 0 => Held(id) = 0 /\ Earned(id) = 0
  BY <1>1, <1>3, LimitAssumption DEF Filled
<1>5. Restamp(id) \in 0 .. now
  BY <1>1 DEF Restamp, TypeOK
<1> QED BY <1>1, <1>3, <1>4, <1>5

LEMMA InitEstablishesInvariant == Init => IInv
BY LimitAssumption, ClockAssumption
   DEF Init, IInv, TypeOK, CreditBound, StampedByGrant

\* A grant moves one token from what is owed to what was granted.
LEMMA GrantKeepsCredit ==
  ASSUME IInv, NEW id \in Ids, Grant(id)
  PROVE  (window[id].count + 1) * UnitsPerSecond
           + (Filled(id) - 1) * UnitsPerSecond + (now - Restamp(id)) * RefillRate
         <= Capacity * UnitsPerSecond + (now - window[id].start) * RefillRate
<1> DEFINE c == window[id].count
           f == Filled(id)
           u == UnitsPerSecond
           span == (now - window[id].start) * RefillRate
           owed == (now - Restamp(id)) * RefillRate
           stale == (now - Stamp(id)) * RefillRate
<1>1. c \in Nat /\ span \in Nat /\ u \in Nat \ {0}
  BY LimitAssumption, ClockAssumption, ProductLemma DEF IInv, TypeOK
<1>2. f \in 1 .. Capacity
  BY FilledLemma DEF IInv, Grant
<1>3. (c + 1) * u + (f - 1) * u = c * u + f * u
  BY <1>1, <1>2, DistributeLemma
<1>4. Earned(id) > 0 => owed = 0
  BY DistributeLemma, LimitAssumption DEF Restamp, IInv, TypeOK
<1>5. Earned(id) = 0 => owed = stale /\ stale < u /\ f = Held(id)
  BY FilledLemma DEF Restamp, IInv
<1>6. owed \in Nat /\ stale \in Nat
  BY FilledLemma, LimitAssumption, ProductLemma DEF IInv, TypeOK
<1>7. f * u <= Capacity * u
  BY <1>1, <1>2, LimitAssumption, ScaleLemma
<1>8. CASE c = 0
  <2>1. c * u = 0
    BY <1>1, <1>8, DistributeLemma
  <2>2. f * u + owed <= Capacity * u
    <3>1. CASE Earned(id) > 0
      BY <1>1, <1>2, <1>4, <1>7, <3>1, LimitAssumption, ProductLemma
    <3>2. CASE Earned(id) = 0 /\ id \in seen
      <4>1. f <= Capacity - 1
        BY <1>5, <3>2 DEF Held, IInv, TypeOK
      <4>2. f * u <= (Capacity - 1) * u
        BY <1>1, <1>2, <4>1, LimitAssumption, ScaleLemma
      <4>3. (Capacity - 1) * u = Capacity * u - u
        BY <1>1, LimitAssumption, DistributeLemma
      <4>4. f * u \in Nat /\ Capacity * u \in Nat
        BY <1>1, <1>2, LimitAssumption, ProductLemma
      <4> QED BY <1>1, <1>5, <1>6, <3>2, <4>2, <4>3, <4>4
    <3>3. CASE Earned(id) = 0 /\ id \notin seen
      <4>1. owed = 0
        BY <1>5, <3>3, DistributeLemma, LimitAssumption DEF Stamp, IInv, TypeOK
      <4>2. f * u \in Nat /\ Capacity * u \in Nat
        BY <1>1, <1>2, LimitAssumption, ProductLemma
      <4> QED BY <1>7, <4>1, <4>2
    <3> QED BY <3>1, <3>2, <3>3, FilledLemma DEF IInv
  <2>3. f * u \in Nat /\ Capacity * u \in Nat
    BY <1>1, <1>2, LimitAssumption, ProductLemma
  <2> QED BY <1>1, <1>3, <1>6, <2>1, <2>2, <2>3
<1>9. CASE c > 0
  <2>1. id \in seen /\ c * u + (tokens[id] * u + stale) <= Capacity * u + span
    BY <1>9 DEF IInv, CreditBound, Credit, Stamp
  <2>2. Held(id) = tokens[id] /\ tokens[id] \in Nat
    BY <2>1 DEF Held, IInv, TypeOK
  <2>3. f * u + owed <= tokens[id] * u + stale
    <3>1. CASE Earned(id) > 0
      <4>1. f * u <= (tokens[id] + Earned(id)) * u
        BY <1>1, <1>2, <2>2, FilledLemma, ScaleLemma DEF IInv
      <4>2. (tokens[id] + Earned(id)) * u = tokens[id] * u + Earned(id) * u
        BY <1>1, <2>2, FilledLemma, DistributeLemma DEF IInv
      <4>3. Earned(id) * u <= stale /\ Earned(id) * u \in Nat
        BY <1>1, FilledLemma, ProductLemma DEF IInv
      <4>4. f * u \in Nat /\ tokens[id] * u \in Nat
        BY <1>1, <1>2, <2>2, ProductLemma
      <4> QED BY <1>4, <1>6, <3>1, <4>1, <4>2, <4>3, <4>4
    <3>2. CASE Earned(id) = 0
      <4>1. f * u \in Nat
        BY <1>1, <1>2, ProductLemma
      <4> QED BY <1>5, <1>6, <2>2, <3>2, <4>1
    <3> QED BY <3>1, <3>2, FilledLemma DEF IInv
  <2>4. c * u \in Nat /\ f * u \in Nat /\ tokens[id] * u \in Nat /\ Capacity * u \in Nat
    BY <1>1, <1>2, <2>2, LimitAssumption, ProductLemma
  <2> QED BY <1>1, <1>3, <1>6, <2>1, <2>3, <2>4
<1> QED BY <1>1, <1>8, <1>9

\* The invariant is preserved by every step.
LEMMA NextPreservesInvariant == IInv /\ [Next]_vars => IInv'
<1> SUFFICES ASSUME IInv, [Next]_vars PROVE IInv'
  OBVIOUS
<1>1. ASSUME NEW id \in Ids, Grant(id) PROVE IInv'
  <2>1. Filled(id) \in 1 .. Capacity /\ Restamp(id) \in 0 .. now
    BY <1>1, FilledLemma DEF IInv, Grant
  <2>2. TypeOK'
    BY <1>1, <2>1, LimitAssumption DEF Grant, IInv, TypeOK
  <2>3. CreditBound'
    <3> SUFFICES ASSUME NEW j \in Ids, window'[j].count > 0
                 PROVE  /\ j \in seen'
                        /\ window'[j].count * UnitsPerSecond + Credit(j)'
                             <= Capacity * UnitsPerSecond + (now' - window'[j].start) * RefillRate
      BY DEF CreditBound
    <3>1. CASE j = id
      <4>1. /\ window'[j].count = window[id].count + 1
            /\ window'[j].start = window[id].start
            /\ tokens'[j] = Filled(id) - 1
            /\ lastCheck'[j] = Restamp(id)
            /\ now' = now /\ j \in seen'
        BY <1>1, <3>1 DEF Grant, IInv, TypeOK
      <4>2. /\ (window[id].count + 1) * UnitsPerSecond \in Nat
            /\ (Filled(id) - 1) * UnitsPerSecond \in Nat
            /\ (now - Restamp(id)) * RefillRate \in Nat
        <5>1. /\ window[id].count + 1 \in Nat
              /\ Filled(id) - 1 \in Nat
              /\ now - Restamp(id) \in Nat
          BY <2>1 DEF IInv, TypeOK
        <5> QED BY <5>1, LimitAssumption, ClockAssumption, ProductLemma
      <4>3. Credit(j)' = (Filled(id) - 1) * UnitsPerSecond + (now - Restamp(id)) * RefillRate
        BY <4>1 DEF Credit
      <4>4. window'[j].count * UnitsPerSecond = (window[id].count + 1) * UnitsPerSecond
        BY <4>1
      <4>5. (now' - window'[j].start) * RefillRate = (now - window[id].start) * RefillRate
        BY <4>1
      <4>6. (window[id].count + 1) * UnitsPerSecond
              + (Filled(id) - 1) * UnitsPerSecond + (now - Restamp(id)) * RefillRate
            <= Capacity * UnitsPerSecond + (now - window[id].start) * RefillRate
        BY <1>1, GrantKeepsCredit
      <4> QED BY <4>1, <4>2, <4>3, <4>4, <4>5, <4>6
    <3>2. CASE j # id
      <4>1. /\ window'[j] = window[j] /\ tokens'[j] = tokens[j] /\ now' = now
            /\ lastCheck'[j] = lastCheck[j] /\ seen \subseteq seen'
        BY <1>1, <3>2 DEF Grant, IInv, TypeOK
      <4>2. Credit(j)' = Credit(j)
        BY <4>1 DEF Credit
      <4> QED BY <4>1, <4>2 DEF IInv, CreditBound
    <3> QED BY <3>1, <3>2
  <2>4. StampedByGrant'
    BY <1>1, <2>1 DEF Grant, IInv, TypeOK, StampedByGrant
  <2> QED BY <2>2, <2>3, <2>4 DEF IInv
<1>2. ASSUME NEW id \in Ids, Deny(id) PROVE IInv'
  <2>1. Filled(id) = 0 /\ Held(id) = 0 /\ Earned(id) = 0
    BY <1>2, FilledLemma DEF IInv, Deny
  <2>2. id \in seen /\ tokens[id] = 0 /\ Restamp(id) = lastCheck[id]
    BY <2>1, LimitAssumption DEF Held, Stamp, Restamp
  <2>3. tokens' = tokens /\ lastCheck' = lastCheck /\ seen' = seen
    BY <1>2, <2>1, <2>2 DEF Deny, IInv, TypeOK
  <2>4. UNCHANGED vars
    BY <1>2, <2>3 DEF Deny, vars
  <2> QED BY <2>4 DEF vars, IInv, TypeOK, CreditBound, Credit, StampedByGrant
<1>3. ASSUME NEW id \in Ids, Watch(id) PROVE IInv'
  <2>1. TypeOK' /\ StampedByGrant'
    BY <1>3 DEF Watch, IInv, TypeOK, StampedByGrant
  <2>2. \A j \in Ids : Credit(j)' = Credit(j)
    BY <1>3 DEF Watch, Credit
  <2>3. \A j \in Ids : window'[j].count > 0 => j # id /\ window'[j] = window[j]
    BY <1>3 DEF Watch, IInv, TypeOK
  <2>4. ASSUME NEW j \in Ids, window'[j].count > 0
        PROVE  /\ j \in seen'
               /\ window'[j].count * UnitsPerSecond + Credit(j)'
                    <= Capacity * UnitsPerSecond + (now' - window'[j].start) * RefillRate
    <3>1. window'[j] = window[j] /\ now' = now /\ seen' = seen
      BY <1>3, <2>3, <2>4 DEF Watch
    <3> QED BY <2>2, <2>4, <3>1 DEF IInv, CreditBound
  <2>5. CreditBound'
    BY <2>4 DEF CreditBound
  <2> QED BY <2>1, <2>5 DEF IInv
<1>4. ASSUME Tick PROVE IInv'
  <2>1. TypeOK' /\ StampedByGrant'
    <3>1. now' \in 0 .. MaxTime /\ 0 .. now \subseteq 0 .. now'
      BY <1>4, ClockAssumption DEF Tick, IInv, TypeOK
    <3>2. window' \in [Ids -> [start : 0 .. now', count : Nat]]
      <4>1. \A id \in Ids : window[id] \in [start : 0 .. now, count : Nat]
        BY DEF IInv, TypeOK
      <4>2. \A id \in Ids : window[id] \in [start : 0 .. now', count : Nat]
        BY <3>1, <4>1
      <4> QED BY <1>4, <4>2 DEF Tick, IInv, TypeOK
    <3>3. lastCheck' \in [Ids -> 0 .. now'] /\ lastGrant' \in [Ids -> 0 .. now']
      BY <1>4, <3>1 DEF Tick, IInv, TypeOK
    <3> QED BY <1>4, <3>1, <3>2, <3>3 DEF Tick, IInv, TypeOK, StampedByGrant
  <2>2. CreditBound'
    <3> SUFFICES ASSUME NEW id \in Ids, window[id].count > 0
                 PROVE  /\ id \in seen
                        /\ window[id].count * UnitsPerSecond + Credit(id)'
                             <= Capacity * UnitsPerSecond
                                + (now' - window[id].start) * RefillRate
      BY <1>4 DEF Tick, CreditBound
    <3> DEFINE held == now - lastCheck[id]
               span == now - window[id].start
               granted == window[id].count * UnitsPerSecond
               kept == tokens[id] * UnitsPerSecond
               full == Capacity * UnitsPerSecond
    <3>1. held \in Nat /\ span \in Nat
      BY DEF IInv, TypeOK
    <3>2. /\ (held + 1) * RefillRate = held * RefillRate + RefillRate
          /\ (span + 1) * RefillRate = span * RefillRate + RefillRate
      BY <3>1, LimitAssumption, DistributeLemma
    <3>3. /\ held * RefillRate \in Nat /\ span * RefillRate \in Nat
          /\ granted \in Nat /\ kept \in Nat /\ full \in Nat /\ RefillRate \in Nat
      BY <3>1, LimitAssumption, ClockAssumption, ProductLemma DEF IInv, TypeOK
    <3>4. id \in seen /\ granted + (kept + held * RefillRate) <= full + span * RefillRate
      BY DEF IInv, CreditBound, Credit
    <3>5. /\ now' - window[id].start = span + 1
          /\ Credit(id)' = kept + (held + 1) * RefillRate
      <4>1. now' = now + 1 /\ tokens' = tokens /\ lastCheck' = lastCheck
        BY <1>4 DEF Tick
      <4>2. now' - window[id].start = span + 1 /\ now' - lastCheck[id] = held + 1
        BY <4>1 DEF IInv, TypeOK
      <4> QED BY <4>1, <4>2 DEF Credit
    <3> HIDE DEF held, span, granted, kept, full
    <3>6. granted + (kept + (held + 1) * RefillRate) <= full + (span + 1) * RefillRate
      BY <3>2, <3>3, <3>4
    <3> QED BY <3>4, <3>5, <3>6 DEF granted, full
  <2> QED BY <2>1, <2>2 DEF IInv
<1>5. CASE UNCHANGED vars
  BY <1>5 DEF vars, IInv, TypeOK, CreditBound, Credit, StampedByGrant
<1> QED BY <1>1, <1>2, <1>3, <1>4, <1>5 DEF Next

LEMMA Invariant == Spec => []IInv
BY InitEstablishesInvariant, NextPreservesInvariant, PTL DEF Spec

-----------------------------------------------------------------------------
\* Every variable keeps its type; in particular a bucket is never full after
\* Allow, which is what makes the window bound exact.
THEOREM TypeCorrect == Spec => []TypeOK
BY Invariant, PTL DEF IInv

LEMMA CreditGivesWindow == IInv => WindowBound
<1> SUFFICES ASSUME IInv, NEW id \in Ids
             PROVE  window[id].count <=
                      Capacity + ((now - window[id].start) * RefillRate) \div UnitsPerSecond
  BY DEF WindowBound
<1> DEFINE u == UnitsPerSecond
           span == (now - window[id].start) * RefillRate
           c == window[id].count
<1>1. c \in Nat /\ span \in Nat /\ u \in Nat \ {0}
  BY LimitAssumption, ClockAssumption, ProductLemma DEF IInv, TypeOK
<1>2. span \div u \in Nat
  BY <1>1, DivLemma
<1>3. CASE c <= Capacity
  BY <1>1, <1>2, <1>3, LimitAssumption
<1>4. CASE c > Capacity
  <2>1. Credit(id) \in Nat
    <3>1. tokens[id] * u \in Nat /\ (now - lastCheck[id]) * RefillRate \in Nat
      BY <1>1, LimitAssumption, ProductLemma DEF IInv, TypeOK
    <3> QED BY <3>1 DEF Credit
  <2>2. c * u + Credit(id) <= Capacity * u + span
    BY <1>1, <1>4, LimitAssumption DEF IInv, CreditBound
  <2>3. (c - Capacity) * u = c * u - Capacity * u
    BY <1>1, LimitAssumption, DistributeLemma
  <2>4. c * u \in Nat /\ Capacity * u \in Nat /\ c - Capacity \in Nat
    BY <1>1, <1>4, LimitAssumption, ProductLemma
  <2>5. (c - Capacity) * u <= span
    BY <1>1, <2>1, <2>2, <2>3, <2>4
  <2>6. c - Capacity <= span \div u
    BY <1>1, <2>4, <2>5, DivBoundLemma
  <2> QED BY <1>1, <1>2, <2>6, LimitAssumption
<1> QED BY <1>1, <1>3, <1>4, LimitAssumption

\* A limiter never grants an identifier more than a full bucket plus the yield
\* of the rate, in any window, however its calls are spread over time.
THEOREM NeverOverTheLimit == Spec => []WindowBound
BY Invariant, CreditGivesWindow, PTL

\* An empty bucket was stamped no later than its last grant, and has earned no
\* whole token since.
LEMMA EmptyIsRecent == IInv => DeniedOnlyWhenSpent
<1> SUFFICES ASSUME IInv, NEW id \in Ids, Filled(id) <= 0
             PROVE  id \in seen /\ (now - lastGrant[id]) * RefillRate < UnitsPerSecond
  BY DEF DeniedOnlyWhenSpent
<1>1. Held(id) = 0 /\ Earned(id) = 0
  BY FilledLemma DEF IInv
<1>2. id \in seen /\ Stamp(id) = lastCheck[id]
  BY <1>1, LimitAssumption DEF Held, Stamp
<1>3. (now - lastCheck[id]) * RefillRate < UnitsPerSecond
  BY <1>1, <1>2, FilledLemma DEF IInv
<1>4. (now - lastGrant[id]) * RefillRate <= (now - lastCheck[id]) * RefillRate
  <2>1. /\ now - lastGrant[id] \in Nat
        /\ now - lastCheck[id] \in Nat
        /\ now - lastGrant[id] <= now - lastCheck[id]
    BY <1>2 DEF IInv, TypeOK, StampedByGrant
  <2> QED BY <2>1, LimitAssumption, ScaleLemma
<1>5. /\ (now - lastGrant[id]) * RefillRate \in Nat
      /\ (now - lastCheck[id]) * RefillRate \in Nat
  BY LimitAssumption, ProductLemma DEF IInv, TypeOK
<1> QED BY <1>2, <1>3, <1>4, <1>5, ClockAssumption

\* Polling does not starve an identifier.
THEOREM NeverStarved == Spec => []DeniedOnlyWhenSpent
BY Invariant, EmptyIsRecent, PTL
=============================================================================
