------------------------ MODULE CircuitBreakerProofs ------------------------
(***************************************************************************)
(* Theorems about CircuitBreaker, and about CircuitBreakerHistory, which   *)
(* watches it, for every set of services, routes and requests and every    *)
(* threshold and timeout.                                                  *)
(***************************************************************************)
EXTENDS CircuitBreakerHistory, FiniteSetTheorems, TLAPS

\* One breaker's share of CountersFitState.
Fits(b) ==
  /\ b.state = "closed" => b.failureCount < FailureThreshold
  /\ b.state = "half-open" => b.failureCount = 0 /\ b.successCount < SuccessThreshold
  /\ b.state = "open" => b.failureCount > 0

Fresh(b) == b.state = "closed" /\ b.failureCount = 0 /\ b.successCount = 0

Edge(b, c) ==
  \/ b.state = c.state
  \/ b.state = "closed" /\ c.state = "open" /\ c.failureCount = FailureThreshold
  \/ b.state = "open" /\ c.state = "half-open" /\ b.sinceOpen = ResetTimeout
  \/ b.state = "half-open" /\ c.state = "open" /\ b.failureCount = 0
  \/ b.state = "half-open" /\ c.state = "closed" /\ b.successCount = SuccessThreshold - 1

\* The inductive invariant.
IInv == TypeOK /\ CountersFitState /\ LookupStaysValid

\* NewService never runs with a threshold or timeout below one.
LEMMA Thresholds ==
  /\ FailureThreshold \in Nat \ {0}
  /\ SuccessThreshold \in Nat \ {0}
  /\ ResetTimeout \in Nat \ {0}
  /\ CountCap \in Nat
BY ConfigAssumption, CapAssumption
   DEF OrDefault, FailureThreshold, SuccessThreshold, ResetTimeout

LEMMA AnyRouteIsRoute == AnyRoute \in Routes
BY RouteAssumption DEF AnyRoute

\* Each transition of one breaker keeps it well-typed and its counters fitting
\* its state, and moves along an edge of the state machine.
LEMMA PromoteLemma ==
  ASSUME NEW b \in Breaker, Fits(b)
  PROVE  Promote(b) \in Breaker /\ Fits(Promote(b)) /\ Edge(b, Promote(b))
<1>1. CASE b.state = "open" /\ b.sinceOpen >= ResetTimeout
  <2> DEFINE c == Enter(b, "half-open")
  <2>1. c \in Breaker /\ c.state = "half-open" /\ c.failureCount = 0 /\ c.successCount = 0
    BY Thresholds DEF Enter, Breaker
  <2>2. b.sinceOpen = ResetTimeout
    BY <1>1, Thresholds DEF Breaker
  <2>3. Promote(b) = c
    BY <1>1 DEF Promote
  <2>4. Fits(c) /\ Edge(b, c)
    BY <1>1, <2>1, <2>2, Thresholds DEF Fits, Edge
  <2> QED BY <2>1, <2>3, <2>4
<1>2. CASE ~(b.state = "open" /\ b.sinceOpen >= ResetTimeout)
  BY <1>2 DEF Promote, Edge
<1> QED BY <1>1, <1>2

LEMMA OnSuccessLemma ==
  ASSUME NEW b \in Breaker, Fits(b)
  PROVE  OnSuccess(b) \in Breaker /\ Fits(OnSuccess(b)) /\ Edge(b, OnSuccess(b))
<1> DEFINE c == [b EXCEPT !.successCount = Bump(@)]
<1>1. /\ c \in Breaker
      /\ c.state = b.state
      /\ c.failureCount = b.failureCount
      /\ c.successCount = Bump(b.successCount)
  BY Thresholds DEF Breaker, Bump
<1>2. CASE c.state = "half-open" /\ c.successCount >= SuccessThreshold
  <2>1. OnSuccess(b) = Enter(c, "closed")
    BY <1>2 DEF OnSuccess
  <2>2. b.successCount = SuccessThreshold - 1
    BY <1>1, <1>2, Thresholds, CapAssumption DEF Fits, Bump, Breaker
  <2>3. /\ Enter(c, "closed") \in Breaker
        /\ Enter(c, "closed").state = "closed"
        /\ Enter(c, "closed").failureCount = 0
    BY <1>1, Thresholds DEF Enter, Breaker
  <2> QED BY <1>1, <1>2, <2>1, <2>2, <2>3, Thresholds DEF Fits, Edge
<1>3. CASE ~(c.state = "half-open" /\ c.successCount >= SuccessThreshold)
  <2>1. OnSuccess(b) = c
    BY <1>3 DEF OnSuccess
  <2>2. c.successCount \in Nat
    BY <1>1, Thresholds DEF Breaker
  <2> QED BY <1>1, <1>3, <2>1, <2>2, Thresholds DEF Fits, Edge
<1> QED BY <1>2, <1>3

LEMMA OnFailureLemma ==
  ASSUME NEW b \in Breaker, Fits(b)
  PROVE  OnFailure(b) \in Breaker /\ Fits(OnFailure(b)) /\ Edge(b, OnFailure(b))
<1> DEFINE c == [b EXCEPT !.failureCount = Bump(@)]
           trips == \/ c.state = "closed" /\ c.failureCount >= FailureThreshold
                    \/ c.state = "half-open"
<1>1. /\ c \in Breaker
      /\ c.state = b.state
      /\ c.failureCount = Bump(b.failureCount)
      /\ c.successCount = b.successCount
  BY Thresholds DEF Breaker, Bump
<1>2. Bump(b.failureCount) \in Nat \ {0}
  BY Thresholds, CapAssumption DEF Breaker, Bump
<1>3. CASE trips
  <2>1. OnFailure(b) = Trip(c)
    BY <1>3 DEF OnFailure
  <2>2. /\ Trip(c) \in Breaker
        /\ Trip(c).state = "open"
        /\ Trip(c).failureCount = Bump(b.failureCount)
    <3> HIDE DEF c
    <3> QED BY <1>1, Thresholds DEF Trip, Breaker
  <2>3. b.state = "closed" => Bump(b.failureCount) = FailureThreshold
    BY <1>1, <1>3, Thresholds, CapAssumption DEF Fits, Bump, Breaker
  <2>4. b.state = "half-open" => b.failureCount = 0
    BY DEF Fits
  <2> QED BY <1>1, <1>2, <1>3, <2>1, <2>2, <2>3, <2>4 DEF Fits, Edge
<1>4. CASE ~trips
  <2>1. OnFailure(b) = c
    BY <1>4 DEF OnFailure
  <2>2. c.failureCount \in Nat
    BY <1>1, <1>2
  <2> QED BY <1>1, <1>2, <1>4, <2>1, <2>2, Thresholds DEF Fits, Edge
<1> QED BY <1>3, <1>4

LEMMA EnterClosedLemma ==
  ASSUME NEW b \in Breaker
  PROVE  Enter(b, "closed") \in Breaker /\ Fits(Enter(b, "closed"))
BY Thresholds DEF Enter, Breaker, Fits

LEMMA FitsLemma ==
  CountersFitState <=>
    \A s \in Services : Fits(breaker[s]) /\ (s \notin known => Fresh(breaker[s]))
BY DEF CountersFitState, Fits, Fresh

-----------------------------------------------------------------------------
LEMMA InitEstablishesInvariant == Init => IInv
<1> SUFFICES ASSUME Init PROVE IInv
  OBVIOUS
<1>1. TypeOK
  BY Thresholds, ModulusAssumption, AnyRouteIsRoute DEF Init, TypeOK, Breaker
<1>2. CountersFitState
  BY Thresholds DEF Init, CountersFitState
<1>3. LookupStaysValid
  BY DEF Init, LookupStaysValid
<1> QED BY <1>1, <1>2, <1>3 DEF IInv

\* A step that replaces the breaker of one service by a fitting one, without
\* forgetting an entry, preserves the invariant on the breakers.
LEMMA OneBreakerStep ==
  ASSUME TypeOK, CountersFitState,
         NEW s \in Services, NEW b \in Breaker, Fits(b),
         breaker' = [breaker EXCEPT ![s] = b],
         known' \in SUBSET Services, known \subseteq known', s \in known'
  PROVE  breaker' \in [Services -> Breaker] /\ CountersFitState'
<1>1. breaker' \in [Services -> Breaker]
  BY DEF TypeOK
<1>2. \A t \in Services : breaker'[t] = IF t = s THEN b ELSE breaker[t]
  BY DEF TypeOK
<1>3. \A t \in Services : Fits(breaker'[t])
  BY <1>2, FitsLemma
<1>4. \A t \in Services : t \notin known' => Fresh(breaker'[t])
  BY <1>2, FitsLemma
<1> QED BY <1>1, <1>3, <1>4 DEF CountersFitState, Fits, Fresh

\* The invariant is preserved by every step.
LEMMA NextPreservesInvariant == IInv /\ [Next]_vars => IInv'
<1> SUFFICES ASSUME IInv, [Next]_vars PROVE IInv'
  OBVIOUS
<1> USE DEF IInv
<1>1. ASSUME NEW r \in Requests, NEW rt \in Routes, Bypass(r, rt) PROVE IInv'
  BY <1>1 DEF Bypass, TypeOK, CountersFitState, LookupStaysValid
<1>2. ASSUME NEW r \in Requests, NEW rt \in Routes, CheckCircuit(r, rt) PROVE IInv'
  <2> DEFINE s == rt.guard
  <2>1. s \in Services
    BY <1>2, RouteAssumption DEF CheckCircuit
  <2>2. breaker[s] \in Breaker /\ Fits(breaker[s])
    BY <2>1, FitsLemma DEF TypeOK
  <2>3. Promote(breaker[s]) \in Breaker /\ Fits(Promote(breaker[s]))
    BY <2>2, PromoteLemma
  <2>4. breaker' = [breaker EXCEPT ![s] = Promote(breaker[s])]
    BY <1>2 DEF CheckCircuit
  <2>5. known' = known \cup {s} /\ known' \in SUBSET Services
    BY <1>2, <2>1 DEF CheckCircuit, TypeOK
  <2>6. breaker' \in [Services -> Breaker] /\ CountersFitState'
    <3> HIDE DEF s
    <3> QED BY <2>1, <2>3, <2>4, <2>5, OneBreakerStep
  <2>7. TypeOK'
    BY <1>2, <2>5, <2>6 DEF CheckCircuit, TypeOK
  <2>8. LookupStaysValid'
    BY <1>2, <2>5 DEF CheckCircuit, LookupStaysValid, TypeOK
  <2> QED BY <2>6, <2>7, <2>8
<1>3. ASSUME NEW r \in Requests, Answer(r) PROVE IInv'
  <2>1. TypeOK'
    BY <1>3, RouteAssumption, AnyRouteIsRoute DEF Answer, Leave, TypeOK
  <2>2. CountersFitState' /\ LookupStaysValid'
    BY <1>3 DEF Answer, Leave, TypeOK, CountersFitState, LookupStaysValid
  <2> QED BY <2>1, <2>2
<1>4. ASSUME NEW r \in Requests, Abandon(r) PROVE IInv'
  BY <1>4, AnyRouteIsRoute DEF Abandon, Leave, TypeOK, CountersFitState, LookupStaysValid
<1>5. ASSUME NEW r \in Requests, RecordResult(r) PROVE IInv'
  <2> DEFINE s == route[r].target
             b == IF ok[r] THEN OnSuccess(breaker[s]) ELSE OnFailure(breaker[s])
  <2>1. s \in Services /\ s \in known
    BY <1>5, RouteAssumption DEF RecordResult, TypeOK, LookupStaysValid
  <2>2. breaker[s] \in Breaker /\ Fits(breaker[s])
    BY <2>1, FitsLemma DEF TypeOK
  <2>3. b \in Breaker /\ Fits(b)
    BY <2>2, OnSuccessLemma, OnFailureLemma
  <2>4. breaker' = [breaker EXCEPT ![s] = b] /\ known' = known
    BY <1>5 DEF RecordResult
  <2>5. breaker' \in [Services -> Breaker] /\ CountersFitState'
    <3>1. known' \in SUBSET Services
      BY <2>4 DEF TypeOK
    <3> HIDE DEF s, b
    <3> QED BY <2>1, <2>3, <2>4, <3>1, OneBreakerStep
  <2>6. openTransitions' \in 0 .. TransitionModulus - 1
    BY <1>5, ModulusAssumption DEF RecordResult, CountTrip, TypeOK
  <2>7. TypeOK'
    BY <1>5, <2>5, <2>6, AnyRouteIsRoute DEF RecordResult, Leave, TypeOK
  <2>8. LookupStaysValid'
    BY <1>5 DEF RecordResult, Leave, LookupStaysValid, TypeOK
  <2> QED BY <2>5, <2>7, <2>8
<1>6. ASSUME GetAllState PROVE IInv'
  <2>1. \A s \in Services : Promote(breaker[s]) \in Breaker /\ Fits(Promote(breaker[s]))
    BY FitsLemma, PromoteLemma DEF TypeOK
  <2>2. breaker' \in [Services -> Breaker]
    BY <1>6, <2>1 DEF GetAllState, TypeOK
  <2>3. \A s \in Services : Fits(breaker'[s]) /\ (s \notin known' => Fresh(breaker'[s]))
    BY <1>6, <2>1, FitsLemma DEF GetAllState
  <2>4. CountersFitState'
    BY <2>3 DEF CountersFitState, Fits, Fresh
  <2>5. TypeOK' /\ LookupStaysValid'
    BY <1>6, <2>2 DEF GetAllState, TypeOK, LookupStaysValid
  <2> QED BY <2>4, <2>5
<1>7. ASSUME NEW s \in Services, Reset(s) PROVE IInv'
  <2>1. Enter(breaker[s], "closed") \in Breaker /\ Fits(Enter(breaker[s], "closed"))
    BY EnterClosedLemma DEF TypeOK
  <2>2. /\ breaker' = [breaker EXCEPT ![s] = Enter(breaker[s], "closed")]
        /\ known' = known \cup {s}
        /\ known' \in SUBSET Services
    BY <1>7 DEF Reset, TypeOK
  <2>3. breaker' \in [Services -> Breaker] /\ CountersFitState'
    BY <2>1, <2>2, OneBreakerStep
  <2>4. TypeOK' /\ LookupStaysValid'
    BY <1>7, <2>2, <2>3 DEF Reset, TypeOK, LookupStaysValid
  <2> QED BY <2>3, <2>4
<1>8. ASSUME NEW s \in Services, BackendChange(s) PROVE IInv'
  BY <1>8 DEF BackendChange, TypeOK, CountersFitState, LookupStaysValid
<1>9. ASSUME Tick PROVE IInv'
  <2> DEFINE aged(s) == [breaker[s] EXCEPT !.sinceOpen = IF @ < ResetTimeout THEN @ + 1 ELSE @]
  <2>1. \A s \in Services : /\ aged(s) \in Breaker
                            /\ aged(s).state = breaker[s].state
                            /\ aged(s).failureCount = breaker[s].failureCount
                            /\ aged(s).successCount = breaker[s].successCount
    BY Thresholds DEF TypeOK, Breaker
  <2>2. breaker' = [s \in Services |-> aged(s)]
    BY <1>9 DEF Tick
  <2> HIDE DEF aged
  <2>3. breaker' \in [Services -> Breaker]
    BY <2>1, <2>2
  <2>4. CountersFitState'
    BY <1>9, <2>1, <2>2 DEF CountersFitState, Tick
  <2>5. TypeOK' /\ LookupStaysValid'
    BY <1>9, <2>3 DEF Tick, TypeOK, LookupStaysValid
  <2> QED BY <2>4, <2>5
<1>10. CASE UNCHANGED vars
  BY <1>10 DEF vars, TypeOK, CountersFitState, LookupStaysValid
<1> QED
  BY <1>1, <1>2, <1>3, <1>4, <1>5, <1>6, <1>7, <1>8, <1>9, <1>10 DEF Next

LEMMA Invariant == Spec => []IInv
BY InitEstablishesInvariant, NextPreservesInvariant, PTL DEF Spec

\* Every variable keeps its type.
THEOREM TypeCorrect == Spec => []TypeOK
BY Invariant, PTL DEF IInv

\* The counters of every breaker fit the state it is in, whatever the order in
\* which handlers report, operators reset and states are read.
THEOREM CountersAlwaysFit == Spec => []CountersFitState
BY Invariant, PTL DEF IInv

\* A handler that found a breaker still finds it when it updates it.
THEOREM LookupAlwaysValid == Spec => []LookupStaysValid
BY Invariant, PTL DEF IInv

-----------------------------------------------------------------------------
\* Every step moves every breaker along an edge of the state machine, or is the
\* operator's reset of that breaker.
LEMMA NextMovesAlongEdges ==
  ASSUME IInv, [Next]_vars, NEW s \in Services
  PROVE  Edge(breaker[s], breaker'[s]) \/ Reset(s)
<1> USE DEF IInv
<1>0. breaker[s] \in Breaker /\ Fits(breaker[s])
  BY FitsLemma DEF TypeOK
<1>1. ASSUME NEW r \in Requests, NEW rt \in Routes, CheckCircuit(r, rt)
      PROVE  Edge(breaker[s], breaker'[s])
  <2>1. breaker'[s] = IF s = rt.guard THEN Promote(breaker[s]) ELSE breaker[s]
    BY <1>1 DEF CheckCircuit, TypeOK
  <2>2. Edge(breaker[s], breaker[s])
    BY DEF Edge
  <2> QED BY <1>0, <2>1, <2>2, PromoteLemma
<1>2. ASSUME NEW r \in Requests, RecordResult(r)
      PROVE  Edge(breaker[s], breaker'[s])
  <2>1. breaker'[s] = IF s = route[r].target
                      THEN (IF ok[r] THEN OnSuccess(breaker[s]) ELSE OnFailure(breaker[s]))
                      ELSE breaker[s]
    BY <1>2 DEF RecordResult, TypeOK
  <2>2. Edge(breaker[s], breaker[s])
    BY DEF Edge
  <2> QED BY <1>0, <2>1, <2>2, OnSuccessLemma, OnFailureLemma
<1>3. ASSUME GetAllState PROVE Edge(breaker[s], breaker'[s])
  <2>1. Edge(breaker[s], breaker[s])
    BY DEF Edge
  <2> QED BY <1>0, <1>3, <2>1, PromoteLemma DEF GetAllState
<1>4. ASSUME NEW t \in Services, Reset(t)
      PROVE  Edge(breaker[s], breaker'[s]) \/ Reset(s)
  <2>1. CASE s = t
    BY <1>4, <2>1
  <2>2. CASE s # t
    BY <1>4, <2>2 DEF Reset, TypeOK, Edge
  <2> QED BY <2>1, <2>2
<1>5. ASSUME Tick PROVE Edge(breaker[s], breaker'[s])
  <2>1. breaker'[s].state = breaker[s].state
    BY <1>0, <1>5 DEF Tick, Breaker
  <2> QED BY <2>1 DEF Edge
<1>6. ASSUME breaker' = breaker PROVE Edge(breaker[s], breaker'[s])
  BY <1>6 DEF Edge
<1> QED
  BY <1>1, <1>2, <1>3, <1>4, <1>5, <1>6
     DEF Next, vars, Bypass, Answer, Abandon, BackendChange

\* The breaker follows its state machine under every interleaving of checks,
\* late results, resets and reads.
THEOREM FollowsStateMachine == Spec => StateMachine
<1> DEFINE Moves == \A s \in Services : Edge(breaker[s], breaker'[s]) \/ Reset(s)
<1>1. IInv /\ [Next]_vars => Moves
  BY NextMovesAlongEdges
<1>2. Moves => [\A s \in Services :
       LET b == breaker[s]
           c == breaker'[s]
       IN b.state # c.state =>
            \/ b.state = "closed" /\ c.state = "open" /\ c.failureCount = FailureThreshold
            \/ b.state = "open" /\ c.state = "half-open" /\ b.sinceOpen = ResetTimeout
            \/ b.state = "half-open" /\ c.state = "open" /\ b.failureCount = 0
            \/ b.state = "half-open" /\ c.state = "closed"
                 /\ b.successCount = SuccessThreshold - 1
            \/ Reset(s)]_vars
  BY DEF Edge
<1> QED BY <1>1, <1>2, Invariant, PTL DEF Spec, StateMachine

-----------------------------------------------------------------------------
\* The services whose breaker a step opens.
Opened == {s \in Services : breaker[s].state # "open" /\ breaker'[s].state = "open"}

\* Only a recorded result opens a breaker, and only that of its own service.
LEMMA NextCountsTrips ==
  ASSUME IInv, [Next]_vars
  PROVE  openTransitions' = (openTransitions + Cardinality(Opened)) % TransitionModulus
<1> USE DEF IInv
<1>1. ASSUME Opened = {}, openTransitions' = openTransitions
      PROVE  openTransitions' = (openTransitions + Cardinality(Opened)) % TransitionModulus
  <2>1. Cardinality(Opened) = 0
    BY <1>1, FS_EmptySet
  <2>2. openTransitions \in 0 .. TransitionModulus - 1
    BY DEF TypeOK
  <2>3. (openTransitions + 0) % TransitionModulus = openTransitions
    BY <2>2, ModulusAssumption
  <2> QED BY <1>1, <2>1, <2>3
<1>2. ASSUME NEW r \in Requests, RecordResult(r)
      PROVE  openTransitions' = (openTransitions + Cardinality(Opened)) % TransitionModulus
  <2> DEFINE s == route[r].target
  <2>1. s \in Services
    BY RouteAssumption DEF TypeOK
  <2>2. \A t \in Services : t # s => breaker'[t] = breaker[t]
    BY <1>2 DEF RecordResult, TypeOK
  <2>3. openTransitions' = CountTrip(breaker[s], breaker'[s])
    BY <1>2, <2>1 DEF RecordResult, TypeOK
  <2>4. CASE breaker[s].state # "open" /\ breaker'[s].state = "open"
    <3>1. Opened = {s}
      BY <2>1, <2>2, <2>4 DEF Opened
    <3>2. Cardinality(Opened) = 1
      BY <3>1, FS_Singleton
    <3> QED BY <2>3, <2>4, <3>2 DEF CountTrip
  <2>5. CASE ~(breaker[s].state # "open" /\ breaker'[s].state = "open")
    <3>1. Opened = {}
      BY <2>2, <2>5 DEF Opened
    <3>2. openTransitions' = openTransitions
      BY <2>3, <2>5 DEF CountTrip
    <3> QED BY <1>1, <3>1, <3>2
  <2> QED BY <2>4, <2>5
<1>3. ASSUME \A s \in Services : breaker'[s].state = "open" => breaker[s].state = "open",
             openTransitions' = openTransitions
      PROVE  openTransitions' = (openTransitions + Cardinality(Opened)) % TransitionModulus
  <2>1. Opened = {}
    BY <1>3 DEF Opened
  <2> QED BY <1>1, <1>3, <2>1
<1>4. ASSUME NEW r \in Requests, NEW rt \in Routes, CheckCircuit(r, rt)
      PROVE  \A s \in Services : breaker'[s].state = "open" => breaker[s].state = "open"
  <2>1. \A b : Promote(b).state = "open" => b.state = "open"
    BY DEF Promote, Enter
  <2> QED BY <1>4, <2>1 DEF CheckCircuit, TypeOK
<1>5. ASSUME GetAllState
      PROVE  \A s \in Services : breaker'[s].state = "open" => breaker[s].state = "open"
  <2>1. \A b : Promote(b).state = "open" => b.state = "open"
    BY DEF Promote, Enter
  <2> QED BY <1>5, <2>1 DEF GetAllState
<1>6. ASSUME NEW t \in Services, Reset(t)
      PROVE  \A s \in Services : breaker'[s].state = "open" => breaker[s].state = "open"
  BY <1>6 DEF Reset, Enter, TypeOK
<1>7. ASSUME Tick
      PROVE  \A s \in Services : breaker'[s].state = "open" => breaker[s].state = "open"
  BY <1>7 DEF Tick, TypeOK, Breaker
<1>8. ASSUME \/ \E r \in Requests, rt \in Routes : Bypass(r, rt)
             \/ \E r \in Requests : Answer(r) \/ Abandon(r)
             \/ \E s \in Services : BackendChange(s)
             \/ UNCHANGED vars
      PROVE  breaker' = breaker /\ openTransitions' = openTransitions
  BY <1>8 DEF Bypass, Answer, Abandon, BackendChange, vars
<1> QED
  BY <1>2, <1>3, <1>4, <1>5, <1>6, <1>7, <1>8
     DEF Next, CheckCircuit, GetAllState, Reset, Tick

\* The trip counter of the metrics is exact, modulo its width.
THEOREM TripsAreCountedOnce == Spec => TripsCountedOnce
<1>1. IInv /\ [Next]_vars =>
        [openTransitions' =
          (openTransitions
            + Cardinality({s \in Services : breaker[s].state # "open" /\ breaker'[s].state = "open"}))
          % TransitionModulus]_vars
  BY NextCountsTrips DEF Opened
<1> QED BY <1>1, Invariant, PTL DEF Spec, TripsCountedOnce

-----------------------------------------------------------------------------
(* With the history: how long a trip shields a service, and what it takes  *)
(* to close its breaker again.                                             *)

\* While the breaker is open, what is left of the shield and the breaker's age make up
\* the timeout; there is no shield in another state.
ShieldFits(b, left) == IF b.state = "open" THEN left + b.sinceOpen = ResetTimeout ELSE left = 0

\* What a half-open breaker has counted are successes in a row.
RunFits(b, run) == b.state = "half-open" => b.successCount <= run

HInv ==
  /\ IInv /\ HTypeOK
  /\ ShieldFits(breaker[Observed], shield)
  /\ RunFits(breaker[Observed], okRun)

-----------------------------------------------------------------------------
(* One breaker                                                             *)

LEMMA BumpLemma ==
  ASSUME NEW m \in 0 .. CountCap, NEW n \in 0 .. CountCap
  PROVE  Bump(n) \in 0 .. CountCap /\ (m <= n => Bump(m) <= Bump(n))
BY Thresholds DEF Bump

LEMMA PromoteFits ==
  ASSUME NEW b \in Breaker, NEW left \in 0 .. ResetTimeout, NEW run \in 0 .. CountCap,
         ShieldFits(b, left), RunFits(b, run)
  PROVE  /\ ShieldFits(Promote(b), left)
         /\ RunFits(Promote(b), IF b.state = "open" /\ Promote(b).state = "half-open" THEN 0 ELSE run)
         /\ Promote(b).state = "closed" => b.state = "closed"
         /\ Promote(b).state = "open" <=> left > 0
<1>1. CASE b.state = "open" /\ b.sinceOpen >= ResetTimeout
  <2>1. /\ Promote(b).state = "half-open" /\ Promote(b).successCount = 0
    BY <1>1 DEF Promote, Enter
  <2>2. left = 0
    BY <1>1, Thresholds DEF ShieldFits, Breaker
  <2> QED BY <1>1, <2>1, <2>2, Thresholds DEF ShieldFits, RunFits
<1>2. CASE ~(b.state = "open" /\ b.sinceOpen >= ResetTimeout)
  <2>1. Promote(b) = b
    BY <1>2 DEF Promote
  <2>2. b.state = "open" <=> left > 0
    BY <1>2, Thresholds DEF ShieldFits, Breaker
  <2> QED BY <2>1, <2>2 DEF RunFits
<1> QED BY <1>1, <1>2

LEMMA OnSuccessFits ==
  ASSUME NEW b \in Breaker, NEW left \in 0 .. ResetTimeout, NEW run \in 0 .. CountCap,
         ShieldFits(b, left), RunFits(b, run)
  PROVE  /\ ShieldFits(OnSuccess(b), left) /\ RunFits(OnSuccess(b), Bump(run))
         /\ OnSuccess(b).state = "open" => b.state = "open"
         /\ OnSuccess(b).state = "half-open" => b.state = "half-open"
         /\ b.state = "half-open" /\ OnSuccess(b).state = "closed" => Bump(run) >= SuccessThreshold
<1> DEFINE c == [b EXCEPT !.successCount = Bump(@)]
<1>1. /\ c.state = b.state /\ c.successCount = Bump(b.successCount) /\ c.sinceOpen = b.sinceOpen
      /\ b.successCount \in 0 .. CountCap
  BY DEF Breaker
<1>2. b.state = "half-open" => c.successCount <= Bump(run)
  BY <1>1, BumpLemma DEF RunFits
<1>3. c.successCount \in Nat /\ Bump(run) \in Nat
  BY <1>1, BumpLemma
<1> HIDE DEF c
<1>4. CASE c.state = "half-open" /\ c.successCount >= SuccessThreshold
  <2>1. OnSuccess(b) = Enter(c, "closed")
    BY <1>4 DEF OnSuccess, c
  <2>2. OnSuccess(b).state = "closed"
    BY <2>1 DEF Enter
  <2>3. Bump(run) >= SuccessThreshold
    BY <1>1, <1>2, <1>3, <1>4, Thresholds
  <2> QED BY <1>1, <1>4, <2>2, <2>3 DEF ShieldFits, RunFits
<1>5. CASE ~(c.state = "half-open" /\ c.successCount >= SuccessThreshold)
  <2>1. OnSuccess(b) = c
    BY <1>5 DEF OnSuccess, c
  <2> QED BY <1>1, <1>2, <2>1 DEF ShieldFits, RunFits
<1> QED BY <1>4, <1>5

LEMMA OnFailureFits ==
  ASSUME NEW b \in Breaker, NEW left \in 0 .. ResetTimeout, ShieldFits(b, left)
  PROVE  /\ ShieldFits(OnFailure(b), IF b.state # "open" /\ OnFailure(b).state = "open"
                                     THEN ResetTimeout ELSE left)
         /\ OnFailure(b).state # "half-open"
         /\ OnFailure(b).state = "closed" => b.state = "closed"
<1> DEFINE c == [b EXCEPT !.failureCount = Bump(@)]
           trips == \/ c.state = "closed" /\ c.failureCount >= FailureThreshold
                    \/ c.state = "half-open"
<1>1. c.state = b.state /\ c.sinceOpen = b.sinceOpen /\ b.state \in {"closed", "half-open", "open"}
  BY DEF Breaker
<1>2. OnFailure(b) = IF trips THEN Trip(c) ELSE c
  BY DEF OnFailure
<1>3. trips => c.state # "open" /\ (~trips => c.state # "half-open")
  OBVIOUS
<1>4. c.state = "half-open" => trips
  OBVIOUS
<1> HIDE DEF c, trips
<1>5. CASE trips
  <2>1. OnFailure(b).state = "open" /\ OnFailure(b).sinceOpen = 0
    BY <1>2, <1>5 DEF Trip
  <2> QED BY <1>1, <1>3, <1>5, <2>1, Thresholds DEF ShieldFits
<1>6. CASE ~trips
  <2>1. OnFailure(b) = c
    BY <1>2, <1>6
  <2> QED BY <1>1, <1>4, <1>6, <2>1 DEF ShieldFits
<1> QED BY <1>5, <1>6

-----------------------------------------------------------------------------
(* The invariant                                                           *)

\* The history only watches: every step of HNext is a step of the breakers.
LEMMA HistoryStep == [HNext]_hvars => [Next]_vars
BY DEF HNext, Next, hvars, HCheckCircuit, HRecordResult, HReset, HTick

LEMMA HInitInv == HInit => HInv
<1> SUFFICES ASSUME HInit PROVE HInv
  OBVIOUS
<1>1. IInv
  BY InitEstablishesInvariant DEF HInit
<1>2. breaker[Observed].state = "closed"
  BY ObservedAssumption DEF HInit, Init
<1> QED BY <1>1, <1>2, Thresholds DEF HInit, HInv, HTypeOK, ShieldFits, RunFits

\* A step after which the observed breaker is as before, or promoted.
LEMMA SeenOrPromoted ==
  ASSUME HInv, breaker'[Observed] \in {breaker[Observed], Promote(breaker[Observed])},
         RestartOkRun, UNCHANGED <<shield, failRun>>
  PROVE  /\ HTypeOK' /\ ShieldFits(breaker[Observed], shield)' /\ RunFits(breaker[Observed], okRun)'
         /\ ~(State(Observed) = "half-open" /\ State(Observed)' = "closed")
<1> DEFINE b == breaker[Observed]
<1>1. b \in Breaker /\ shield \in 0 .. ResetTimeout /\ okRun \in 0 .. CountCap
      /\ ShieldFits(b, shield) /\ RunFits(b, okRun)
  BY ObservedAssumption DEF HInv, IInv, TypeOK, HTypeOK
<1>2. okRun' = IF b.state = "open" /\ breaker'[Observed].state = "half-open" THEN 0 ELSE okRun
  BY DEF RestartOkRun, Promoted, State
<1>3. HTypeOK'
  BY <1>1, <1>2, Thresholds DEF HInv, HTypeOK
<1> HIDE DEF b
<1>4. CASE breaker'[Observed] = b
  BY <1>1, <1>2, <1>3, <1>4 DEF b, State
<1>5. CASE breaker'[Observed] = Promote(b)
  <2>1. ShieldFits(breaker'[Observed], shield') /\ RunFits(breaker'[Observed], okRun')
    BY <1>1, <1>2, <1>5, PromoteFits
  <2>2. ~(b.state = "half-open" /\ breaker'[Observed].state = "closed")
    BY <1>1, <1>5, PromoteFits
  <2> QED BY <1>3, <2>1, <2>2 DEF b, State
<1> QED BY <1>4, <1>5 DEF b

LEMMA ObservedResult ==
  ASSUME HInv, NEW r \in Requests, HRecordResult(r), route[r].target = Observed
  PROVE  /\ HTypeOK' /\ ShieldFits(breaker[Observed], shield)' /\ RunFits(breaker[Observed], okRun)'
         /\ State(Observed) = "half-open" /\ State(Observed)' = "closed" => okRun' >= SuccessThreshold
<1> DEFINE b == breaker[Observed]
           c == breaker'[Observed]
<1>1. b \in Breaker /\ shield \in 0 .. ResetTimeout /\ okRun \in 0 .. CountCap /\ failRun \in 0 .. CountCap
      /\ ShieldFits(b, shield) /\ RunFits(b, okRun)
  BY ObservedAssumption DEF HInv, IInv, TypeOK, HTypeOK
<1>2. c = IF ok[r] THEN OnSuccess(b) ELSE OnFailure(b)
  BY ObservedAssumption DEF HRecordResult, RecordResult, HInv, IInv, TypeOK
<1>3. /\ shield' = IF b.state # "open" /\ c.state = "open" THEN ResetTimeout ELSE shield
      /\ failRun' = IF ok[r] THEN 0 ELSE Bump(failRun)
      /\ okRun' = IF ok[r] THEN Bump(okRun) ELSE 0
  BY DEF HRecordResult, Trips, State
<1> HIDE DEF b, c
<1>4. HTypeOK'
  <2>1. shield' \in 0 .. ResetTimeout
    BY <1>1, <1>3, Thresholds
  <2>2. failRun' \in 0 .. CountCap /\ okRun' \in 0 .. CountCap
    BY <1>1, <1>3, BumpLemma, Thresholds
  <2> QED BY <2>1, <2>2 DEF HTypeOK
<1>5. CASE ok[r]
  <2>1. shield' = shield /\ okRun' = Bump(okRun) /\ c = OnSuccess(b)
    BY <1>1, <1>2, <1>3, <1>5, OnSuccessFits
  <2>2. /\ ShieldFits(c, shield') /\ RunFits(c, okRun')
        /\ b.state = "half-open" /\ c.state = "closed" => okRun' >= SuccessThreshold
    BY <1>1, <2>1, OnSuccessFits
  <2> QED BY <1>4, <2>2 DEF b, c, State
<1>6. CASE ~ok[r]
  <2>1. c = OnFailure(b)
    BY <1>2, <1>6
  <2>2. ShieldFits(c, shield') /\ c.state # "half-open" /\ (c.state = "closed" => b.state = "closed")
    BY <1>1, <1>3, <2>1, OnFailureFits
  <2> QED BY <1>4, <2>2 DEF b, c, State, RunFits
<1> QED BY <1>5, <1>6

LEMMA HistoryKept ==
  ASSUME HInv, HNext
  PROVE  /\ HTypeOK' /\ ShieldFits(breaker[Observed], shield)' /\ RunFits(breaker[Observed], okRun)'
         /\ State(Observed) = "half-open" /\ State(Observed)' = "closed" =>
              okRun' >= SuccessThreshold \/ Reset(Observed)
<1>0. breaker \in [Services -> Breaker] /\ Observed \in Services
  BY ObservedAssumption DEF HInv, IInv, TypeOK
<1>1. CASE breaker'[Observed] = breaker[Observed] /\ UNCHANGED history
  BY <1>1 DEF history, HInv, HTypeOK, State
<1>2. ASSUME NEW r \in Requests, NEW rt \in Routes, HCheckCircuit(r, rt)
      PROVE  breaker'[Observed] \in {breaker[Observed], Promote(breaker[Observed])}
  BY <1>0, <1>2 DEF HCheckCircuit, CheckCircuit
<1>3. CASE \E r \in Requests, rt \in Routes : HCheckCircuit(r, rt)
  BY <1>2, <1>3, SeenOrPromoted DEF HCheckCircuit
<1>4. CASE GetAllState /\ RestartOkRun /\ UNCHANGED <<shield, failRun>>
  <2>1. breaker'[Observed] \in {breaker[Observed], Promote(breaker[Observed])}
    BY <1>0, <1>4 DEF GetAllState
  <2> QED BY <1>4, <2>1, SeenOrPromoted
<1>5. CASE \E r \in Requests, rt \in Routes : Bypass(r, rt) /\ UNCHANGED history
  BY <1>1, <1>5 DEF Bypass
<1>6. CASE \E r \in Requests : (Answer(r) \/ Abandon(r)) /\ UNCHANGED history
  BY <1>1, <1>6 DEF Answer, Abandon
<1>7. CASE \E s \in Services : BackendChange(s) /\ UNCHANGED history
  BY <1>1, <1>7 DEF BackendChange
<1>8. CASE \E r \in Requests : HRecordResult(r)
  <2>1. PICK r \in Requests : HRecordResult(r)
    BY <1>8
  <2>2. CASE route[r].target = Observed
    BY <2>1, <2>2, ObservedResult
  <2>3. CASE route[r].target # Observed
    <3>1. breaker'[Observed] = breaker[Observed] /\ UNCHANGED history
      BY <1>0, <2>1, <2>3 DEF HRecordResult, RecordResult
    <3> QED BY <1>1, <3>1
  <2> QED BY <2>2, <2>3
<1>9. CASE \E s \in Services : HReset(s)
  <2>1. PICK s \in Services : HReset(s)
    BY <1>9
  <2>2. CASE s = Observed
    <3>1. Reset(Observed) /\ shield' = 0 /\ okRun' = 0 /\ failRun' = 0
      BY <2>1, <2>2 DEF HReset
    <3>2. breaker'[Observed].state = "closed"
      BY <1>0, <3>1 DEF Reset, Enter
    <3> QED BY <3>1, <3>2, Thresholds DEF HTypeOK, ShieldFits, RunFits
  <2>3. CASE s # Observed
    <3>1. breaker'[Observed] = breaker[Observed] /\ UNCHANGED history
      BY <1>0, <2>1, <2>3 DEF HReset, Reset
    <3> QED BY <1>1, <3>1
  <2> QED BY <2>2, <2>3
<1>10. CASE HTick
  <2> DEFINE b == breaker[Observed]
             c == breaker'[Observed]
  <2>1. /\ c.state = b.state /\ c.successCount = b.successCount /\ b \in Breaker
        /\ c.sinceOpen = IF b.sinceOpen < ResetTimeout THEN b.sinceOpen + 1 ELSE b.sinceOpen
    BY <1>0, <1>10 DEF HTick, Tick, Breaker
  <2>2. /\ shield' = IF shield > 0 THEN shield - 1 ELSE 0
        /\ UNCHANGED <<failRun, okRun>> /\ shield \in 0 .. ResetTimeout
    BY <1>10 DEF HTick, HInv, HTypeOK
  <2>3. ShieldFits(b, shield) /\ RunFits(b, okRun)
    BY DEF HInv
  <2> HIDE DEF b, c
  <2>4. b.sinceOpen \in 0 .. ResetTimeout
    BY <2>1 DEF Breaker
  <2>5. ShieldFits(c, shield')
    BY <2>1, <2>2, <2>3, <2>4, Thresholds DEF ShieldFits
  <2>6. RunFits(c, okRun') /\ HTypeOK'
    BY <2>1, <2>2, <2>3, Thresholds DEF RunFits, HInv, HTypeOK
  <2> QED BY <2>1, <2>5, <2>6 DEF b, c, State
<1> QED BY <1>3, <1>4, <1>5, <1>6, <1>7, <1>8, <1>9, <1>10 DEF HNext

LEMMA HNextKeepsInv == HInv /\ [HNext]_hvars => HInv'
<1> SUFFICES ASSUME HInv, [HNext]_hvars PROVE HInv'
  OBVIOUS
<1>1. IInv'
  BY HistoryStep, NextPreservesInvariant DEF HInv
<1>2. CASE HNext
  BY <1>1, <1>2, HistoryKept DEF HInv
<1>3. CASE UNCHANGED hvars
  BY <1>1, <1>3 DEF hvars, vars, history, HInv, HTypeOK
<1> QED BY <1>2, <1>3

LEMMA HistoryInvariant == HSpec => []HInv
BY HInitInv, HNextKeepsInv, PTL DEF HSpec

-----------------------------------------------------------------------------
\* The history variables only watch: every behaviour of the breakers with their
\* history is, without it, a behaviour of CircuitBreaker, so whatever is proved of
\* every behaviour of the breaker service holds here.
THEOREM HistoryOnlyWatches == HSpec => Spec
<1>1. HInit => Init
  BY DEF HInit
<1> QED BY <1>1, HistoryStep, PTL DEF HSpec, Spec

\* A trip shields its service for ResetTimeout, no shorter and no longer, whatever
\* fails, is answered late or is read in the meantime.
THEOREM ShieldIsExact == HSpec => []ShieldExact
<1>1. HInv => ShieldExact
  <2> SUFFICES ASSUME HInv PROVE ShieldExact
    OBVIOUS
  <2>1. /\ breaker[Observed] \in Breaker /\ shield \in 0 .. ResetTimeout /\ okRun \in 0 .. CountCap
        /\ ShieldFits(breaker[Observed], shield) /\ RunFits(breaker[Observed], okRun)
    BY ObservedAssumption DEF HInv, IInv, TypeOK, HTypeOK
  <2> QED BY <2>1, PromoteFits DEF ShieldExact
<1> QED BY <1>1, HistoryInvariant, PTL

\* No half-open breaker closes on fewer than SuccessThreshold successes in a row since
\* it left open, unless an operator resets it.
THEOREM ClosingTakesProbes == HSpec => CloseTakesProbes
<1> DEFINE Closes == State(Observed) = "half-open" /\ State(Observed)' = "closed" =>
                       okRun' >= SuccessThreshold \/ Reset(Observed)
<1>1. HInv /\ [HNext]_hvars => [Closes]_hvars
  <2> SUFFICES ASSUME HInv, [HNext]_hvars PROVE Closes \/ UNCHANGED hvars
    OBVIOUS
  <2> QED BY HistoryKept
<1> QED BY <1>1, HistoryInvariant, PTL DEF HSpec, CloseTakesProbes
=============================================================================
