--------------------------- MODULE CircuitBreaker ---------------------------
(***************************************************************************)
(* The circuit-breaker service (internal/service/circuitbreaker) together  *)
(* with its two callers inside a request: the circuitbreaker plugin, which *)
(* asks CheckCircuit before a request is forwarded, and the reverse proxy, *)
(* which reports the outcome with RecordResult after the backend answered. *)
(* The two calls are separate critical sections, so requests admitted in   *)
(* one state of the breaker report their result in another.                *)
(*                                                                         *)
(* A route names the breaker it is guarded by (the plugin's `service`      *)
(* option, or NoGuard when the route has no circuitbreaker plugin) and the *)
(* target service the traffic rules picked; the code lets the two differ.  *)
(*                                                                         *)
(* time.Since(lastOpenTime) is kept as an age, saturated at ResetTimeout:  *)
(* the code only ever compares it with ResetTimeout.                       *)
(***************************************************************************)
EXTENDS Integers, FiniteSets

CONSTANTS
  Services,             \* names of backend services
  Requests,             \* handler goroutines
  Routes,               \* records [guard, target], see above
  NoGuard,              \* a route without circuitbreaker plugin
  CfgFailureThreshold,  \* configured thresholds and timeout; a value <= 0
  CfgSuccessThreshold,  \*   selects the default of NewService
  CfgResetTimeout,
  CountCap,             \* bound: counters saturate here
  TransitionModulus     \* openTransitions wraps here (2^64 in the code)

\* Values NewService falls back to: 5 failures, 2 successes, 60 seconds.
OrDefault(configured, default) == IF configured <= 0 THEN default ELSE configured

FailureThreshold == OrDefault(CfgFailureThreshold, 5)
SuccessThreshold == OrDefault(CfgSuccessThreshold, 2)
ResetTimeout     == OrDefault(CfgResetTimeout, 60)

ASSUME ConfigAssumption ==
  /\ CfgFailureThreshold \in Int
  /\ CfgSuccessThreshold \in Int
  /\ CfgResetTimeout \in Int

\* Saturation is invisible to the code as long as no threshold exceeds it.
ASSUME CapAssumption ==
  /\ CountCap \in Nat
  /\ FailureThreshold <= CountCap
  /\ SuccessThreshold <= CountCap

ASSUME ModulusAssumption == TransitionModulus \in Nat \ {0, 1}

ASSUME RouteAssumption ==
  /\ NoGuard \notin Services
  /\ Routes \subseteq [guard : Services \cup {NoGuard}, target : Services]
  /\ Routes # {}

VARIABLES
  known,            \* services with an entry in circuitBreakers
  breaker,          \* [Services -> Breaker]
  openTransitions,
  up,               \* environment: does the service answer successfully?
  pc,               \* control point of each handler
  route,            \* route the handler serves
  ok                \* outcome the handler is about to record

vars == <<known, breaker, openTransitions, up, pc, route, ok>>

Breaker == [state        : {"closed", "half-open", "open"},
            failureCount : 0 .. CountCap,
            successCount : 0 .. CountCap,
            sinceOpen    : 0 .. ResetTimeout]

TypeOK ==
  /\ known \subseteq Services
  /\ breaker \in [Services -> Breaker]
  /\ openTransitions \in 0 .. TransitionModulus - 1
  /\ up \in [Services -> BOOLEAN]
  /\ pc \in [Requests -> {"idle", "forwarding", "recording"}]
  /\ route \in [Requests -> Routes]
  /\ ok \in [Requests -> BOOLEAN]

-----------------------------------------------------------------------------
(* Transitions of one breaker, all of them inside the service's mutex.     *)

\* Mutant: the bound left out.
BumpUncapped(n) == n + 1

Bump(n) == IF n < CountCap THEN n + 1 ELSE n

\* Mutant: entering a state does not clear the counters.
EnterKeeping(b, s) ==
  [state |-> s, failureCount |-> b.failureCount, successCount |-> b.successCount,
   sinceOpen |-> b.sinceOpen]

\* Entering closed or half-open clears both counters.
Enter(b, s) ==
  [state |-> s, failureCount |-> 0, successCount |-> 0, sinceOpen |-> b.sinceOpen]

\* Opening keeps the counters and stamps lastOpenTime.
Trip(b) ==
  [state |-> "open", failureCount |-> b.failureCount,
   successCount |-> b.successCount, sinceOpen |-> 0]

\* Mutant: a half-open breaker is entered anew by every request.
PromoteAgain(b) ==
  IF b.state # "closed" /\ b.sinceOpen >= ResetTimeout THEN Enter(b, "half-open") ELSE b

\* open -> half-open once ResetTimeout has passed, otherwise unchanged.
Promote(b) ==
  IF b.state = "open" /\ b.sinceOpen >= ResetTimeout
  THEN Enter(b, "half-open")
  ELSE b

\* Mutant: a success forgives one failure, without a floor.
OnSuccessForgiving(b) ==
  LET c == [b EXCEPT !.successCount = Bump(@), !.failureCount = @ - 1] IN
  IF c.state = "half-open" /\ c.successCount >= SuccessThreshold
  THEN Enter(c, "closed")
  ELSE c

\* Mutant: enough late successes close a breaker that is open.
OnSuccessClosing(b) ==
  LET c == [b EXCEPT !.successCount = Bump(@)] IN
  IF c.state # "closed" /\ c.successCount >= SuccessThreshold
  THEN Enter(c, "closed")
  ELSE c

OnSuccess(b) ==
  LET c == [b EXCEPT !.successCount = Bump(@)] IN
  IF c.state = "half-open" /\ c.successCount >= SuccessThreshold
  THEN Enter(c, "closed")
  ELSE c

\* Mutant: a late failure opens an open breaker again.
OnFailureReopening(b) ==
  LET c == [b EXCEPT !.failureCount = Bump(@)] IN
  IF c.failureCount >= FailureThreshold \/ c.state = "half-open"
  THEN Trip(c)
  ELSE c

OnFailure(b) ==
  LET c == [b EXCEPT !.failureCount = Bump(@)] IN
  IF \/ c.state = "closed" /\ c.failureCount >= FailureThreshold
     \/ c.state = "half-open"
  THEN Trip(c)
  ELSE c

\* Mutant: every failure recorded while open counts.
CountTripAgain(before, after) ==
  IF after.state = "open" THEN (openTransitions + 1) % TransitionModulus ELSE openTransitions

CountTrip(before, after) ==
  IF before.state # "open" /\ after.state = "open"
  THEN (openTransitions + 1) % TransitionModulus
  ELSE openTransitions

-----------------------------------------------------------------------------
\* What the local variables of a handler without request are set to.
AnyRoute == CHOOSE rt \in Routes : TRUE

\* A map entry that does not exist yet is created closed, which is what the
\* breaker of an unknown service looks like here.
Init ==
  /\ known = {}
  /\ breaker = [s \in Services |-> [state |-> "closed", failureCount |-> 0,
                                    successCount |-> 0, sinceOpen |-> ResetTimeout]]
  /\ openTransitions = 0
  /\ up \in [Services -> BOOLEAN]
  /\ pc = [r \in Requests |-> "idle"]
  /\ route = [r \in Requests |-> AnyRoute]
  /\ ok = [r \in Requests |-> FALSE]

\* The handler of r returns.
Leave(r) ==
  /\ pc' = [pc EXCEPT ![r] = "idle"]
  /\ route' = [route EXCEPT ![r] = AnyRoute]
  /\ ok' = [ok EXCEPT ![r] = FALSE]

\* A request on a route without the plugin is forwarded unchecked.
Bypass(r, rt) ==
  /\ pc[r] = "idle"
  /\ rt.guard = NoGuard
  /\ pc' = [pc EXCEPT ![r] = "forwarding"]
  /\ route' = [route EXCEPT ![r] = rt]
  /\ UNCHANGED <<known, breaker, openTransitions, up, ok>>

\* Mutant: an open breaker rejects before its timeout is looked at.
CheckCircuitRejecting(r, rt) ==
  /\ pc[r] = "idle"
  /\ rt.guard # NoGuard
  /\ breaker[rt.guard].state # "open"
  /\ known' = known \cup {rt.guard}
  /\ pc' = [pc EXCEPT ![r] = "forwarding"]
  /\ route' = [route EXCEPT ![r] = rt]
  /\ UNCHANGED <<breaker, openTransitions, up, ok>>

\* Plugin.Execute -> CheckCircuit: creates the entry, promotes an open breaker
\* whose timeout is over, and then rejects (503) exactly when still open.
CheckCircuit(r, rt) ==
  /\ pc[r] = "idle"
  /\ rt.guard # NoGuard
  /\ known' = known \cup {rt.guard}
  /\ breaker' = [breaker EXCEPT ![rt.guard] = Promote(@)]
  /\ \/ /\ breaker'[rt.guard].state = "open"
        /\ UNCHANGED <<pc, route>>
     \/ /\ breaker'[rt.guard].state # "open"
        /\ pc' = [pc EXCEPT ![r] = "forwarding"]
        /\ route' = [route EXCEPT ![r] = rt]
  /\ UNCHANGED <<openTransitions, up, ok>>

\* The backend answered (or no instance was available: ok is FALSE); RecordResult
\* looks the breaker up under the read lock and drops the result if it has none.
Answer(r) ==
  /\ pc[r] = "forwarding"
  /\ \/ /\ route[r].target \in known
        /\ ok' = [ok EXCEPT ![r] = up[route[r].target]]
        /\ pc' = [pc EXCEPT ![r] = "recording"]
        /\ UNCHANGED route
     \/ route[r].target \notin known /\ Leave(r)
  /\ UNCHANGED <<known, breaker, openTransitions, up>>

\* The request ends without RecordResult: a later plugin answered it, or the
\* proxy gave up while transcoding it.
Abandon(r) ==
  /\ pc[r] = "forwarding"
  /\ Leave(r)
  /\ UNCHANGED <<known, breaker, openTransitions, up>>

\* Second half of RecordResult, under the write lock.
RecordResult(r) ==
  LET s == route[r].target
      b == IF ok[r] THEN OnSuccess(breaker[s]) ELSE OnFailure(breaker[s])
  IN
  /\ pc[r] = "recording"
  /\ breaker' = [breaker EXCEPT ![s] = b]
  /\ openTransitions' = CountTrip(breaker[s], b)
  /\ Leave(r)
  /\ UNCHANGED <<known, up>>

\* Reading the states also moves every breaker that is due to half-open.
GetAllState ==
  /\ breaker' = [s \in Services |-> IF s \in known THEN Promote(breaker[s]) ELSE breaker[s]]
  /\ UNCHANGED <<known, openTransitions, up, pc, route, ok>>

\* Mutant: a reset deletes the entry.
ResetDeleting(s) ==
  /\ known' = known \ {s}
  /\ breaker' = [breaker EXCEPT ![s] = Enter(@, "closed")]
  /\ UNCHANGED <<openTransitions, up, pc, route, ok>>

\* The operator resets one breaker.
Reset(s) ==
  /\ known' = known \cup {s}
  /\ breaker' = [breaker EXCEPT ![s] = Enter(@, "closed")]
  /\ UNCHANGED <<openTransitions, up, pc, route, ok>>

Tick ==
  /\ breaker' = [s \in Services |->
       [breaker[s] EXCEPT !.sinceOpen = IF @ < ResetTimeout THEN @ + 1 ELSE @]]
  /\ UNCHANGED <<known, openTransitions, up, pc, route, ok>>

BackendChange(s) ==
  /\ up' = [up EXCEPT ![s] = ~@]
  /\ UNCHANGED <<known, breaker, openTransitions, pc, route, ok>>

Next ==
  \/ \E r \in Requests, rt \in Routes : Bypass(r, rt) \/ CheckCircuit(r, rt)
  \/ \E r \in Requests : Answer(r) \/ Abandon(r) \/ RecordResult(r)
  \/ GetAllState
  \/ \E s \in Services : Reset(s) \/ BackendChange(s)
  \/ Tick

Spec == Init /\ [][Next]_vars

\* Traffic keeps coming on every route, not every request is abandoned, a
\* handler that holds a result records it (mutex progress) and time passes.
Fairness ==
  /\ WF_vars(Tick)
  /\ \A r \in Requests : WF_vars(RecordResult(r))
  /\ \A rt \in Routes :
       /\ SF_vars(\E r \in Requests : Bypass(r, rt) \/ CheckCircuit(r, rt))
       /\ SF_vars(\E r \in Requests : route[r] = rt /\ Answer(r))

LoadSpec == Spec /\ Fairness

-----------------------------------------------------------------------------
(* Properties.                                                             *)

\* The counters agree with the state the breaker is in: a closed breaker has
\* not reached the failure threshold, a half-open one has seen no failure and
\* not yet enough successes (results of requests admitted in an earlier state
\* included), an open one was opened by at least one failure and by nothing
\* but failures that a handler recorded for a service it had a breaker for.
CountersFitState ==
  \A s \in Services :
    LET b == breaker[s] IN
    /\ b.state = "closed" => b.failureCount < FailureThreshold
    /\ b.state = "half-open" => b.failureCount = 0 /\ b.successCount < SuccessThreshold
    /\ b.state = "open" => b.failureCount > 0
    /\ s \notin known => b.state = "closed" /\ b.failureCount = 0 /\ b.successCount = 0

\* RecordResult looks the breaker up under one lock and updates it under
\* another; the entry it found is still in the map when it updates it.
LookupStaysValid ==
  \A r \in Requests : pc[r] = "recording" => route[r].target \in known

\* The only way round the state machine: closed -> open on the failure that
\* reaches the threshold, open -> half-open when the timeout is over,
\* half-open -> open or closed; everything else is an operator's Reset. A
\* late result may arrive in any of these states and must not add an edge.
StateMachine ==
  [][\A s \in Services :
       LET b == breaker[s]
           c == breaker'[s]
       IN b.state # c.state =>
            \/ b.state = "closed" /\ c.state = "open" /\ c.failureCount = FailureThreshold
            \/ b.state = "open" /\ c.state = "half-open" /\ b.sinceOpen = ResetTimeout
            \/ b.state = "half-open" /\ c.state = "open" /\ b.failureCount = 0
            \/ b.state = "half-open" /\ c.state = "closed"
                 /\ b.successCount = SuccessThreshold - 1
            \/ Reset(s)]_vars

\* openTransitions, read by the metrics, counts every entry into open once and
\* nothing else: not the failures that arrive while open, not a promotion.
TripsCountedOnce ==
  [][openTransitions' =
       (openTransitions
         + Cardinality({s \in Services : breaker[s].state # "open" /\ breaker'[s].state = "open"}))
       % TransitionModulus]_vars

\* A breaker does not stay open for ever while its route has traffic, even if
\* failures of requests admitted earlier keep arriving.
OpenEnds ==
  \A s \in Services :
    (\E rt \in Routes : rt.guard = s) =>
      (breaker[s].state = "open" ~> breaker[s].state # "open")

\* Once a service answers successfully for good, its breaker closes for good,
\* whatever results were in flight when it recovered.
Recovers ==
  \A s \in Services :
    (\E rt \in Routes : rt.guard = s /\ rt.target = s) =>
      (<>[]up[s] => <>[](breaker[s].state = "closed"))
=============================================================================
