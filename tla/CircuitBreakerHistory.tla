----------------------- MODULE CircuitBreakerHistory ------------------------
(***************************************************************************)
(* CircuitBreaker with history variables that the code does not keep, for  *)
(* the properties that compare an admission or a transition of one service *)
(* with what happened before it. The history is written from the events    *)
(* only (a trip, a recorded result, a tick), never from the breaker's      *)
(* counters or its lastOpenTime, so that it judges them.                   *)
(***************************************************************************)
EXTENDS CircuitBreaker

CONSTANT Observed   \* the service whose history is kept

ASSUME ObservedAssumption == Observed \in Services

VARIABLES
  shield,    \* ticks for which the last trip still has to shield the service
  failRun,   \* failures recorded in a row, saturated at CountCap
  okRun      \* successes recorded in a row since the last trip or promotion

history == <<shield, failRun, okRun>>
hvars == <<vars, history>>

HTypeOK ==
  /\ shield \in 0 .. ResetTimeout
  /\ failRun \in 0 .. CountCap
  /\ okRun \in 0 .. CountCap

HInit ==
  /\ Init
  /\ shield = 0
  /\ failRun = 0
  /\ okRun = 0

State(s) == breaker[s].state
Trips    == State(Observed) # "open" /\ State(Observed)' = "open"

\* okRun starts again where the service leaves open.
Promoted     == State(Observed) = "open" /\ State(Observed)' = "half-open"
RestartOkRun == okRun' = IF Promoted THEN 0 ELSE okRun

HCheckCircuit(r, rt) ==
  /\ CheckCircuit(r, rt)
  /\ RestartOkRun
  /\ UNCHANGED <<shield, failRun>>

HRecordResult(r) ==
  /\ RecordResult(r)
  /\ IF route[r].target = Observed
     THEN /\ shield' = IF Trips THEN ResetTimeout ELSE shield
          /\ failRun' = IF ok[r] THEN 0 ELSE Bump(failRun)
          /\ okRun' = IF ok[r] THEN Bump(okRun) ELSE 0
     ELSE UNCHANGED history

HReset(s) ==
  /\ Reset(s)
  /\ IF s = Observed THEN shield' = 0 /\ okRun' = 0 /\ failRun' = 0
     ELSE UNCHANGED history

HTick ==
  /\ Tick
  /\ shield' = IF shield > 0 THEN shield - 1 ELSE 0
  /\ UNCHANGED <<failRun, okRun>>

HNext ==
  \/ \E r \in Requests, rt \in Routes :
       \/ HCheckCircuit(r, rt)
       \/ Bypass(r, rt) /\ UNCHANGED history
  \/ \E r \in Requests :
       \/ HRecordResult(r)
       \/ (Answer(r) \/ Abandon(r)) /\ UNCHANGED history
  \/ GetAllState /\ RestartOkRun /\ UNCHANGED <<shield, failRun>>
  \/ \E s \in Services : HReset(s) \/ (BackendChange(s) /\ UNCHANGED history)
  \/ HTick

HSpec == HInit /\ [][HNext]_hvars

-----------------------------------------------------------------------------
\* A trip shields the service for exactly ResetTimeout: a guarded request that
\* came now would be turned away if and only if the last trip is younger than that
\* - failures that arrive while the breaker is open, and operators reading the
\* states, move neither end.
ShieldExact == Promote(breaker[Observed]).state = "open" <=> shield > 0

\* A half-open breaker closes only on SuccessThreshold successes in a row, all
\* of them recorded since it left open. (config.yml.example: "how many
\* successes in the half-open state it takes to recover".)
CloseTakesProbes ==
  [][State(Observed) = "half-open" /\ State(Observed)' = "closed" =>
       okRun' >= SuccessThreshold \/ Reset(Observed)]_hvars

\* The configuration's comment: the failure threshold is the number of failures
\* IN A ROW that trips a closed breaker (config.yml.example, failure_threshold).
\* The code never clears failureCount on a success, so this does not hold.
TripTakesFailuresInARow ==
  [][State(Observed) = "closed" /\ State(Observed)' = "open" =>
       failRun' >= FailureThreshold]_hvars
=============================================================================
