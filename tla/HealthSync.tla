----------------------------- MODULE HealthSync -----------------------------
(***************************************************************************)
(* One backend service as three components see it: the health checker's    *)
(* ServiceCheckInfo (its Status map), the service's load balancer (the     *)
(* Alive flag of its instances) and the configuration. They are kept in    *)
(* step by two actors that run concurrently:                               *)
(*   - the checker goroutine, which in each round captures the info it     *)
(*     finds registered, probes its instances one by one, writes Status    *)
(*     and, only when Status changed, calls the hook that sets Alive;      *)
(*   - applyConfigLocked (one at a time, under Gateway.mu), which registers*)
(*     a new info and then replaces the balancer, or removes both.         *)
(* Neither takes a lock of the other, and both infos and balancers are     *)
(* objects that are replaced while somebody may still hold the old one,    *)
(* hence the generation numbers. Services are independent of each other    *)
(* but for the barrier at the end of a round, so one service is modelled.  *)
(***************************************************************************)
EXTENDS Integers

CONSTANTS
  Instances,   \* instance URLs a configuration may list for the service
  MaxApplies,  \* bound: applied configurations, the bootstrap included
  None         \* no info registered / no balancer in the factory's map

ASSUME InstanceAssumption == Instances # {}
ASSUME AppliesAssumption  == MaxApplies \in Nat \ {0}
ASSUME NoneAssumption     == None \notin Nat

VARIABLES
  up,        \* environment: does the instance answer its health path with 200?
  config,    \* instances in g.config; {} when the service is not configured
  gen,       \* configurations applied so far
  info,      \* info[g]: Status map of the info registered by apply g
  infoCur,   \* HealthChecker.services: generation registered, or None
  alive,     \* alive[g]: Alive flags of the balancer built by apply g; 0 is an
             \*   empty balancer made on demand by GetOrCreateLoadBalancer
  lbCur,     \* LoadBalancerFactory.snap: generation in the map, or None
  apply,     \* the apply under way
  checker,   \* the checker goroutine
  overlap    \* observer: the latest apply and a round were under way together

hcVars  == <<info, infoCur>>
lbVars  == <<alive, lbCur>>
cfgVars == <<config, gen, apply>>
vars    == <<up, config, gen, info, infoCur, alive, lbCur, apply, checker, overlap>>

Gens  == 0 .. MaxApplies
Flags == {"yes", "no", "absent"}   \* a map entry: true, false, no such key
Yes(b) == IF b THEN "yes" ELSE "no"

TypeOK ==
  /\ up \in [Instances -> BOOLEAN]
  /\ config \in SUBSET Instances
  /\ gen \in 1 .. MaxApplies
  /\ info \in [Gens -> [Instances -> Flags]]
  /\ infoCur \in Gens \cup {None}
  /\ alive \in [Gens -> [Instances -> Flags]]
  /\ lbCur \in Gens \cup {None}
  /\ apply \in [pc     : {"idle", "store", "replace", "removeLB", "commit"},
                target : SUBSET Instances,
                copy   : [Instances -> Flags]]
  /\ checker \in [pc   : {"wait", "probe", "update", "notify", "set", "exit"},
                  gen  : Gens, todo : SUBSET Instances,
                  inst : Instances, ok : BOOLEAN, lb : Gens]
  /\ overlap \in BOOLEAN

Absent == [i \in Instances |-> "absent"]

\* RegisterService: known URLs keep their status, new ones start unhealthy.
Registered(c, previous) ==
  [i \in Instances |-> IF i \notin c THEN "absent"
                       ELSE IF previous[i] # "absent" THEN previous[i] ELSE "no"]

\* syncServicesLocked: every instance of a new balancer starts alive.
AllAlive(c) == [i \in Instances |-> IF i \in c THEN "yes" ELSE "absent"]

\* Neither a round nor an apply under way: no local variable holds anything.
Waiting == [pc |-> "wait", gen |-> 0, todo |-> {}, inst |-> CHOOSE i \in Instances : TRUE,
            ok |-> FALSE, lb |-> 0]
NoApply == [pc |-> "idle", target |-> {}, copy |-> Absent]

\* The state after NewGateway applied the bootstrap configuration.
Init ==
  /\ up \in [Instances -> BOOLEAN]
  /\ config \in (SUBSET Instances) \ {{}}
  /\ gen = 1
  /\ info = [g \in Gens |-> IF g = 1 THEN Registered(config, Absent) ELSE Absent]
  /\ infoCur = 1
  /\ alive = [g \in Gens |-> IF g = 1 THEN AllAlive(config) ELSE Absent]
  /\ lbCur = 1
  /\ apply = NoApply
  /\ checker = Waiting
  /\ overlap = FALSE

-----------------------------------------------------------------------------
(* The checker goroutine.                                                  *)

\* The next instance of the info that was captured, or the end of the round.
Advance(ck) ==
  LET rest == ck.todo \ {ck.inst} IN
  IF rest = {} THEN Waiting
  ELSE [Waiting EXCEPT !.pc = "probe", !.gen = ck.gen, !.todo = rest]

\* Mutant: the checker goes on with the info of the first configuration.
StartRoundStale ==
  /\ checker.pc = "wait"
  /\ infoCur # None
  /\ checker' = [checker EXCEPT !.pc = "probe", !.gen = 1,
                   !.todo = {i \in Instances : info[1][i] # "absent"}]
  /\ overlap' = (overlap \/ apply.pc # "idle")
  /\ UNCHANGED <<up, hcVars, lbVars, cfgVars>>

\* runAllHealthChecks captures the registered info (none: an empty round). The
\* first round starts with the goroutine, the others with the ticker.
StartRound ==
  /\ checker.pc = "wait"
  /\ infoCur # None
  /\ checker' = [checker EXCEPT !.pc = "probe", !.gen = infoCur,
                   !.todo = {i \in Instances : info[infoCur][i] # "absent"}]
  /\ overlap' = (overlap \/ apply.pc # "idle")
  /\ UNCHANGED <<up, hcVars, lbVars, cfgVars>>

\* The HTTP GET; the configuration lists the instances in any order.
Probe(i) ==
  /\ checker.pc = "probe"
  /\ i \in checker.todo
  /\ checker' = [checker EXCEPT !.pc = "update", !.inst = i, !.ok = up[i]]
  /\ UNCHANGED <<up, hcVars, lbVars, cfgVars, overlap>>

\* Mutant: a recovery does not call the hook.
UpdateStatusQuietly ==
  /\ checker.pc = "update"
  /\ info' = [info EXCEPT ![checker.gen][checker.inst] = Yes(checker.ok)]
  /\ checker' = IF checker.ok THEN Advance(checker) ELSE [checker EXCEPT !.pc = "notify"]
  /\ UNCHANGED <<up, infoCur, lbVars, cfgVars, overlap>>

\* Mutant: only a recovery calls the hook.
UpdateStatusOnRecovery ==
  /\ checker.pc = "update"
  /\ info' = [info EXCEPT ![checker.gen][checker.inst] = Yes(checker.ok)]
  /\ checker' = IF checker.ok THEN [checker EXCEPT !.pc = "notify"] ELSE Advance(checker)
  /\ UNCHANGED <<up, infoCur, lbVars, cfgVars, overlap>>

\* updateServiceStatus writes the captured info, which may not be registered any
\* more, and returns early, without the hook, when nothing changed.
UpdateStatus ==
  LET g == checker.gen
      i == checker.inst
      unchanged == info[g][i] = Yes(checker.ok)
  IN
  /\ checker.pc = "update"
  /\ info' = [info EXCEPT ![g][i] = Yes(checker.ok)]
  /\ checker' = IF unchanged THEN Advance(checker) ELSE [checker EXCEPT !.pc = "notify"]
  /\ UNCHANGED <<up, infoCur, lbVars, cfgVars, overlap>>

\* Mutant: a service without balancer is not noticed.
LoadBalancerUnchecked ==
  /\ checker.pc = "notify"
  /\ checker' = [checker EXCEPT !.pc = "set", !.lb = lbCur]
  /\ UNCHANGED <<up, hcVars, lbVars, cfgVars, overlap>>

\* The hook, UpdateInstanceAlive: load the balancer of the service ...
LoadBalancer ==
  /\ checker.pc = "notify"
  /\ checker' = IF lbCur = None THEN Advance(checker)
                ELSE [checker EXCEPT !.pc = "set", !.lb = lbCur]
  /\ UNCHANGED <<up, hcVars, lbVars, cfgVars, overlap>>

\* ... and set the flag if that balancer has the instance.
SetInstanceAlive ==
  LET b == checker.lb
      i == checker.inst
  IN
  /\ checker.pc = "set"
  /\ alive' = [alive EXCEPT ![b][i] = IF @ = "absent" THEN @ ELSE Yes(checker.ok)]
  /\ checker' = Advance(checker)
  /\ UNCHANGED <<up, hcVars, lbCur, cfgVars, overlap>>

\* Start returns when it sees stopChan closed, between two rounds.
StopChecker ==
  /\ checker.pc = "wait"
  /\ checker' = [checker EXCEPT !.pc = "exit"]
  /\ UNCHANGED <<up, hcVars, lbVars, cfgVars, overlap>>

-----------------------------------------------------------------------------
(* applyConfigLocked, the part of it that concerns this service.           *)

InRound  == checker.pc \notin {"wait", "exit"}
Overlaps == overlap' = (overlap \/ InRound)

\* RegisterService copies the status of the info it is about to replace.
BeginApply(c) ==
  /\ apply.pc = "idle"
  /\ gen < MaxApplies
  /\ c # {}
  /\ gen' = gen + 1
  /\ apply' = [pc |-> "store", target |-> c,
               copy |-> Registered(c, IF infoCur = None THEN Absent ELSE info[infoCur])]
  /\ overlap' = InRound
  /\ UNCHANGED <<up, config, hcVars, lbVars, checker>>

StoreInfo ==
  /\ apply.pc = "store"
  /\ info' = [info EXCEPT ![gen] = apply.copy]
  /\ infoCur' = gen
  /\ apply' = [apply EXCEPT !.pc = "replace"]
  /\ Overlaps
  /\ UNCHANGED <<up, config, gen, lbVars, checker>>

ReplaceServiceInstances ==
  /\ apply.pc = "replace"
  /\ alive' = [alive EXCEPT ![gen] = AllAlive(apply.target)]
  /\ lbCur' = gen
  /\ apply' = [apply EXCEPT !.pc = "commit"]
  /\ Overlaps
  /\ UNCHANGED <<up, config, gen, hcVars, checker>>

\* A service of the old configuration that the new one lacks is removed from the
\* checker, then from the factory.
BeginRemove ==
  /\ apply.pc = "idle"
  /\ gen < MaxApplies
  /\ config # {}
  /\ gen' = gen + 1
  /\ infoCur' = None
  /\ apply' = [pc |-> "removeLB", target |-> {}, copy |-> Absent]
  /\ overlap' = InRound
  /\ UNCHANGED <<up, config, info, lbVars, checker>>

\* Mutant: the balancer of a removed service stays.
RemoveBalancerNot ==
  /\ apply.pc = "removeLB"
  /\ apply' = [apply EXCEPT !.pc = "commit"]
  /\ Overlaps
  /\ UNCHANGED <<up, config, gen, hcVars, lbVars, checker>>

RemoveBalancer ==
  /\ apply.pc = "removeLB"
  /\ lbCur' = None
  /\ apply' = [apply EXCEPT !.pc = "commit"]
  /\ Overlaps
  /\ UNCHANGED <<up, config, gen, hcVars, alive, checker>>

\* The services are synchronised before the auth plugin is built; when that
\* fails (a validate_url that does not parse) the apply returns its error and
\* g.config stays what it was. Otherwise the new configuration is installed.
FinishApply ==
  /\ apply.pc = "commit"
  /\ config' \in {config, apply.target}
  /\ apply' = NoApply
  /\ Overlaps
  /\ UNCHANGED <<up, gen, hcVars, lbVars, checker>>

-----------------------------------------------------------------------------
(* Everybody else.                                                         *)

\* A request that still holds the old configuration, or the auth plugin, asks
\* for the balancer of a service that has none.
GetOrCreateLoadBalancer ==
  /\ lbCur = None
  /\ lbCur' = 0
  /\ UNCHANGED <<up, hcVars, alive, cfgVars, checker, overlap>>

InstanceChange(i) ==
  /\ up' = [up EXCEPT ![i] = ~@]
  /\ UNCHANGED <<hcVars, lbVars, cfgVars, checker, overlap>>

CheckerNext ==
  \/ StartRound
  \/ \E i \in Instances : Probe(i)
  \/ UpdateStatus
  \/ LoadBalancer
  \/ SetInstanceAlive

ApplyNext ==
  \/ \E c \in SUBSET Instances : BeginApply(c)
  \/ StoreInfo
  \/ ReplaceServiceInstances
  \/ BeginRemove
  \/ RemoveBalancer
  \/ FinishApply

Next ==
  \/ CheckerNext
  \/ StopChecker
  \/ ApplyNext
  \/ GetOrCreateLoadBalancer
  \/ \E i \in Instances : InstanceChange(i)

Spec == Init /\ [][Next]_vars

\* The ticker keeps firing, every probe ends (the client has a timeout), and an
\* apply that began runs to its end. Applies and outages are not forced.
Fairness ==
  /\ WF_vars(CheckerNext)
  /\ WF_vars(StoreInfo \/ ReplaceServiceInstances \/ RemoveBalancer \/ FinishApply)

LiveSpec == Spec /\ Fairness

-----------------------------------------------------------------------------
(* Properties.                                                             *)

\* What IsInstanceHealthy answers, and whether the balancer offers the instance.
IsInstanceHealthy(i) == infoCur # None /\ info[infoCur][i] = "yes"
InRotation(i)        == lbCur # None /\ alive[lbCur][i] = "yes"
Configured(i)        == infoCur # None /\ info[infoCur][i] # "absent"

\* Between two applies the checker and the factory hold objects of the same
\* apply, or the checker knows nothing and the factory offers nothing - although
\* they are replaced one after the other and balancers appear on demand.
CheckerAndBalancerAgree ==
  apply.pc = "idle" =>
    /\ infoCur # None => lbCur = infoCur
    /\ infoCur = None => \A i \in Instances : ~InRotation(i)

\* The hook is about to be called, or is running, for this instance.
HookPending(i) == checker.pc \in {"notify", "set"} /\ checker.inst = i

\* As long as the latest apply ran between two rounds, an instance is out of
\* rotation only if the checker knows it to be unhealthy: Alive never lags
\* behind Status in the direction that would withhold traffic.
OutOfRotationIsUnhealthy ==
  apply.pc = "idle" /\ ~overlap =>
    \A i \in Instances :
      Configured(i) /\ ~InRotation(i) /\ ~HookPending(i) => ~IsInstanceHealthy(i)

\* The checker keeps running and the instance stays configured.
Watched(i) == checker.pc # "exit" /\ Configured(i)

\* What the checker reports converges to the truth, also across applies that
\* overlap its rounds: whatever a stale info swallowed is probed again.
StatusConverges ==
  \A i \in Instances :
    /\ <>[](Watched(i) /\ up[i]) => <>[]IsInstanceHealthy(i)
    /\ <>[](Watched(i) /\ ~up[i]) => <>[]~IsInstanceHealthy(i)

\* "In the health checker I made a callback that promptly updates the Alive
\* field of the balancer's instances" (proxy.go, getHealthyInstance): an
\* instance that recovered for good comes back into rotation. It need not: a
\* failed probe of the info that an apply has just replaced takes the instance
\* out of the new balancer while the new info still says healthy, so its
\* recovery is no change and the hook is never called again.
RecoveredReturns ==
  \A i \in Instances : <>[](Watched(i) /\ up[i]) => <>[]InRotation(i)

\* What remains of it: it comes back if the latest apply fell between two rounds.
SettledReturns ==
  \A i \in Instances : <>[](Watched(i) /\ up[i] /\ ~overlap) => <>[]InRotation(i)

\* The other direction: an instance that fails for good leaves rotation, provided
\* that the checker has seen it healthy since the latest apply. Without that it
\* stays: every balancer starts with all instances alive, whatever the checker
\* knows, and a probe that finds an unhealthy instance unhealthy is no change.
FailedLeaves ==
  \A i \in Instances, g \in 1 .. MaxApplies :
    /\ <>(gen = g /\ apply.pc = "idle" /\ IsInstanceHealthy(i))
    /\ <>[](Watched(i) /\ ~up[i] /\ ~overlap /\ gen = g)
    => <>[]~InRotation(i)
=============================================================================
