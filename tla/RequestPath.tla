---------------------------- MODULE RequestPath -----------------------------
(***************************************************************************)
(* A request on its way through the gateway while the admin API replaces   *)
(* the configuration: router, traffic rules, plugin chain, choice of the   *)
(* upstream, recorded result, metrics; and the goroutines that persist     *)
(* monitoring records, of which each configuration starts its own.         *)
(*                                                                         *)
(* Configurations are numbered in the order they took their first effect.  *)
(* A request that holds a plugin, a breaker or a snapshot is said to have  *)
(* met the generation which that was built from. applyConfigLocked holds   *)
(* Gateway.mu for all of its steps, which only other changes wait for;     *)
(* requests and monitors run between any two of them.                      *)
(***************************************************************************)
EXTENDS AdminConfig, Metrics

CONSTANTS
  Services,      \* names of services
  Rules,         \* names of rate limit rules
  ChainNames,    \* names that plugin chains may have, of plugins or not
  Paths,         \* paths of requests
  Scenarios      \* bounds: a boot configuration, the edits and the requests, each
                 \*   made at most once, and how many seconds and records

PluginNames == {"auth", "apikey", "rbac", "ratelimit", "circuitbreaker"}
AuthService == "auth-service"

\* Plugin names are in lower case.
ASSUME NamesAssumption ==
  /\ AuthService \in Services /\ None \notin Services /\ PluginNames \subseteq ChainNames
  /\ \A p \in PluginNames : Lower(p) = p

\* Configurations and edits are made of these names; what is unset is "".
KnownRule(rule) == DOMAIN rule = {"name", "type", "capacity", "rate"} /\ rule.name \in Rules \cup {""}
KnownSpec(spec) == spec.name \in ChainNames /\ (spec.name = "ratelimit" => spec.rule \in Rules)
KnownRoute(route) ==
  /\ IsList(route.prefix) /\ IsList(route.plugins)
  /\ \A i \in DOMAIN route.plugins : KnownSpec(route.plugins[i])
  /\ \A s \in DOMAIN route.weights : route.weights[s] \in Int
  /\ route # None
KnownConfig(cfg) ==
  /\ DOMAIN cfg = {"services", "routes", "rules", "validate", "monitor", "token"}
  /\ DOMAIN cfg.services \subseteq Services
  /\ \A s \in DOMAIN cfg.services : cfg.services[s].name \in Services \cup {""}
  /\ IsList(cfg.routes) /\ \A i \in DOMAIN cfg.routes : KnownRoute(cfg.routes[i])
  /\ IsList(cfg.rules) /\ \A i \in DOMAIN cfg.rules : KnownRule(cfg.rules[i])
KnownEdit(edit) ==
  \/ edit.op \in {"delete rule", "delete route", "delete service"}
  \/ edit.op = "upsert rule" /\ KnownRule(edit.rule)
  \/ edit.op = "upsert route" /\ KnownRoute(edit.route)
  \/ edit.op = "upsert service" /\ edit.service.name \in Services \cup {""}
  \/ edit.op = "apply" /\ KnownConfig(edit.config)

ASSUME ScenarioAssumption ==
  \A s \in Scenarios : /\ DOMAIN s = {"boot", "edits", "requests", "seconds", "records"}
                       /\ Acceptable(s.boot) /\ s.boot.validate /\ KnownConfig(s.boot)
                       /\ {r.path : r \in s.requests} \subseteq Paths
                       /\ \A edit \in s.edits : KnownEdit(edit)

VARIABLES
  generations,     \* [config, edit] of each change so far
  applying,        \* the next step of applyConfigLocked, "idle" if nobody holds the lock
  plugins,         \* plugin table: the generation of each plugin
  breaker,         \* Gateway.circuitBreakerSvc
  proxyBreaker,    \* Proxy.circuitSvc
  serving,         \* the snapshot requests read
  balancer,        \* LoadBalancerFactory: per service absent, empty or filled
  monitorCancel,   \* the monitor that monitorCancel stops, 0 if it is nil
  monitorPath,
  monitors,        \* per generation: its monitor goroutine
  records,         \* monitoring records written
  handler,         \* the goroutine of a request
  left             \* what is left of the scenario

configVars  == <<generations, applying, plugins, breaker, proxyBreaker, serving, balancer>>
monitorVars == <<monitorCancel, monitorPath, monitors, records>>
vars == <<configVars, monitorVars, metricsVars, handler, left>>

Newest     == Len(generations)
Config(g)  == generations[g].config
NoEdit     == [op |-> "boot"]
NoMonitor  == [pc |-> "off", stop |-> FALSE, counted |-> 0, circuits |-> 0]
NewMonitor == [NoMonitor EXCEPT !.pc = "count"]
NoHandler  == [pc |-> "idle", req |-> None, gen |-> 0, route |-> 0, service |-> None, role |-> None,
               chain |-> <<>>, passed |-> {}, met |-> {}, status |-> 0]

\* monitor-history.jsonl is the default.
PathOf(cfg) == IF cfg.monitor.path = "" THEN "default" ELSE cfg.monitor.path

TypeOK ==
  /\ applying \in PluginNames \cup {"idle", "breaker", "proxy", "snapshot", "monitor"}
  /\ plugins \in [PluginNames -> 1 .. Newest]
  /\ {breaker, proxyBreaker, serving} \subseteq 1 .. Newest
  /\ balancer \in [Services -> {"absent", "empty", "filled"}]
  /\ monitorCancel \in 0 .. Newest
  /\ monitorPath \in {""} \cup {PathOf(Config(g)) : g \in 1 .. Newest}
  /\ monitors \in [1 .. Newest -> [pc : {"off", "count", "circuits", "append", "wait", "ended"},
                                   stop : BOOLEAN, counted : 0 .. Newest, circuits : 0 .. Newest]]
  /\ records \subseteq [by : 1 .. Newest, counted : 1 .. Newest, circuits : 1 .. Newest]
  /\ handler.pc \in {"idle", "health", "chain", "forwarded", "missing", "done"}
  /\ handler.gen \in 0 .. Newest /\ handler.met \subseteq 1 .. Newest
  /\ handler.passed \subseteq PluginNames
  /\ MetricsTypeOK

Init ==
  /\ left \in Scenarios
  /\ LET cfg == left.boot IN
       /\ generations = <<[config |-> cfg, edit |-> NoEdit]>>
       /\ balancer = [s \in Services |-> IF s \in ServiceNames(cfg) THEN "filled" ELSE "absent"]
       /\ monitors = <<IF cfg.monitor.enabled THEN NewMonitor ELSE NoMonitor>>
       /\ monitorCancel = IF cfg.monitor.enabled THEN 1 ELSE 0
       /\ monitorPath = IF cfg.monitor.enabled THEN PathOf(cfg) ELSE ""
  /\ applying = "idle"
  /\ plugins = [p \in PluginNames |-> 1]
  /\ breaker = 1 /\ proxyBreaker = 1 /\ serving = 1
  /\ records = {}
  /\ handler = NoHandler
  /\ MetricsInit

Spend(what)      == left[what] > 0 /\ left' = [left EXCEPT ![what] = @ - 1]
SpendOne(what, x) == x \in left[what] /\ left' = [left EXCEPT ![what] = @ \ {x}]

-----------------------------------------------------------------------------
(* The admin API and applyConfigLocked                                     *)

\* Mutant: requests are given the configuration before its plugins are there.
StepsSnapshotFirst == <<"snapshot", "auth", "apikey", "rbac", "ratelimit", "circuitbreaker",
                        "breaker", "proxy", "monitor">>

\* What follows the synchronisation of the services, in this order.
Steps == <<"auth", "apikey", "rbac", "ratelimit", "circuitbreaker",
           "breaker", "proxy", "snapshot", "monitor">>

StepAfter(step) ==
  LET i == CHOOSE j \in DOMAIN Steps : Steps[j] = step
  IN IF i = Len(Steps) THEN "idle" ELSE Steps[i + 1]

\* syncServicesLocked: what is defined is registered under its name, and what no
\* longer is defined is removed by its key, in this order.
Synced(old, new) ==
  [s \in Services |->
     IF s \in DOMAIN old.services \ DOMAIN new.services THEN "absent"
     ELSE IF s \in ServiceNames(new) THEN "filled" ELSE balancer[s]]

Accepted(edit) ==
  LET new == Mutated(Config(serving), edit)
  IN AuthorizeAdmin(Config(serving), edit.token) /\ new # None /\ Acceptable(new)

\* An edit is clone, change, validate, build the limiters, synchronise the services.
\* One that is not accepted changes nothing.
Edit(edit) ==
  LET new == Mutated(Config(serving), edit)
  IN /\ applying = "idle" /\ SpendOne("edits", edit)
     /\ Accepted(edit)
     /\ generations' = Append(generations, [config |-> new, edit |-> edit])
     /\ balancer' = Synced(Config(serving), new)
     /\ monitors' = Append(monitors, NoMonitor)
     /\ applying' = Head(Steps)
     /\ UNCHANGED <<plugins, breaker, proxyBreaker, serving, monitorCancel, monitorPath, records,
                    metricsVars, handler>>

\* A validate_url that does not parse ends the change here; its services stay.
RefuseAuthPlugin ==
  /\ applying = "auth" /\ ~Config(Newest).validate
  /\ applying' = "idle"
  /\ UNCHANGED <<generations, plugins, breaker, proxyBreaker, serving, balancer,
                 monitorVars, metricsVars, handler, left>>

RegisterPlugin ==
  /\ applying \in PluginNames
  /\ applying = "auth" => Config(Newest).validate
  /\ plugins' = [plugins EXCEPT ![applying] = Newest]
  /\ applying' = StepAfter(applying)
  /\ UNCHANGED <<generations, breaker, proxyBreaker, serving, balancer,
                 monitorVars, metricsVars, handler, left>>

SetBreaker ==
  /\ applying = "breaker"
  /\ breaker' = Newest
  /\ applying' = StepAfter(applying)
  /\ UNCHANGED <<generations, plugins, proxyBreaker, serving, balancer,
                 monitorVars, metricsVars, handler, left>>

UpdateCircuitBreakerService ==
  /\ applying = "proxy"
  /\ proxyBreaker' = Newest
  /\ applying' = StepAfter(applying)
  /\ UNCHANGED <<generations, plugins, breaker, serving, balancer,
                 monitorVars, metricsVars, handler, left>>

StoreSnapshot ==
  /\ applying = "snapshot"
  /\ serving' = Newest
  /\ applying' = StepAfter(applying)
  /\ UNCHANGED <<generations, plugins, breaker, proxyBreaker, balancer,
                 monitorVars, metricsVars, handler, left>>

\* Mutant: the monitor of the configuration before is left running.
CancelledNone(m) == m

\* Mutant: the goroutine is gone at once, wherever it was.
CancelledAtOnce(m) == IF monitorCancel = 0 THEN m ELSE [m EXCEPT ![monitorCancel].pc = "cancelled"]

\* The monitors once monitorCancel has been called.
Cancelled(m) == IF monitorCancel = 0 THEN m ELSE [m EXCEPT ![monitorCancel].stop = TRUE]

ConfigureMonitor ==
  LET cfg == Config(Newest)
  IN /\ applying = "monitor"
     /\ monitors' = [Cancelled(monitors) EXCEPT
                       ![Newest] = IF cfg.monitor.enabled THEN NewMonitor ELSE NoMonitor]
     /\ monitorCancel' = IF cfg.monitor.enabled THEN Newest ELSE 0
     /\ monitorPath' = IF cfg.monitor.enabled THEN PathOf(cfg) ELSE ""
     /\ applying' = StepAfter(applying)
     /\ UNCHANGED <<generations, plugins, breaker, proxyBreaker, serving, balancer, records,
                    metricsVars, handler, left>>

-----------------------------------------------------------------------------
(* monitor_persistence.go                                                  *)

Move(g, monitor) ==
  /\ monitors' = [monitors EXCEPT ![g] = monitor]
  /\ UNCHANGED <<configVars, monitorCancel, monitorPath, metricsVars, handler>>

\* The breaker service is read twice, without the lock.
CountOpenTransitions(g) ==
  /\ monitors[g].pc = "count"
  /\ Move(g, [monitors[g] EXCEPT !.pc = "circuits", !.counted = breaker])
  /\ UNCHANGED <<records, left>>
ReadCircuits(g) ==
  /\ monitors[g].pc = "circuits"
  /\ Move(g, [monitors[g] EXCEPT !.pc = "append", !.circuits = breaker])
  /\ UNCHANGED <<records, left>>
AppendRecord(g) ==
  /\ monitors[g].pc = "append" /\ Spend("records")
  /\ records' = records \cup {[by |-> g, counted |-> monitors[g].counted,
                               circuits |-> monitors[g].circuits]}
  /\ Move(g, [NoMonitor EXCEPT !.pc = "wait", !.stop = monitors[g].stop])

\* When the ticker has fired and the context is cancelled, select takes either.
Tick(g) ==
  /\ monitors[g].pc = "wait"
  /\ Move(g, [monitors[g] EXCEPT !.pc = "count"])
  /\ UNCHANGED <<records, left>>
EndMonitor(g) ==
  /\ monitors[g].pc = "wait" /\ monitors[g].stop
  /\ Move(g, [monitors[g] EXCEPT !.pc = "ended"])
  /\ UNCHANGED <<records, left>>

-----------------------------------------------------------------------------
(* Gateway.ServeHTTP up to the plugin chain: all on one snapshot           *)

Handle(h) == handler' = h /\ UNCHANGED <<configVars, monitorVars, metricsVars, left>>

Arrival(r) == [NoHandler EXCEPT !.req = r, !.role = r.role, !.gen = serving, !.met = {serving}]

Arrive(h) ==
  /\ handler.pc = "idle" /\ SpendOne("requests", h.req)
  /\ handler' = h
  /\ UNCHANGED <<configVars, monitorVars, metricsVars>>

\* No route has the path, or the one that has it does not allow the method.
ArriveUnrouted(r) ==
  LET routes == Config(serving).routes
  IN /\ FindRoute(routes, r.path, r.method) = 0
     /\ Arrive([Arrival(r) EXCEPT
          !.pc = "done",
          !.status = IF FindRouteByPathOnly(routes, r.path) = 0 THEN 404 ELSE 405])

\* With the choice of the service the request is on its way into the chain. A panic
\* leaves the status unwritten, which the metrics take for 200.
ArriveRouted(r) ==
  LET cfg      == Config(serving)
      i        == FindRoute(cfg.routes, r.path, r.method)
      target   == SelectTargetService(DOMAIN cfg.services, cfg.routes[i], r)
      Routed(h) == [h EXCEPT !.route = i]
  IN /\ i # 0
     /\ \/ /\ cfg.routes[i].service = AllServices
           /\ Arrive(Routed([Arrival(r) EXCEPT !.pc = "health"]))
        \/ /\ cfg.routes[i].service # AllServices /\ target \notin DOMAIN cfg.services
           /\ Arrive(Routed([Arrival(r) EXCEPT
                !.pc = "done", !.status = IF target = Panic THEN 200 ELSE 500]))
        \/ /\ cfg.routes[i].service # AllServices /\ target \in DOMAIN cfg.services
           /\ Arrive(Routed([Arrival(r) EXCEPT
                !.pc = "chain", !.service = target, !.chain = PluginChain(cfg.routes[i])]))

\* The health endpoint takes a snapshot of its own, which may lack the route.
HealthCheck ==
  /\ handler.pc = "health"
  /\ Handle([handler EXCEPT
       !.pc = "done", !.met = @ \cup {serving},
       !.status = IF FindRouteByPathOnly(Config(serving).routes, handler.req.path) = 0
                  THEN 404 ELSE 200])

-----------------------------------------------------------------------------
(* ExecuteChain: each plugin is looked up when its turn comes              *)

Turn(name) == handler.pc = "chain" /\ handler.chain # <<>> /\ Head(handler.chain).name = name
TheSpec    == Head(handler.chain)

Meets(g, h)      == [h EXCEPT !.met = @ \cup {g}]
Passes(g, h)     == Handle(Meets(g, [h EXCEPT !.chain = Tail(@), !.passed = @ \cup {TheSpec.name}]))
Stops(g, status) == Handle(Meets(g, [handler EXCEPT !.pc = "done", !.status = status]))

PluginNotFound ==
  /\ handler.pc = "chain" /\ handler.chain # <<>> /\ TheSpec.name \notin PluginNames
  /\ Stops(handler.gen, 500)

\* Without an identifier the request passes unlimited.
Identified(strategy, r) == strategy = "ip" => r.ip # None

RateLimit ==
  LET g        == plugins["ratelimit"]
      strategy == Lower(TheSpec.strategy)
  IN /\ Turn("ratelimit")
     /\ \/ strategy \notin {"ip", "path", "global"} /\ Stops(g, 500)
        \/ /\ strategy \in {"ip", "path", "global"} /\ ~Identified(strategy, handler.req)
           /\ Passes(g, handler)
        \/ /\ strategy \in {"ip", "path", "global"} /\ Identified(strategy, handler.req)
           /\ \/ /\ TheSpec.rule \notin RuleNames(Config(g))
                 /\ Handle(Meets(g, [handler EXCEPT !.pc = "missing", !.status = 500]))
              \/ TheSpec.rule \in RuleNames(Config(g)) /\ Passes(g, handler)
              \/ /\ TheSpec.rule \in RuleNames(Config(g)) /\ Limited(Config(g), TheSpec.rule)
                 /\ Stops(g, 429)

CircuitBreakerCheck ==
  /\ Turn("circuitbreaker")
  /\ \/ Passes(plugins["circuitbreaker"], handler)
     \/ Stops(plugins["circuitbreaker"], 503)

ApiKey ==
  LET g == plugins["apikey"]
  IN /\ Turn("apikey")
     /\ \/ TheSpec.keys = {} /\ Stops(g, 500)
        \/ TheSpec.keys # {} /\ handler.req.apikey \notin TheSpec.keys /\ Stops(g, 401)
        \/ handler.req.apikey \in TheSpec.keys /\ Passes(g, handler)

\* The role is the one the client sent or, after the auth plugin, the one it found.
Rbac ==
  LET g       == plugins["rbac"]
      allowed == {Lower(role) : role \in TheSpec.roles}
  IN /\ Turn("rbac")
     /\ \/ allowed = {} /\ Stops(g, 500)
        \/ allowed # {} /\ Lower(handler.role) \notin allowed /\ Stops(g, 403)
        \/ Lower(handler.role) \in allowed /\ Passes(g, handler)

\* GetOrCreateLoadBalancer, for whatever service a request of old asks for.
Created(service) == [balancer EXCEPT ![service] = IF @ = "absent" THEN "empty" ELSE @]

\* What the request asks for is not there: neither then nor again by itself.
Lacks(g, service, status) ==
  /\ balancer[service] # "filled"
  /\ balancer' = Created(service)
  /\ handler' = Meets(g, [handler EXCEPT !.pc = "missing", !.status = status])
  /\ UNCHANGED <<generations, applying, plugins, breaker, proxyBreaker, serving,
                 monitorVars, metricsVars, left>>

\* The service that validates tokens may be missing, fail, refuse or accept.
Auth ==
  LET g == plugins["auth"]
  IN /\ Turn("auth")
     /\ \/ handler.req.token = None /\ Stops(g, 401)
        \/ handler.req.token # None /\ Lacks(g, AuthService, 502)
        \/ /\ handler.req.token # None /\ balancer[AuthService] = "filled"
           /\ \/ \E status \in {401, 502} : Stops(g, status)
              \/ \E role \in {handler.role, handler.req.token} : Passes(g, [handler EXCEPT !.role = role])

-----------------------------------------------------------------------------
(* Proxy.ServeHTTP, with the result for whichever breaker is current then  *)

ServiceName == Config(handler.gen).services[handler.service].name

\* Without an instance the request counts as a failure.
Unavailable ==
  /\ handler.pc = "chain" /\ handler.chain = <<>>
  /\ \/ Lacks(proxyBreaker, ServiceName, 502)
     \/ balancer[ServiceName] = "filled" /\ Stops(proxyBreaker, 502)

Forward ==
  /\ handler.pc = "chain" /\ handler.chain = <<>>
  /\ balancer[ServiceName] = "filled"
  /\ Handle([handler EXCEPT !.pc = "forwarded"])

RecordResult ==
  /\ handler.pc = "forwarded"
  /\ \E status \in {200, 404, 502} : Stops(proxyBreaker, status)

\* Transcoding cannot be set up, the body does not convert, or copying the answer is
\* aborted: nothing is recorded.
Abandon ==
  /\ handler.pc = "forwarded"
  /\ \E status \in {200, 400, 500} : Stops(handler.gen, status)

\* The deferred observation.
Finish ==
  /\ handler.pc \in {"done", "missing"}
  /\ \E latency \in Latencies : Observe(handler.status, latency)
  /\ handler' = NoHandler
  /\ UNCHANGED <<configVars, monitorVars, left>>

Second == Spend("seconds") /\ TickSecond /\ UNCHANGED <<configVars, monitorVars, handler>>

-----------------------------------------------------------------------------
Next ==
  \/ \E edit \in left.edits : Edit(edit)
  \/ RefuseAuthPlugin \/ RegisterPlugin \/ SetBreaker
  \/ UpdateCircuitBreakerService \/ StoreSnapshot \/ ConfigureMonitor
  \/ \E g \in 1 .. Newest :
       CountOpenTransitions(g) \/ ReadCircuits(g) \/ AppendRecord(g) \/ Tick(g) \/ EndMonitor(g)
  \/ \E r \in left.requests : ArriveUnrouted(r) \/ ArriveRouted(r)
  \/ HealthCheck
  \/ PluginNotFound \/ RateLimit \/ CircuitBreakerCheck \/ ApiKey \/ Rbac \/ Auth
  \/ Unavailable \/ Forward \/ RecordResult \/ Abandon \/ Finish
  \/ Second

Spec == Init /\ [][Next]_vars

-----------------------------------------------------------------------------
(* The contract                                                            *)

Phase == CASE handler.pc = "idle"                -> "none"
           [] handler.pc \in {"health", "chain"} -> "checking"
           [] handler.pc = "forwarded"           -> "forwarded"
           [] handler.pc = "missing"             -> "failed"
           [] handler.pc = "done"                -> "answered"

\* What the route of the request demands, whatever the chain is made of.
Route       == Config(handler.gen).routes[handler.route]
Specs       == {Route.plugins[i] : i \in DOMAIN Route.plugins}
Demanded    == {spec.name : spec \in Specs} \cup (IF Route.requiresAuth THEN {"auth"} ELSE {})
RulesNeeded == {spec.rule : spec \in {s \in Specs : s.name = "ratelimit"}}
ServicesNeeded == {ServiceName} \cup (IF "auth" \in Demanded THEN {AuthService} ELSE {})

Offered ==
  [g \in 1 .. Newest |-> [rules |-> RuleNames(Config(g)), services |-> ServiceNames(Config(g))]]

Asked ==
  [phase    |-> Phase,
   gen      |-> handler.gen,
   owed     |-> IF handler.service = None THEN {} ELSE Demanded \ handler.passed,
   rules    |-> IF handler.service = None THEN {} ELSE RulesNeeded,
   services |-> IF handler.service = None THEN {} ELSE ServicesNeeded,
   met      |-> handler.met]

Contract == INSTANCE RequestContract WITH
  Plugins <- ChainNames, offers <- Offered, changing <- applying # "idle", request <- Asked

\* Whatever the order in which a change and a request take their steps, the request
\* is treated as RequestContract promises.
KeepsContract == Contract!Spec

-----------------------------------------------------------------------------
\* Between two changes there is exactly one monitor that will go on, or none, as the
\* running configuration says, and the history that the admin API shows is read
\* from the file it writes to. What a monitor records comes from breakers at least
\* as new as itself.
MonitorFollowsConfig ==
  /\ applying = "idle" =>
       LET cfg == Config(serving)
           on  == {g \in 1 .. Newest : monitors[g].pc \notin {"off", "ended"} /\ ~monitors[g].stop}
       IN /\ on = IF cfg.monitor.enabled THEN {serving} ELSE {}
          /\ monitorPath = IF cfg.monitor.enabled THEN PathOf(cfg) ELSE ""
  /\ \A r \in records : r.by <= r.counted /\ r.counted <= r.circuits

RouteFor(g, path) ==
  LET i == FindRouteByPathOnly(Config(g).routes, path)
  IN IF i = 0 THEN None ELSE Config(g).routes[i]

\* An edit of one route leaves every path alone that is neither that route's nor the
\* new one's; requests for the path of an upserted route go to it; and those of a
\* deleted route no longer do.
RouteEditsAreLocal ==
  [][serving' # serving =>
       LET edit == generations[serving'].edit
       IN \A path \in Paths :
            LET old == RouteFor(serving, path)
                new == RouteFor(serving, path)'
            IN /\ edit.op = "upsert route" =>
                    /\ path = edit.route.path /\ path # <<>> => new = edit.route
                    /\ \/ old = new \/ new = edit.route
                       \/ old # None /\ Concerns(edit, old)
               /\ edit.op = "delete route" =>
                    /\ new # None => ~Concerns(edit, new)
                    /\ old = new \/ (old # None /\ Concerns(edit, old))
      ]_vars

\* The traffic rules in force split the hash values as their weights say, and a total
\* that no longer fits 32 bits takes from a service but leaves no request without one,
\* unless nothing of the total is left.
TrafficFollowsWeights ==
  \A i \in DOMAIN Config(serving).routes : SharesFollowWeights(Config(serving).routes[i].weights)
=============================================================================
