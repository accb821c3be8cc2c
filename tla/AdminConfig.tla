---------------------------- MODULE AdminConfig -----------------------------
(***************************************************************************)
(* What a configuration is to the request path, which configurations are   *)
(* accepted, and how the editing operations of the admin API change one.   *)
(* Each of them clones the running configuration, edits the clone and has  *)
(* it applied, all under Gateway.mu.                                       *)
(*                                                                         *)
(*   services  key -> [name, instances, path]                              *)
(*   routes    sequence of routes, see Routing                             *)
(*   rules     sequence of [name, type, capacity, rate]                    *)
(*   validate  whether the auth service's validate_url parses              *)
(*   monitor   [enabled, path] of the persisted monitoring records         *)
(*   token     what the admin API asks for, None for nothing               *)
(*                                                                         *)
(* Parts that are the same in every configuration, such as the port, and   *)
(* the syntax of URLs are left out. An unset string is "".                 *)
(***************************************************************************)
EXTENDS Routing

AllServices == "all-services"

-----------------------------------------------------------------------------
(* validateGatewayConfig                                                   *)

HasName(def)       == def.name # ""
HasIdentity(route) == route.path # <<>> \/ route.prefix # <<>>

ValidService(def) == HasName(def) /\ def.instances > 0 /\ def.path # <<>>

\* Plugins other than these are not looked at; whether the rule of a ratelimit
\* and the service of a circuitbreaker exist is not asked.
ValidPluginSpec(spec) ==
  /\ spec.name # ""
  /\ spec.name = "ratelimit"      => spec.rule # "" /\ spec.strategy # ""
  /\ spec.name = "circuitbreaker" => spec.service # ""
  /\ spec.name = "apikey"         => "keys" \in DOMAIN spec
  /\ spec.name = "rbac"           => "roles" \in DOMAIN spec

ValidRoute(route, services) ==
  /\ HasIdentity(route)
  /\ route.service \in services \cup {AllServices}
  /\ \A s \in DOMAIN route.weights : s \in services /\ route.weights[s] > 0
  /\ \A v \in DOMAIN route.variants : route.variants[v] \in services
  /\ \A i \in DOMAIN route.plugins : ValidPluginSpec(route.plugins[i])

ValidRule(rule) ==
  /\ HasName(rule)
  /\ rule.type = "memory_token_bucket" => rule.capacity > 0 /\ rule.rate >= 0

ValidateGatewayConfig(cfg) ==
  /\ DOMAIN cfg.services # {}
  /\ \A s \in DOMAIN cfg.services : ValidService(cfg.services[s])
  /\ cfg.routes # <<>>
  /\ \A i \in DOMAIN cfg.routes : ValidRoute(cfg.routes[i], DOMAIN cfg.services)
  /\ \A i \in DOMAIN cfg.rules : ValidRule(cfg.rules[i])

\* The limiters of a configuration can be built.
LimitersKnown(cfg) ==
  \A i \in DOMAIN cfg.rules : cfg.rules[i].type \in {"memory_token_bucket", "", "noop"}

\* Refused before any effect unless this holds.
Acceptable(cfg) == ValidateGatewayConfig(cfg) /\ LimitersKnown(cfg)

-----------------------------------------------------------------------------
(* What the services built from a configuration know                       *)

ServiceNames(cfg) == {cfg.services[s].name : s \in DOMAIN cfg.services}
RuleNames(cfg)    == {cfg.rules[i].name : i \in DOMAIN cfg.rules}

\* Of several rules of one name the last one's limiter is kept.
Limited(cfg, name) ==
  cfg.rules[Max({i \in DOMAIN cfg.rules : cfg.rules[i].name = name})].type = "memory_token_bucket"

-----------------------------------------------------------------------------
(* Editing                                                                 *)

\* Replace the first element of those at the given places, or append.
Upsert(seq, item, same) ==
  IF same = {} THEN Append(seq, item) ELSE [seq EXCEPT ![Min(same)] = item]

\* The elements at the given places, in their order.
Kept(seq, places) ==
  [k \in 1 .. Cardinality(places) |->
     seq[CHOOSE i \in places : Cardinality({j \in places : j <= i}) = k]]

\* Mutant: routes are told apart by their prefixes alone.
SameRouteIdentityByPrefix(a, b) == a.prefix = b.prefix

\* Routes with a path are told apart by it, whatever their prefixes.
SameRouteIdentity(a, b) ==
  IF a.path # <<>> \/ b.path # <<>> THEN a.path = b.path ELSE a.prefix = b.prefix

UpsertRule(cfg, rule) ==
  LET item == IF rule.type = "" THEN [rule EXCEPT !.type = "memory_token_bucket"] ELSE rule
  IN [cfg EXCEPT !.rules = Upsert(@, item, {i \in DOMAIN @ : @[i].name = item.name})]

DeleteRule(cfg, name) == [cfg EXCEPT !.rules = Kept(@, {i \in DOMAIN @ : @[i].name # name})]

UpsertRoute(cfg, route) ==
  [cfg EXCEPT !.routes = Upsert(@, route, {i \in DOMAIN @ : SameRouteIdentity(@[i], route)})]

\* A route goes if it has the path that is given or the prefix that is given.
Named(route, path, prefix) ==
  (path # <<>> /\ route.path = path) \/ (prefix # <<>> /\ route.prefix = prefix)
DeleteRoute(cfg, path, prefix) ==
  [cfg EXCEPT !.routes = Kept(@, {i \in DOMAIN @ : ~Named(@[i], path, prefix)})]

\* A service that the API adds has its name for a key.
UpsertService(cfg, def) ==
  [cfg EXCEPT !.services = [s \in DOMAIN @ \cup {def.name} |-> IF s = def.name THEN def ELSE @[s]]]
DeleteService(cfg, name) ==
  [cfg EXCEPT !.services = [s \in DOMAIN @ \ {name} |-> @[s]]]

\* The new configuration an edit asks for, or None if the handler turns it down.
Mutated(cfg, edit) ==
  CASE edit.op = "upsert rule"    -> IF HasName(edit.rule) THEN UpsertRule(cfg, edit.rule) ELSE None
    [] edit.op = "delete rule"    -> IF edit.name \in RuleNames(cfg) THEN DeleteRule(cfg, edit.name) ELSE None
    [] edit.op = "upsert route"   -> IF HasIdentity(edit.route) THEN UpsertRoute(cfg, edit.route) ELSE None
    [] edit.op = "delete route"   -> IF \E i \in DOMAIN cfg.routes : Named(cfg.routes[i], edit.path, edit.prefix)
                                     THEN DeleteRoute(cfg, edit.path, edit.prefix) ELSE None
    [] edit.op = "upsert service" -> IF HasName(edit.service) THEN UpsertService(cfg, edit.service) ELSE None
    [] edit.op = "delete service" -> IF edit.name \in DOMAIN cfg.services THEN DeleteService(cfg, edit.name) ELSE None
    [] edit.op = "apply"          -> edit.config

\* The check that every handler of the admin API begins with.
AuthorizeAdmin(cfg, token) == cfg.token = None \/ token = cfg.token

-----------------------------------------------------------------------------
(* What an edit of the routes promises                                     *)

Identity(route) == IF route.path # <<>> THEN [path |-> route.path] ELSE [prefix |-> route.prefix]

\* The routes that an edit is about: those of the identity given, and the new one.
Concerns(edit, route) ==
  CASE edit.op = "upsert route" -> Identity(route) = Identity(edit.route)
    [] edit.op = "delete route" -> \/ edit.path # <<>> /\ route.path = edit.path
                                   \/ edit.prefix # <<>> /\ route.prefix = edit.prefix
    [] OTHER                    -> FALSE
=============================================================================
