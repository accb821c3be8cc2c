------------------------------ MODULE Routing -------------------------------
(***************************************************************************)
(* How a request finds its route, its service and its plugin chain: the    *)
(* router and the traffic rules, as operators on one configuration.        *)
(*                                                                         *)
(* A path is the sequence of what follows each of its slashes: "/a/b" is   *)
(* <<"a", "b">>, "/a/" is <<"a", "">>, and the empty string is <<>>. The   *)
(* key that traffic rules hash is represented by its hash value. White     *)
(* space around names is left out.                                         *)
(***************************************************************************)
EXTENDS Integers, Sequences, FiniteSets, SequencesExt, FiniteSetsExt

CONSTANTS
  ServiceOrder,   \* all service names as sort.Strings orders them
  None,           \* an absent value
  LowerCase,      \* strings.ToLower on header values and names
  HashModulus     \* the number of values of uint32

IsList(s) == s \in Seq({s[i] : i \in DOMAIN s})

ASSUME RoutingAssumption == HashModulus \in Nat \ {0}

\* The names are the keys of a map: none is there twice.
ASSUME OrderAssumption ==
  /\ IsList(ServiceOrder)
  /\ \A i, j \in DOMAIN ServiceOrder : ServiceOrder[i] = ServiceOrder[j] => i = j

Lower(v)        == IF v \in DOMAIN LowerCase THEN LowerCase[v] ELSE v
EqualFold(v, w) == Lower(v) = Lower(w)

-----------------------------------------------------------------------------
(* router.go                                                               *)

EndsInSlash(path) == path # <<>> /\ Last(path) = ""

\* A prefix that ends in a slash does not match the path without it.
PrefixMatch(path, prefix) ==
  IF EndsInSlash(prefix) THEN IsStrictPrefix(Front(prefix), path)
                         ELSE prefix # <<>> /\ IsPrefix(prefix, path)

\* Orders the prefixes that match one path as the lengths of their strings do.
PrefixLength(prefix) == IF EndsInSlash(prefix) THEN 2 * Len(prefix) - 1 ELSE 2 * Len(prefix)

ExactMatches(routes, path)  == {i \in DOMAIN routes : path # <<>> /\ routes[i].path = path}
PrefixMatches(routes, path) == {i \in DOMAIN routes : PrefixMatch(path, routes[i].prefix)}

\* The index of the route, 0 if there is none: the first that has this very path,
\* or else the first of those with the longest prefix.
FindRouteByPathOnly(routes, path) ==
  LET exact   == ExactMatches(routes, path)
      prefix  == PrefixMatches(routes, path)
      longest == {i \in prefix : \A j \in prefix :
                     PrefixLength(routes[j].prefix) <= PrefixLength(routes[i].prefix)}
  IN IF exact # {} THEN Min(exact) ELSE IF prefix # {} THEN Min(longest) ELSE 0

MethodAllowed(methods, method) == methods = {} \/ \E m \in methods : EqualFold(m, method)

\* The method is looked at after the path has decided.
FindRoute(routes, path, method) ==
  LET i == FindRouteByPathOnly(routes, path)
  IN IF i # 0 /\ MethodAllowed(routes[i].methods, method) THEN i ELSE 0

-----------------------------------------------------------------------------
(* Traffic rules of gateway.go                                             *)

Panic == "panic"

\* The hash of the key that a strategy takes from a request, None if that is empty.
ValueByStrategy(strategy, r) ==
  LET s == IF strategy = "" THEN "ip" ELSE Lower(strategy)
  IN IF s \in DOMAIN r.keys THEN r.keys[s] ELSE None

\* Positions, in ServiceOrder, of the services with a positive weight; the weight
\* of those up to position i; and that of all of them.
Weighted(weights) ==
  {i \in DOMAIN ServiceOrder : ServiceOrder[i] \in DOMAIN weights /\ weights[ServiceOrder[i]] > 0}
WeightUpTo(weights, i) ==
  LET weight == [j \in Weighted(weights) |-> weights[ServiceOrder[j]]]
  IN MapThenSumSet(LAMBDA j : weight[j], {j \in Weighted(weights) : j <= i})
TotalWeight(weights) == WeightUpTo(weights, Len(ServiceOrder))

\* Mutant: target <= cumulative.
SelectWeightedServiceAtMost(weights, hash) ==
  LET divisor == TotalWeight(weights) % HashModulus
      target  == hash % divisor
  IN IF TotalWeight(weights) = 0 THEN None
     ELSE IF divisor = 0 THEN Panic
     ELSE ServiceOrder[Min({i \in Weighted(weights) : target <= WeightUpTo(weights, i)})]

\* The total is narrowed to 32 bits before it divides the hash.
SelectWeightedService(weights, hash) ==
  LET divisor == TotalWeight(weights) % HashModulus
      target  == hash % divisor
  IN IF TotalWeight(weights) = 0 THEN None
     ELSE IF divisor = 0 THEN Panic
     ELSE ServiceOrder[Min({i \in Weighted(weights) : target < WeightUpTo(weights, i)})]

\* The services that the A/B rule names for a request: by the header's value as it
\* is, then in lower case.
Variants(route, r) ==
  IF r.variant = None THEN <<>>
  ELSE SelectSeq(<<r.variant, Lower(r.variant)>>, LAMBDA v : v \in DOMAIN route.variants)

\* A/B rule, then weights, then the route's own service; the first two only
\* if the service they name is defined.
SelectTargetService(services, route, r) ==
  LET named    == SelectSeq(Variants(route, r), LAMBDA v : route.variants[v] \in services)
      key      == ValueByStrategy(route.hashOn, r)
      weighted == SelectWeightedService(route.weights, IF key = None THEN r.keys["path"] ELSE key)
  IN IF named # <<>> THEN route.variants[Head(named)]
     ELSE IF weighted \in services \cup {Panic} THEN weighted
     ELSE route.service

-----------------------------------------------------------------------------
(* The plugin chain of gateway.go                                          *)

AuthSpec == [name |-> "auth"]

HasPlugin(specs, name) == \E i \in DOMAIN specs : EqualFold(specs[i].name, name)

\* Mutant: requires_auth is forgotten where the route lists plugins of its own.
PluginChainOwnOnly(route) ==
  IF route.requiresAuth /\ route.plugins = <<>> THEN <<AuthSpec>> ELSE route.plugins

PluginChain(route) ==
  IF route.requiresAuth /\ ~HasPlugin(route.plugins, "auth")
  THEN Append(route.plugins, AuthSpec) ELSE route.plugins

-----------------------------------------------------------------------------
(* What the traffic rules promise                                          *)

\* The total counts modulo HashModulus only. Where that is zero, every request makes
\* the gateway panic. Where it is not, every hash finds a weighted service, and of the
\* remainders that a hash can have each service gets at most its weight: exactly that
\* if the total was not narrowed.
SharesFollowWeights(weights) ==
  LET total    == TotalWeight(weights)
      divisor  == total % HashModulus
      share(i) == {h \in 0 .. divisor - 1 : SelectWeightedService(weights, h) = ServiceOrder[i]}
  IN /\ total # 0 /\ divisor = 0 =>
          \A h \in 0 .. HashModulus - 1 : SelectWeightedService(weights, h) = Panic
     /\ divisor # 0 =>
          /\ \A h \in 0 .. HashModulus - 1 :
               \E i \in Weighted(weights) : SelectWeightedService(weights, h) = ServiceOrder[i]
          /\ \A i \in Weighted(weights) :
               /\ Cardinality(share(i)) <= weights[ServiceOrder[i]]
               /\ total < HashModulus => Cardinality(share(i)) = weights[ServiceOrder[i]]
=============================================================================
