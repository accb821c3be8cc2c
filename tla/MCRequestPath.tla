--------------------------- MODULE MCRequestPath ----------------------------
(* A small instance of RequestPath for TLC.                                *)
EXTENDS RequestPath

Lowered == [GET |-> "get", Beta |-> "beta", Auth |-> "auth", IP |-> "ip", Admin |-> "admin"]

ServiceSet == {"a", "auth-service", "b"}
SmallBounds    == <<5>>
SortedServices == <<"a", "auth-service", "b">>
KnownChainNames == PluginNames \cup {"Auth"}

-----------------------------------------------------------------------------
Limit(rule, strategy) == [name |-> "ratelimit", rule |-> rule, strategy |-> strategy]
Break(service)        == [name |-> "circuitbreaker", service |-> service]
Key(keys)             == [name |-> "apikey", keys |-> keys]
Role(roles)           == [name |-> "rbac", roles |-> roles]

Plain  == [path |-> <<>>, prefix |-> <<>>, methods |-> {}, service |-> "a", variants |-> << >>,
           weights |-> << >>, hashOn |-> "", plugins |-> << >>, requiresAuth |-> FALSE]
Prefix(p) == [Plain EXCEPT !.prefix = p]
Path(p)   == [Plain EXCEPT !.path = p]

Guarded  == [Prefix(<<"a", "">>) EXCEPT !.methods = {"GET"}, !.requiresAuth = TRUE,
               !.plugins = <<Limit("r", "IP"), Break("a"), Role({"Admin"})>>]
Keyed    == [Path(<<"k">>) EXCEPT !.prefix = <<"b">>, !.service = "b",
               !.plugins = <<Limit("r", "global"), Key({"k1"})>>]
Split    == [Prefix(<<"w">>) EXCEPT !.hashOn = "user", !.variants = [beta |-> "b"],
               !.weights = ("a" :> 1) @@ ("b" :> 3)]
Odd      == [Path(<<"o">>) EXCEPT !.plugins = <<Role({})>>]
Overfull == [Prefix(<<"o">>) EXCEPT !.weights = ("a" :> 8)]
Narrowed == [Prefix(<<"v">>) EXCEPT !.weights = ("a" :> 4) @@ ("b" :> 7)]
NoKeys   == [Prefix(<<"n">>) EXCEPT !.plugins = <<Key({})>>]
Unruled  == [Prefix(<<"n", "n">>) EXCEPT !.plugins = <<Limit("r", "path"), Limit("r", "header")>>]
Cased    == [Path(<<"c">>) EXCEPT !.plugins = <<[name |-> "Auth"]>>, !.requiresAuth = TRUE]
Health   == [Path(<<"h">>) EXCEPT !.service = AllServices]

Def(name)   == [name |-> name, instances |-> 1, path |-> <<"up">>]
Defs(names) == [s \in names |-> Def(s)]
Bucket(name) == [name |-> name, type |-> "memory_token_bucket", capacity |-> 1, rate |-> 0]
Open(name)   == [Bucket(name) EXCEPT !.type = "noop"]

Quiet   == [enabled |-> FALSE, path |-> ""]
Default == [enabled |-> TRUE, path |-> ""]
Other   == [enabled |-> TRUE, path |-> "two"]

Base == [services |-> Defs(ServiceSet),
         routes   |-> <<Guarded, Keyed, Split, Odd, Overfull, Narrowed, NoKeys, Unruled, Cased, Health>>,
         rules    |-> <<Bucket("r")>>, validate |-> TRUE, monitor |-> Quiet, token |-> None]
Lean == [Base EXCEPT !.services = Defs({"a", "b"}), !.routes = <<Guarded, Keyed>>, !.rules = <<Open("r")>>]
Less == [Lean EXCEPT !.services = Defs({"a"}), !.routes = <<Guarded>>]
Watched == [Lean EXCEPT !.monitor = Default, !.token = "secret"]

-----------------------------------------------------------------------------
Req(path) == [path |-> path, method |-> "get", variant |-> None, role |-> "admin", apikey |-> "k1",
              token |-> "t", ip |-> "1", keys |-> [ip |-> 3, user |-> 5, path |-> 7]]

Guest   == [Req(<<"a", "1">>) EXCEPT !.role = "guest"]
Bare    == [Req(<<"a", "1">>) EXCEPT !.token = None, !.ip = None]
Beta    == [Req(<<"w">>) EXCEPT !.variant = "Beta"]
Posted  == [Req(<<"a", "">>) EXCEPT !.method = "post"]
Keyless == [Req(<<"b">>) EXCEPT !.apikey = None]
Unhashed == [Req(<<"w">>) EXCEPT !.keys.user = None]

AllPaths == {<<"a">>, <<"a", "">>, <<"a", "1">>, <<"k">>, <<"b">>, <<"w">>, <<"o">>, <<"o", "1">>,
             <<"n">>, <<"n", "n">>, <<"c">>, <<"h">>}
AllRequests == {Req(p) : p \in AllPaths} \cup {Guest, Bare, Beta, Posted, Keyless, Unhashed}

Ask(op) == [op |-> op, token |-> None]
AddDefault == Ask("upsert rule") @@ [rule |-> [Open("q") EXCEPT !.type = ""]]
OpenRule   == Ask("upsert rule") @@ [rule |-> Open("r")]
AddNameless == Ask("upsert rule") @@ [rule |-> Open("")]
DropRule   == Ask("delete rule") @@ [name |-> "r"]
Reroute    == Ask("upsert route") @@ [route |-> [Keyed EXCEPT !.prefix = <<"a", "">>, !.plugins = << >>]]
Replace    == Ask("upsert route") @@ [route |-> [Prefix(<<"a", "">>) EXCEPT !.service = "b"]]
Shadowed   == Ask("upsert route") @@ [route |-> Prefix(<<"b">>)]
Pathless   == Ask("upsert route") @@ [route |-> Plain]
DropB      == Ask("delete route") @@ [path |-> << >>, prefix |-> <<"b">>]
DropH      == Ask("delete route") @@ [path |-> <<"h">>, prefix |-> << >>]
AddAuth    == Ask("upsert service") @@ [service |-> Def("auth-service")]
AddNone    == Ask("upsert service") @@ [service |-> Def("")]
DropAuth   == Ask("delete service") @@ [name |-> "auth-service"]
BadAuth    == Ask("apply") @@ [config |-> [Lean EXCEPT !.validate = FALSE]]
DropLoads  == Ask("apply") @@ [config |-> Less]
Watch      == [op |-> "apply", token |-> None, config |-> [Lean EXCEPT !.monitor = Other]]
Rewatch    == [op |-> "apply", token |-> "secret", config |-> [Lean EXCEPT !.monitor = Other]]
Unwatch    == [op |-> "apply", token |-> "secret", config |-> [Lean EXCEPT !.token = "secret"]]

RouteEdits == {Reroute, Replace, Shadowed, Pathless, DropB, DropH}
RuleEdits  == {AddDefault, OpenRule, AddNameless, DropRule, AddNone}

-----------------------------------------------------------------------------
Scenario(boot, edits, requests, seconds, recs) ==
  [boot |-> boot, edits |-> edits, requests |-> requests, seconds |-> seconds, records |-> recs]

\* Every request with one edit during it; the requests with the longest chains with
\* two; every two edits of routes; three requests over four seconds; monitors that are
\* replaced and stopped.
SmallScenarios ==
  {Scenario(Base, {e}, {r}, 0, 0) : e \in {OpenRule, DropRule, Replace}, r \in AllRequests}
  \cup {Scenario(Base, {e}, {Req(<<"a", "1">>), Req(<<"h">>)}, 0, 0) : e \in {DropAuth, BadAuth, DropH}}
  \cup {Scenario(Lean, es, {Req(<<"a", "1">>)}, 0, 0) : es \in {{AddAuth}, {AddAuth, BadAuth}}}
  \cup {Scenario(Base, es, {Req(<<"k">>)}, 0, 0) : es \in {{DropRule, OpenRule}, {BadAuth, Reroute}, {DropLoads}}}
  \cup {Scenario(Base, es, {}, 0, 0) : es \in kSubset(2, RouteEdits) \cup kSubset(2, RuleEdits)}
  \cup {Scenario(Base, {}, {Req(<<"o", "1">>), Posted, Req(<<"n">>)}, 3, 0)}
  \cup {Scenario(Watched, {Rewatch, Unwatch}, {}, 0, 2), Scenario(Lean, {Watch, Rewatch}, {}, 0, 1)}
=============================================================================
