-------------------------- MODULE RequestContract ---------------------------
(***************************************************************************)
(* What a client may rely on while configurations are replaced under a     *)
(* running gateway, without plugin table, breakers, balancers and locks.   *)
(*                                                                         *)
(* Every change that takes effect is a generation; offers[g] is what       *)
(* generation g provides. A request belongs to the generation that serves  *)
(* when it arrives. It is treated by that generation or later ones, never  *)
(* by an earlier one; it is forwarded only when every plugin its route     *)
(* demands has let it pass; and it fails for want of a rule or a service   *)
(* only if a generation that it may meet lacks one. So a request during    *)
(* which no change is under way, and which arrives when the newest         *)
(* generation serves, is treated by a single configuration.                *)
(***************************************************************************)
EXTENDS Integers, Sequences

CONSTANTS Rules, Services, Plugins

VARIABLES
  offers,     \* per generation: the rules and services it provides
  serving,    \* the generation that requests which arrive now belong to
  changing,   \* a change is under way
  request     \* its phase and generation, the plugins that have yet to let it
              \*   pass, the rules and services it needs, who treated it

contractVars == <<offers, serving, changing, request>>

Offers    == [rules : SUBSET Rules, services : SUBSET Services]
NoRequest == [phase |-> "none", gen |-> 0, owed |-> {}, rules |-> {}, services |-> {}, met |-> {}]

newest  == Len(offers)
Current == request.gen .. newest

Init ==
  /\ offers \in {<<o>> : o \in Offers}
  /\ serving = 1
  /\ changing = FALSE
  /\ request = NoRequest

\* A change begins; it is served, or refused, before the next one begins.
BeginChange ==
  /\ ~changing /\ changing' = TRUE
  /\ \E o \in Offers : offers' = Append(offers, o)
  /\ UNCHANGED <<serving, request>>
Serve ==
  /\ changing /\ serving < newest
  /\ serving' = newest
  /\ UNCHANGED <<offers, changing, request>>
EndChange ==
  /\ changing /\ changing' = FALSE
  /\ UNCHANGED <<offers, serving, request>>

Arrive ==
  /\ request.phase = "none"
  /\ request' \in [phase : {"checking", "answered"}, gen : {serving}, owed : SUBSET Plugins,
                   rules : SUBSET Rules, services : SUBSET Services, met : {{serving}}]

\* One of the current generations treats the request, which then owes and is as given.
Treat(phase, owed) ==
  \E g \in Current :
     request' = [request EXCEPT !.phase = phase, !.owed = owed, !.met = @ \cup {g}]

Pass     == request.phase = "checking" /\ \E p \in Plugins : Treat("checking", request.owed \ {p})
TurnDown == request.phase = "checking" /\ Treat("answered", request.owed)

\* Something the request needs is missing.
Fail ==
  /\ request.phase = "checking"
  /\ \E g \in Current : \/ ~ request.rules \subseteq offers[g].rules
                        \/ ~ request.services \subseteq offers[g].services
  /\ Treat("failed", request.owed)

Forward == request.phase = "checking" /\ request.owed = {} /\ Treat("forwarded", {})
Answer  == request.phase = "forwarded" /\ Treat("answered", {})
Depart  == request.phase \in {"answered", "failed"} /\ request' = NoRequest

Next ==
  \/ BeginChange \/ Serve \/ EndChange
  \/ /\ Arrive \/ Pass \/ TurnDown \/ Fail \/ Forward \/ Answer \/ Depart
     /\ UNCHANGED <<offers, serving, changing>>

Spec == Init /\ [][Next]_contractVars
=============================================================================
