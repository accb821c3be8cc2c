---------------------- MODULE MCCircuitBreakerHistory -----------------------
(* Small instances of CircuitBreakerHistory for TLC.                       *)
EXTENDS CircuitBreakerHistory, TLC

CONSTANTS s1, s2

\* The guarded service is also reached unchecked, by a route without plugin.
GuardedAndBypassed == {[guard |-> s1, target |-> s1],
                       [guard |-> NoGuard, target |-> s1]}

\* The plugin guards s1, the weighted rule sends part of the traffic to s2,
\* and a second route reaches s1 unchecked.
MixedRoutes == GuardedAndBypassed \cup {[guard |-> s1, target |-> s2]}

Symmetric == Permutations(Requests)
=============================================================================
