-------------------------- MODULE MCCircuitBreaker --------------------------
(* Small instances of CircuitBreaker for TLC.                              *)
EXTENDS CircuitBreaker

CONSTANTS s1

\* The guarded service is also reached unchecked, by a route without plugin.
GuardedAndBypassed == {[guard |-> s1, target |-> s1],
                       [guard |-> NoGuard, target |-> s1]}
=============================================================================
