------------------------ MODULE MCInstanceSelection -------------------------
(* Small instances of InstanceSelection for TLC.                           *)
EXTENDS InstanceSelection, TLC

\* A heavy instance, a light one, and one without weight.
MixedWeights == <<2, 1, 0>>
NoWeights    == [i \in Instances |-> 0]

\* Two virtual nodes per instance, interleaved; two instances share one of theirs.
Interleaved == <<{1, 4}, {2, 6}, {4, 7}>>
Alternating == <<{0, 2}, {1, 3}>>

\* The auth plugin takes the balancer that its service has: the default, or the one
\* whose counts it never gives back.
AuthToo ==
  [a \in Algorithms |-> IF a \in {"round_robin", "least_connections"} THEN {"proxy", "auth"}
                        ELSE {"proxy"}]
ProxyOnly == [a \in Algorithms |-> {"proxy"}]

Symmetric == Permutations(Handlers)
=============================================================================
