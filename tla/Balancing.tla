----------------------------- MODULE Balancing ------------------------------
(***************************************************************************)
(* How each load balancer (internal/core/loadbalancer) chooses among the   *)
(* instances that are alive, as operators. Instances are numbered in the   *)
(* order of their registration, which all balancers iterate in; a set of   *)
(* alive instances therefore stands for the filtered slice.                *)
(***************************************************************************)
EXTENDS Integers, FiniteSets, FiniteSetsExt

CONSTANTS
  InstanceCount,  \* registered instances
  Weight,         \* configured weight of each instance
  RingSize,       \* number of hash values (2^32 in the code)
  VirtualNodes    \* hash values of each instance's virtual nodes

Instances == 1 .. InstanceCount
Hashes    == 0 .. RingSize - 1

ASSUME CountAssumption == InstanceCount \in Nat \ {0}
ASSUME RingAssumption  == RingSize \in Nat \ {0}
ASSUME WeightAssumption == Weight \in [Instances -> Int]
\* Every instance has a virtual node. Those of different instances may hash alike.
ASSUME VirtualNodeAssumption == VirtualNodes \in [Instances -> (SUBSET Hashes) \ {{}}]

\* Total weight of the members of A, and of those registered before i.
TotalWeight(A)     == MapThenSumSet(LAMBDA i : Weight[i], A)
CumulativeTo(A, i) == TotalWeight({j \in A : j <= i})

\* Mutant: the number is taken modulo all instances, skipping those not alive.
RoundRobinSkipping(A, seq) ==
  LET behind == {i \in A : i > seq % InstanceCount}
  IN IF behind # {} THEN Min(behind) ELSE Min(A)

\* healthyInstances[seq % len(healthyInstances)]
RoundRobin(A, seq) ==
  CHOOSE i \in A : Cardinality({j \in A : j < i}) = seq % Cardinality(A)

\* Instances without a positive weight take part only when nobody has one.
Weighted(A) == {i \in A : Weight[i] > 0}

\* Mutant: target <= cumulative.
WeightedRoundRobinAtMost(A, seq) ==
  IF Weighted(A) = {} THEN RoundRobin(A, seq)
  ELSE LET target == seq % TotalWeight(Weighted(A))
       IN Min({i \in Weighted(A) : target <= CumulativeTo(Weighted(A), i)})

WeightedRoundRobin(A, seq) ==
  IF Weighted(A) = {} THEN RoundRobin(A, seq)
  ELSE LET target == seq % TotalWeight(Weighted(A))
       IN Min({i \in Weighted(A) : target < CumulativeTo(Weighted(A), i)})

\* The first of the least loaded ones.
LeastConnections(A, conn) ==
  Min({i \in A : \A j \in A : conn[i] <= conn[j]})

\* The rings that a rebuild may make of A. sort.Slice leaves the order of entries that
\* hash alike open; a search only ever stops at the first of them, whose instance is
\* the ring's value there.
Nodes(A) == UNION {VirtualNodes[i] : i \in A}
Rings(A) == {ring \in [Nodes(A) -> A] : \A p \in Nodes(A) : p \in VirtualNodes[ring[p]]}

\* First virtual node at or after the hash, wrapping round the ring.
NodeFor(nodes, hash) ==
  LET after == {p \in nodes : p >= hash} IN Min(IF after # {} THEN after ELSE nodes)

\* Mutant: the hash is taken modulo the number of instances.
PickModulo(ring, hash) == RoundRobin({ring[p] : p \in DOMAIN ring}, hash)

PickFromRing(ring, hash) == ring[NodeFor(DOMAIN ring, hash)]

-----------------------------------------------------------------------------
\* The share of instance i in a full turn of the cursor, and the turn's length.
Share(A, algorithm, i) ==
  IF algorithm = "round_robin" \/ Weighted(A) = {} THEN 1
  ELSE IF i \in Weighted(A) THEN Weight[i] ELSE 0

Turn(A, algorithm) ==
  LET share == [i \in A |-> Share(A, algorithm, i)]
  IN MapThenSumSet(LAMBDA i : share[i], A)
=============================================================================
