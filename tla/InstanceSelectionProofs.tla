---------------------- MODULE InstanceSelectionProofs -----------------------
(***************************************************************************)
(* Theorems about InstanceSelection for every number of instances, every   *)
(* weights, virtual nodes and rings of them, and any finite number of      *)
(* handlers: the shares of a turn, what a turn finds, the connection       *)
(* counts, and the keys that move.                                         *)
(*                                                                         *)
(* First what the balancers' operators choose; then the invariant, whose   *)
(* core is that requests pay for what they may still draw; then the two    *)
(* properties about numbers drawn from a cursor that wraps.                *)
(***************************************************************************)
EXTENDS InstanceSelection, Numbers

-----------------------------------------------------------------------------
(* The balancers' choices.                                                 *)

LEMMA FiniteInstances ==
  /\ IsFiniteSet(Instances) /\ Cardinality(Instances) = InstanceCount
  /\ \A A \in SUBSET Instances : /\ IsFiniteSet(A) /\ Cardinality(A) \in 0 .. InstanceCount
                                 /\ A # {} => Cardinality(A) \in Nat \ {0}
<1>1. IsFiniteSet(Instances) /\ Cardinality(Instances) = InstanceCount
  BY CountAssumption, FS_Interval DEF Instances
<1>2. ASSUME NEW A \in SUBSET Instances
      PROVE  /\ IsFiniteSet(A) /\ Cardinality(A) \in 0 .. InstanceCount
             /\ A # {} => Cardinality(A) \in Nat \ {0}
  BY <1>1, CountAssumption, FS_Subset, FS_CardinalityType, FS_EmptySet
<1> QED BY <1>1, <1>2

\* The place of i among the members of A in their order.
Rank(A, i) == Cardinality({j \in A : j < i})

LEMMA RankOrders ==
  ASSUME NEW A \in SUBSET Instances, NEW i \in A
  PROVE  /\ Rank(A, i) \in 0 .. Cardinality(A) - 1
         /\ \A k \in A : i < k => Rank(A, i) < Rank(A, k)
<1> DEFINE before(k) == {j \in A : j < k}
<1>1. \A k \in A : k \in Int
  BY CountAssumption DEF Instances
<1>2. ASSUME NEW B \in SUBSET A, NEW k \in A, k \in B, before(k) \subseteq B
      PROVE  Rank(A, k) \in Nat /\ Rank(A, k) < Cardinality(B) /\ Cardinality(B) \in Nat
  <2>1. IsFiniteSet(B) /\ before(k) \in SUBSET B /\ k \notin before(k)
    BY <1>1, <1>2, FiniteInstances
  <2>2. /\ IsFiniteSet(before(k)) /\ Cardinality(before(k)) <= Cardinality(B)
        /\ Cardinality(before(k)) # Cardinality(B)
    BY <1>2, <2>1, FS_Subset
  <2>3. Cardinality(before(k)) \in Nat /\ Cardinality(B) \in Nat
    BY <2>1, <2>2, FS_CardinalityType
  <2> QED BY <2>2, <2>3 DEF Rank
<1>3. Rank(A, i) \in 0 .. Cardinality(A) - 1
  <2>1. Rank(A, i) \in Nat /\ Rank(A, i) < Cardinality(A) /\ Cardinality(A) \in Nat
    BY <1>2
  <2> QED BY <2>1
<1>4. ASSUME NEW k \in A, i < k PROVE Rank(A, i) < Rank(A, k)
  <2>1. before(k) \in SUBSET A /\ i \in before(k) /\ before(i) \subseteq before(k)
    BY <1>1, <1>4
  <2> QED BY <1>2, <2>1 DEF Rank
<1> QED BY <1>3, <1>4

LEMMA SameRankSame ==
  ASSUME NEW A \in SUBSET Instances, NEW i \in A, NEW j \in A, Rank(A, i) = Rank(A, j)
  PROVE  i = j
<1>1. i \in Int /\ j \in Int
  BY CountAssumption DEF Instances
<1>2. Rank(A, i) \in Int /\ ~(Rank(A, i) < Rank(A, j)) /\ ~(Rank(A, j) < Rank(A, i))
  BY RankOrders
<1>3. ~(i < j) /\ ~(j < i)
  BY <1>2, RankOrders
<1> QED BY <1>1, <1>3

LEMMA EveryRankTaken ==
  ASSUME NEW A \in SUBSET Instances, NEW r \in 0 .. Cardinality(A) - 1
  PROVE  \E i \in A : Rank(A, i) = r
<1> DEFINE n == Cardinality(A)
           f == [i \in A |-> Rank(A, i)]
<1>1. n \in Nat /\ IsFiniteSet(A)
  BY CountAssumption, FiniteInstances
<1>2. IsFiniteSet(0 .. n - 1) /\ Cardinality(0 .. n - 1) = n
  <2>1. n - 1 \in Int
    BY <1>1
  <2>2. \A m \in Int : /\ IsFiniteSet(0 .. m)
                        /\ Cardinality(0 .. m) = IF 0 > m THEN 0 ELSE m - 0 + 1
    BY FS_Interval
  <2> QED BY <1>1, <2>1, <2>2
<1>3. f \in Injection(A, 0 .. n - 1)
  <2>1. f \in [A -> 0 .. n - 1]
    BY RankOrders
  <2>2. \A i, j \in A : f[i] = f[j] => i = j
    BY SameRankSame
  <2> QED BY <2>1, <2>2 DEF Injection, IsInjective
<1>4. f \in Surjection(A, 0 .. n - 1)
  BY <1>2, <1>3, FS_Injection
<1>5. PICK i \in A : f[i] = r
  BY <1>4 DEF Surjection
<1> QED BY <1>5

LEMMA RoundRobinIs ==
  ASSUME NEW A \in SUBSET Instances, A # {}, NEW seq \in Int
  PROVE  RoundRobin(A, seq) \in A /\ Rank(A, RoundRobin(A, seq)) = seq % Cardinality(A)
<1>1. Cardinality(A) \in Nat \ {0}
  BY FiniteInstances
<1>2. seq % Cardinality(A) \in 0 .. Cardinality(A) - 1
  BY <1>1, Division
<1>3. \E i \in A : Rank(A, i) = seq % Cardinality(A)
  BY <1>2, EveryRankTaken
<1> QED BY <1>3 DEF RoundRobin, Rank

LEMMA LeastConnectionsIs ==
  ASSUME NEW A \in SUBSET Instances, A # {}, NEW c \in [Instances -> Nat]
  PROVE  LeastConnections(A, c) \in A
<1> DEFINE counts == {c[i] : i \in A}
           least  == {i \in A : \A j \in A : c[i] <= c[j]}
<1>1. counts \in SUBSET Nat /\ counts # {}
  OBVIOUS
<1>2. PICK n \in counts : \A m \in counts : n <= m
  BY <1>1, LeastNumber
<1>3. PICK i \in A : c[i] = n
  OBVIOUS
<1>4. i \in least
  BY <1>2, <1>3
<1>5. least \in SUBSET Nat
  BY CountAssumption DEF Instances
<1>6. Min(least) \in least
  BY <1>4, <1>5, MinIs
<1> QED BY <1>6 DEF LeastConnections

LEMMA NodesAre ==
  ASSUME NEW A \in SUBSET Instances, A # {}
  PROVE  Nodes(A) # {} /\ Nodes(A) \in SUBSET Nat
<1>1. PICK i : i \in A
  OBVIOUS
<1>2. \A j \in A : VirtualNodes[j] # {} /\ VirtualNodes[j] \subseteq Nat
  BY VirtualNodeAssumption, RingAssumption DEF Hashes
<1>3. Nodes(A) \subseteq Nat
  BY <1>2 DEF Nodes
<1>4. PICK p : p \in VirtualNodes[i]
  BY <1>1, <1>2
<1>5. p \in Nodes(A)
  BY <1>1, <1>4 DEF Nodes
<1> QED BY <1>3, <1>5

\* A node that answers among many answers among fewer, if it is one of them.
LEMMA NodeForIs ==
  ASSUME NEW N \in SUBSET Nat, N # {}, NEW hash \in Nat
  PROVE  /\ NodeFor(N, hash) \in N
         /\ \A M \in SUBSET N : NodeFor(N, hash) \in M => NodeFor(M, hash) = NodeFor(N, hash)
<1> DEFINE after(M) == {p \in M : p >= hash}
           within(M) == IF after(M) # {} THEN after(M) ELSE M
<1>1. ASSUME NEW M \in SUBSET N, M # {}
      PROVE  /\ NodeFor(M, hash) \in within(M) /\ within(M) \in SUBSET Nat
             /\ \A p \in within(M) : NodeFor(M, hash) <= p
  <2>1. within(M) # {} /\ within(M) \in SUBSET Nat /\ NodeFor(M, hash) = Min(within(M))
    BY <1>1 DEF NodeFor
  <2> HIDE DEF within
  <2> QED BY <2>1, MinIs
<1>2. NodeFor(N, hash) \in N
  BY <1>1
<1>3. ASSUME NEW M \in SUBSET N, NodeFor(N, hash) \in M
      PROVE  NodeFor(M, hash) = NodeFor(N, hash)
  <2> DEFINE m == NodeFor(M, hash)
             n == NodeFor(N, hash)
  <2>1. /\ m \in within(M) /\ \A p \in within(M) : m <= p
        /\ n \in within(N) /\ \A p \in within(N) : n <= p
        /\ m \in Nat /\ n \in Nat /\ n \in M
    BY <1>1, <1>3
  <2> HIDE DEF m, n
  <2>2. n \in within(M) /\ m \in within(N)
    BY <2>1
  <2>3. m <= n /\ n <= m
    <3> HIDE DEF within
    <3> QED BY <2>1, <2>2
  <2> QED BY <2>1, <2>3 DEF m, n
<1> QED BY <1>2, <1>3

LEMMA PickFromRingIs ==
  ASSUME NEW A \in SUBSET Instances, A # {}, NEW r \in Rings(A), NEW hash \in Hashes
  PROVE  /\ PickFromRing(r, hash) \in A
         /\ NodeFor(Nodes(A), hash) \in VirtualNodes[PickFromRing(r, hash)]
         /\ NodeFor(Nodes(A), hash) \in Nodes(A)
         /\ DOMAIN r = Nodes(A)
<1>1. r \in [Nodes(A) -> A] /\ \A p \in Nodes(A) : p \in VirtualNodes[r[p]]
  BY DEF Rings
<1>2. NodeFor(Nodes(A), hash) \in Nodes(A)
  BY NodesAre, NodeForIs DEF Hashes
<1> QED BY <1>1, <1>2 DEF PickFromRing

\* An instance that joins gets its own keys. The other keys stay with the virtual node they
\* had, whichever of the instances that hash to it comes first in either ring.
LEMMA JoiningTakesItsOwn ==
  ASSUME NEW A \in SUBSET Instances, A # {}, NEW x \in Instances, NEW hash \in Hashes,
         NEW r \in Rings(A), NEW s \in Rings(A \cup {x}), PickFromRing(s, hash) # x
  PROVE  /\ NodeFor(DOMAIN r, hash) = NodeFor(DOMAIN s, hash)
         /\ NodeFor(DOMAIN r, hash)
              \in VirtualNodes[PickFromRing(r, hash)] \cap VirtualNodes[PickFromRing(s, hash)]
<1> DEFINE B == A \cup {x}
           i == PickFromRing(r, hash)
           j == PickFromRing(s, hash)
<1>1. B \in SUBSET Instances /\ B # {} /\ hash \in Nat
  BY DEF Hashes
<1>2. /\ i \in A /\ NodeFor(Nodes(A), hash) \in VirtualNodes[i] /\ DOMAIN r = Nodes(A)
      /\ j \in B /\ NodeFor(Nodes(B), hash) \in VirtualNodes[j] /\ DOMAIN s = Nodes(B)
  BY <1>1, PickFromRingIs
<1>3. j \in A /\ NodeFor(Nodes(B), hash) \in Nodes(A)
  BY <1>2 DEF Nodes
<1>4. Nodes(A) \in SUBSET Nodes(B) /\ Nodes(B) \in SUBSET Nat /\ Nodes(B) # {}
  BY <1>1, NodesAre DEF Nodes
<1>5. NodeFor(Nodes(A), hash) = NodeFor(Nodes(B), hash)
  BY <1>1, <1>3, <1>4, NodeForIs
<1> QED BY <1>2, <1>5

LEMMA GreatestIs ==
  ASSUME NEW T \in SUBSET Instances, T # {}
  PROVE  \E m \in T : \A k \in T : k <= m
<1> DEFINE S == {InstanceCount - k : k \in T}
<1>1. \A k \in T : k \in Int /\ InstanceCount - k \in Nat
  BY CountAssumption DEF Instances
<1>2. S \in SUBSET Nat /\ S # {}
  BY <1>1
<1>3. PICK n \in S : \A m \in S : n <= m
  BY <1>2, LeastNumber
<1>4. PICK m \in T : n = InstanceCount - m
  BY <1>3
<1>5. ASSUME NEW k \in T PROVE k <= m
  <2>1. InstanceCount - m <= InstanceCount - k
    BY <1>3, <1>4
  <2> QED BY <1>1, <2>1, CountAssumption
<1> QED BY <1>4, <1>5

-----------------------------------------------------------------------------
(* Weights: each instance has a segment of the turn, as long as its weight.*)

\* The total weight of what comes before i.
Before(W, i) == TotalWeight({j \in W : j < i})

LEMMA TotalWeightIs ==
  \A A : TotalWeight(A) = SumOver(Weight, A)
BY DEF TotalWeight, SumOver

LEMMA WeightedIs ==
  ASSUME NEW A \in SUBSET Instances
  PROVE  LET W == Weighted(A)
         IN /\ W \subseteq A /\ W \in SUBSET Instances
            /\ \A i \in W : Weight[i] \in Nat \ {0}
            /\ \A T \in SUBSET W : TotalWeight(T) \in Nat /\ TotalWeight(T) <= TotalWeight(W)
            /\ W # {} => TotalWeight(W) \in Nat \ {0}
<1> DEFINE W == Weighted(A)
<1>1. W \subseteq A /\ W \in SUBSET Instances /\ \A i \in W : Weight[i] \in Nat \ {0}
  BY WeightAssumption DEF Weighted
<1>2. IsFiniteSet(W)
  BY <1>1, FiniteInstances
<1>3. ASSUME NEW T \in SUBSET W
      PROVE  TotalWeight(T) \in Nat /\ TotalWeight(T) <= TotalWeight(W)
  BY <1>1, <1>2, SumOfPart, TotalWeightIs
<1>4. ASSUME W # {} PROVE TotalWeight(W) \in Nat \ {0}
  <2>1. PICK i : i \in W
    BY <1>4
  <2>2. SumOver(Weight, W) \in Nat /\ Weight[i] <= SumOver(Weight, W)
    BY <1>1, <1>2, <2>1, ValueInSum
  <2>3. Weight[i] \in Nat \ {0}
    BY <1>1, <2>1
  <2>4. SumOver(Weight, W) # 0
    BY <2>2, <2>3
  <2> QED BY <2>2, <2>4, TotalWeightIs
<1> QED BY <1>1, <1>3, <1>4

LEMMA SegmentsFollow ==
  ASSUME NEW A \in SUBSET Instances, NEW i \in Weighted(A)
  PROVE  LET W == Weighted(A)
         IN /\ Before(W, i) \in Nat /\ Weight[i] \in Nat \ {0}
            /\ CumulativeTo(W, i) = Before(W, i) + Weight[i]
            /\ CumulativeTo(W, i) <= TotalWeight(W)
            /\ \A k \in W : i < k => CumulativeTo(W, i) <= Before(W, k)
<1> DEFINE W == Weighted(A)
           upTo == {j \in W : j <= i}
           under(k) == {j \in W : j < k}
<1>1. /\ W \in SUBSET Instances /\ \A j \in W : Weight[j] \in Nat \ {0}
      /\ \A T \in SUBSET W : TotalWeight(T) \in Nat /\ TotalWeight(T) <= TotalWeight(W)
  BY WeightedIs
<1>2. \A j \in W : j \in Int
  BY <1>1, CountAssumption DEF Instances
<1>3. upTo \in SUBSET W /\ \A k \in W : under(k) \in SUBSET W
  OBVIOUS
<1>4. CumulativeTo(W, i) = TotalWeight(upTo) /\ \A k : Before(W, k) = TotalWeight(under(k))
  BY DEF CumulativeTo, Before
<1>5. IsFiniteSet(upTo) /\ i \in upTo /\ upTo \ {i} = under(i) /\ Ints(Weight, upTo)
  BY <1>1, <1>2, <1>3, FiniteInstances DEF Ints
<1>6. TotalWeight(upTo) = TotalWeight(under(i)) + Weight[i]
  <2>1. SumOver(Weight, upTo) = SumOver(Weight, upTo \ {i}) + Weight[i]
    BY <1>5, SumWithoutOne
  <2> QED BY <1>5, <2>1, TotalWeightIs
<1>7. ASSUME NEW k \in W, i < k PROVE TotalWeight(upTo) <= TotalWeight(under(k))
  <2>1. upTo \in SUBSET under(k) /\ under(k) \in SUBSET W
    BY <1>2, <1>7
  <2>2. IsFiniteSet(under(k)) /\ \A j \in under(k) : Weight[j] \in Nat
    BY <1>1, <2>1, FiniteInstances
  <2>3. SumOver(Weight, upTo) <= SumOver(Weight, under(k))
    BY <2>1, <2>2, SumOfPart
  <2> QED BY <2>3, TotalWeightIs
<1>8. TotalWeight(under(i)) \in Nat /\ TotalWeight(upTo) <= TotalWeight(W)
  BY <1>1, <1>3
<1> HIDE DEF upTo, under
<1> QED BY <1>1, <1>4, <1>6, <1>7, <1>8

\* Weighted round robin takes the instance whose segment the number falls into.
LEMMA WeightedRoundRobinIs ==
  ASSUME NEW A \in SUBSET Instances, Weighted(A) # {}, NEW seq \in Int
  PROVE  LET W == Weighted(A)
             i == WeightedRoundRobin(A, seq)
             target == seq % TotalWeight(W)
         IN i \in W /\ Before(W, i) <= target /\ target < Before(W, i) + Weight[i]
<1> DEFINE W == Weighted(A)
           total == TotalWeight(W)
           target == seq % total
           beyond == {i \in W : target < CumulativeTo(W, i)}
           i == Min(beyond)
<1>1. W \in SUBSET Instances /\ total \in Nat \ {0}
  BY WeightedIs
<1>2. target \in 0 .. total - 1
  <2> HIDE DEF total
  <2> QED BY <1>1, Division
<1>3. WeightedRoundRobin(A, seq) = i
  BY DEF WeightedRoundRobin
<1>4. beyond \in SUBSET Nat /\ \A k \in W : k \in Nat
  BY <1>1, CountAssumption DEF Instances
<1>5. beyond # {}
  <2>1. PICK m \in W : \A k \in W : k <= m
    BY <1>1, GreatestIs
  <2>2. {j \in W : j <= m} = W
    BY <2>1
  <2>3. CumulativeTo(W, m) = total
    BY <2>2 DEF CumulativeTo
  <2>4. target < CumulativeTo(W, m)
    <3> HIDE DEF target, total
    <3> QED BY <1>1, <1>2, <2>3
  <2> QED BY <2>1, <2>4
<1>6. i \in beyond /\ \A k \in beyond : i <= k
  BY <1>4, <1>5, MinIs
<1>7. i \in W /\ target < CumulativeTo(W, i)
  BY <1>6
<1>8. CumulativeTo(W, i) = Before(W, i) + Weight[i] /\ Before(W, i) \in Nat
  BY <1>7, SegmentsFollow
<1>9. Before(W, i) <= target
  <2> DEFINE under == {j \in W : j < i}
  <2>1. CASE under = {}
    <3>1. Before(W, i) = 0
      BY <2>1, SumOfNone, TotalWeightIs DEF Before
    <3> HIDE DEF target
    <3> QED BY <1>2, <3>1
  <2>2. CASE under # {}
    <3>1. under \in SUBSET Instances
      BY <1>1
    <3>2. PICK p \in under : \A k \in under : k <= p
      BY <2>2, <3>1, GreatestIs
    <3>3. p \in W /\ p < i /\ p \in Nat /\ i \in Nat
      BY <1>4, <1>7, <3>2
    <3>4. ~(i <= p)
      <4> HIDE DEF i
      <4> QED BY <3>3
    <3>5. p \notin beyond
      <4> HIDE DEF beyond, i
      <4> QED BY <1>6, <3>4
    <3>6. ~(target < CumulativeTo(W, p))
      BY <3>3, <3>5
    <3>7. {j \in W : j <= p} = under
      <4>1. \A j \in W : j <= p => j < i
        <5> HIDE DEF i
        <5> QED BY <1>4, <3>3
      <4>2. \A j \in W : j < i => j <= p
        BY <3>2
      <4> QED BY <4>1, <4>2
    <3>8. CumulativeTo(W, p) = Before(W, i)
      BY <3>7 DEF CumulativeTo, Before
    <3> HIDE DEF target, i, under
    <3> QED BY <1>2, <1>8, <3>6, <3>8
  <2> QED BY <2>1, <2>2
<1>10. i \in W /\ Before(W, i) <= target /\ target < Before(W, i) + Weight[i]
  <2> HIDE DEF i, target
  <2> QED BY <1>7, <1>8, <1>9
<1> HIDE DEF i
<1> QED BY <1>3, <1>10

LEMMA SegmentDecides ==
  ASSUME NEW A \in SUBSET Instances, NEW seq \in Int, NEW k \in Weighted(A),
         Before(Weighted(A), k) <= seq % TotalWeight(Weighted(A)),
         seq % TotalWeight(Weighted(A)) < Before(Weighted(A), k) + Weight[k]
  PROVE  WeightedRoundRobin(A, seq) = k
<1> DEFINE W == Weighted(A)
           i == WeightedRoundRobin(A, seq)
           target == seq % TotalWeight(W)
<1>1. i \in W /\ Before(W, i) <= target /\ target < Before(W, i) + Weight[i]
  BY WeightedRoundRobinIs
<1>2. \A j \in W : /\ j \in Int /\ Before(W, j) \in Nat /\ Weight[j] \in Nat
                   /\ \A l \in W : j < l => Before(W, j) + Weight[j] <= Before(W, l)
  <2>1. TAKE j \in W
  <2>2. W \in SUBSET Instances
    BY WeightedIs
  <2>3. j \in Int
    BY <2>2, CountAssumption DEF Instances
  <2> QED BY <2>3, SegmentsFollow
<1>3. target \in Int
  <2>1. TotalWeight(W) \in Nat \ {0}
    BY <1>1, WeightedIs
  <2> DEFINE total == TotalWeight(W)
  <2> HIDE DEF total
  <2>2. seq % total \in 0 .. total - 1
    BY <2>1, Division DEF total
  <2> QED BY <2>1, <2>2 DEF total
<1>4. Before(W, k) <= target /\ target < Before(W, k) + Weight[k] /\ k \in W
  OBVIOUS
<1> HIDE DEF i, target, W
<1>5. ~(i < k)
  <2>1. SUFFICES ASSUME i < k PROVE FALSE
    OBVIOUS
  <2>2. Before(W, i) + Weight[i] <= Before(W, k)
    BY <1>1, <1>2, <1>4, <2>1
  <2>3. Before(W, i) \in Nat /\ Weight[i] \in Nat /\ Before(W, k) \in Nat
    BY <1>1, <1>2, <1>4
  <2> QED BY <1>1, <1>3, <1>4, <2>2, <2>3
<1>6. ~(k < i)
  <2>1. SUFFICES ASSUME k < i PROVE FALSE
    OBVIOUS
  <2>2. Before(W, k) + Weight[k] <= Before(W, i)
    BY <1>1, <1>2, <1>4, <2>1
  <2>3. Before(W, k) \in Nat /\ Weight[k] \in Nat /\ Before(W, i) \in Nat
    BY <1>1, <1>2, <1>4
  <2> QED BY <1>1, <1>3, <1>4, <2>2, <2>3
<1>7. i = k
  BY <1>1, <1>2, <1>4, <1>5, <1>6
<1> QED BY <1>7 DEF i

LEMMA ChosenIsMember ==
  ASSUME NEW A \in SUBSET Instances, A # {}, NEW seq \in Int
  PROVE  RoundRobin(A, seq) \in A /\ WeightedRoundRobin(A, seq) \in A
<1>1. RoundRobin(A, seq) \in A
  BY RoundRobinIs
<1>2. CASE Weighted(A) = {}
  BY <1>1, <1>2 DEF WeightedRoundRobin
<1>3. CASE Weighted(A) # {}
  BY <1>1, <1>3, WeightedRoundRobinIs, WeightedIs
<1> QED BY <1>2, <1>3

\* A turn gives everybody one number, or as many as his weight.
LEMMA TurnIs ==
  ASSUME NEW A \in SUBSET Instances, NEW a
  PROVE  /\ a = "round_robin" \/ Weighted(A) = {} => Turn(A, a) = Cardinality(A)
         /\ a # "round_robin" /\ Weighted(A) # {} => Turn(A, a) = TotalWeight(Weighted(A))
         /\ A # {} => Turn(A, a) \in Nat \ {0}
<1> DEFINE share == [i \in A |-> Share(A, a, i)]
           W == Weighted(A)
<1>1. Turn(A, a) = SumOver(share, A)
  BY DEF Turn, SumOver
<1>2. IsFiniteSet(A) /\ (A # {} => Cardinality(A) \in Nat \ {0})
  BY FiniteInstances
<1>3. ASSUME a = "round_robin" \/ W = {} PROVE Turn(A, a) = Cardinality(A)
  <2>1. \A i \in A : share[i] = 1
    BY <1>3 DEF Share
  <2> HIDE DEF share
  <2> QED BY <1>1, <1>2, <2>1, SumOfOnes
<1>4. ASSUME a # "round_robin" /\ W # {} PROVE Turn(A, a) = TotalWeight(W)
  <2>1. /\ \A i \in W : share[i] = Weight[i] /\ Weight[i] \in Int
        /\ \A i \in A \ W : share[i] = 0
        /\ W \in SUBSET A
    BY <1>4, WeightedIs DEF Share
  <2>2. Ints(share, A) /\ IsFiniteSet(W)
    <3>1. W \in SUBSET Instances
      BY <2>1
    <3> HIDE DEF share, W
    <3> QED BY <2>1, <3>1, FiniteInstances DEF Ints
  <2> HIDE DEF share
  <2>3. SumOver(share, A) = SumOver(share, W) + SumOver(share, A \ W)
        /\ SumOver(share, W) \in Int
    BY <1>2, <2>1, <2>2, SumSplits
  <2>4. SumOver(share, W) = SumOver(Weight, W)
    BY <2>1, <2>2, SumOfSame
  <2>5. SumOver(share, A \ W) = 0
    <3>1. IsFiniteSet(A \ W)
      BY <1>2, FS_Subset
    <3> QED BY <2>1, <3>1, SumOfZeros
  <2> QED BY <1>1, <2>3, <2>4, <2>5, TotalWeightIs
<1>5. A # {} => Turn(A, a) \in Nat \ {0}
  BY <1>2, <1>3, <1>4, WeightedIs
<1> QED BY <1>3, <1>4, <1>5

LEMMA CursorWraps ==
  ASSUME NEW A \in SUBSET Instances, A # {}
  PROVE  CursorModulus \in Nat \ {0} /\ \A a \in Algorithms : CursorModulus % Turn(A, a) = 0
BY CursorAssumption

-----------------------------------------------------------------------------
(* What the handlers hold and may still draw.                              *)

Holds(g, i)     == g.pc \in {"check", "serving"} /\ g.inst = i
HoldersIn(H, i) == {h \in Handlers : Holds(H[h], i)}

\* Numbers that a handler may still draw.
Tries(g) == IF g.pc \in {"key", "next", "count", "checkKey"} THEN g.left
            ELSE IF g.pc = "check" THEN g.left - 1 ELSE 0

Pending(H) == SumOver([h \in Handlers |-> Tries(H[h])], Handlers)

Alike(g, k) == g.pc = k.pc /\ g.inst = k.inst /\ g.left = k.left

LEMMA TriesIs ==
  ASSUME NEW g \in Handler
  PROVE  /\ Tries(g) \in Int
         /\ \A k : Alike(k, g) => Tries(k) = Tries(g) /\ \A i : Holds(k, i) <=> Holds(g, i)
BY CountAssumption DEF Tries, Handler, Alike, Holds

LEMMA OneHandlerMoves ==
  ASSUME NEW H \in [Handlers -> Handler], NEW K \in [Handlers -> Handler],
         NEW h \in Handlers, \A g \in Handlers \ {h} : Alike(K[g], H[g])
  PROVE  /\ Pending(K) = (Pending(H) - Tries(H[h])) + Tries(K[h]) /\ Pending(H) \in Int
         /\ \A i : /\ Cardinality(HoldersIn(H, i)) \in Nat
                   /\ Holds(H[h], i) => Cardinality(HoldersIn(H, i)) >= 1
                   /\ Cardinality(HoldersIn(K, i)) =
                        (Cardinality(HoldersIn(H, i)) - (IF Holds(H[h], i) THEN 1 ELSE 0))
                          + (IF Holds(K[h], i) THEN 1 ELSE 0)
<1> DEFINE w == [g \in Handlers |-> Tries(H[g])]
           v == [g \in Handlers |-> Tries(K[g])]
<1>1. \A g \in Handlers : H[g] \in Handler /\ K[g] \in Handler
  OBVIOUS
<1>2. Ints(w, Handlers) /\ Ints(v, Handlers) /\ \A g \in Handlers \ {h} : v[g] = w[g]
  BY <1>1, TriesIs DEF Ints
<1>3. SumOver(v, Handlers) = (SumOver(w, Handlers) - w[h]) + v[h] /\ SumOver(w, Handlers) \in Int
  <2> HIDE DEF v, w
  <2> QED BY <1>2, HandlersAssumption, SumAfterChange, SumIsInt
<1>4. ASSUME NEW i
      PROVE  /\ Cardinality(HoldersIn(H, i)) \in Nat
             /\ Holds(H[h], i) => Cardinality(HoldersIn(H, i)) >= 1
             /\ Cardinality(HoldersIn(K, i)) =
                  (Cardinality(HoldersIn(H, i)) - (IF Holds(H[h], i) THEN 1 ELSE 0))
                    + (IF Holds(K[h], i) THEN 1 ELSE 0)
  <2> DEFINE Others == HoldersIn(H, i) \ {h}
  <2>1. Others = HoldersIn(K, i) \ {h}
    BY <1>1, TriesIs DEF HoldersIn
  <2>2. /\ IsFiniteSet(HoldersIn(H, i)) /\ IsFiniteSet(HoldersIn(K, i)) /\ IsFiniteSet(Others)
        /\ Cardinality(HoldersIn(H, i)) \in Nat
    <3>1. HoldersIn(H, i) \in SUBSET Handlers /\ HoldersIn(K, i) \in SUBSET Handlers
      BY DEF HoldersIn
    <3>2. Others \in SUBSET Handlers
      BY <3>1
    <3> QED BY <3>1, <3>2, HandlersAssumption, FS_Subset, FS_CardinalityType
  <2>3. Cardinality(Others) = Cardinality(HoldersIn(H, i)) - (IF Holds(H[h], i) THEN 1 ELSE 0)
    <3>1. h \in HoldersIn(H, i) <=> Holds(H[h], i)
      BY DEF HoldersIn
    <3> QED BY <2>2, <3>1, FS_RemoveElement
  <2>4. Cardinality(Others) = Cardinality(HoldersIn(K, i)) - (IF Holds(K[h], i) THEN 1 ELSE 0)
    <3>1. h \in HoldersIn(K, i) <=> Holds(K[h], i)
      BY DEF HoldersIn
    <3> QED BY <2>1, <2>2, <3>1, FS_RemoveElement
  <2>5. Cardinality(Others) \in Nat /\ Cardinality(HoldersIn(K, i)) \in Nat
    BY <2>2, FS_CardinalityType
  <2> HIDE DEF Others
  <2> QED BY <2>2, <2>3, <2>4, <2>5
<1> QED BY <1>3, <1>4 DEF Pending

-----------------------------------------------------------------------------
(* The inductive invariant.                                                *)

\* What a handler's local variables say at each point of its loop.
Fits(g, a) ==
  /\ g.pc \in {"check", "checkKey", "serving"} => g.inst \in Instances
  /\ g.pc \in {"key", "next", "count", "checkKey", "check"} =>
       g.left >= 1
  /\ g.pc = "count" => a = "weighted_round_robin" /\ g.snap # {}
  /\ g.pc \in {"key", "checkKey"} => a = "consistent_hash"

Parts ==
  /\ algorithm \in Algorithms
  /\ alive \in SUBSET Instances
  /\ healthy \in SUBSET Instances
  /\ hook \in [inst : Instances \cup {None}, up : BOOLEAN]
  /\ cursor \in 0 .. CursorModulus - 1
  /\ conn \in [Instances -> Nat]
  /\ started \in 0 .. MaxRequests
  /\ ring \in RingsFor(alive)
  /\ picks \in [Instances -> Nat]
  /\ late \in Nat /\ misses \in Nat
  /\ lost \in [Instances -> Nat]
  /\ zeroed \in SUBSET Instances

HandlersFit ==
  /\ handler \in [Handlers -> Handler]
  /\ \A h \in Handlers : Fits(handler[h], algorithm)

\* What is held, what is lost and what may still be drawn are paid for by the
\* requests started, each of which may draw as many numbers as there are instances.
Budget ==
  \A i \in Instances :
    /\ lost[i] + Cardinality(HoldersIn(handler, i)) + Pending(handler) <= started * InstanceCount
    /\ picks[i] + Pending(handler) <= started * InstanceCount

\* Only least connections counts.
Counts ==
  /\ algorithm = "least_connections" =>
       \A i \in Instances :
         LET use == Cardinality(HoldersIn(handler, i)) + lost[i] IN
         /\ conn[i] <= use
         /\ i \notin zeroed => conn[i] = use
  /\ algorithm # "least_connections" => \A i \in Instances : conn[i] = 0

IInv == Parts /\ HandlersFit /\ Budget /\ Counts

-----------------------------------------------------------------------------
(* The handlers' records.                                                  *)

Pcs == {"idle", "key", "next", "count", "checkKey", "check", "serving", "validating"}

LEMMA IdleIs ==
  /\ Idle \in Handler /\ Idle.pc = "idle" /\ Idle.inst = None /\ Idle.left = 0
  /\ None \in Instances \cup {None}
BY CountAssumption DEF Handler, Idle, None

\* A step of h: nobody else's place, instance or tries change.
Moves(h) ==
  /\ handler' \in [Handlers -> Handler]
  /\ \A g \in Handlers : Fits(handler'[g], algorithm')
  /\ \A g \in Handlers \ {h} : Alike(handler'[g], handler[g])

LEMMA StepMoves ==
  ASSUME HandlersFit, NEW h \in Handlers, NEW r \in Handler, Fits(r, algorithm),
         Step(h, r), algorithm' = algorithm
  PROVE  Moves(h) /\ handler'[h] = r
BY DEF HandlersFit, Step, Moves, Alike

Ind(b) == IF b THEN 1 ELSE 0

\* The budget is kept by a step whose handler pays for what it takes.
LEMMA BudgetKept ==
  ASSUME Parts, HandlersFit, Budget, NEW h \in Handlers, Moves(h), NEW more \in Nat,
         started' * InstanceCount = started * InstanceCount + more,
         \A i \in Instances :
           /\ lost'[i] \in Nat /\ picks'[i] \in Nat
           /\ lost'[i] + Ind(Holds(handler'[h], i)) + Tries(handler'[h])
                <= lost[i] + Ind(Holds(handler[h], i)) + Tries(handler[h]) + more
           /\ picks'[i] + Tries(handler'[h]) <= picks[i] + Tries(handler[h]) + more
  PROVE  Budget'
<1>1. handler \in [Handlers -> Handler] /\ handler' \in [Handlers -> Handler]
  BY DEF HandlersFit, Moves
<1>2. SUFFICES ASSUME NEW i \in Instances
               PROVE  /\ lost'[i] + Cardinality(HoldersIn(handler', i)) + Pending(handler')
                           <= started' * InstanceCount
                      /\ picks'[i] + Pending(handler') <= started' * InstanceCount
  BY DEF Budget
<1> DEFINE n == Cardinality(HoldersIn(handler, i))
           m == Cardinality(HoldersIn(handler', i))
           p == Pending(handler)
           q == Pending(handler')
           s == Tries(handler[h])
           t == Tries(handler'[h])
           b == Ind(Holds(handler[h], i))
           c == Ind(Holds(handler'[h], i))
           cap == started * InstanceCount
           cap2 == started' * InstanceCount
<1>3. q = (p - s) + t /\ p \in Int /\ n \in Nat /\ m = (n - b) + c
  BY <1>1, OneHandlerMoves DEF Moves, Ind
<1>4. s \in Int /\ t \in Int /\ b \in {0, 1} /\ c \in {0, 1}
  BY <1>1, TriesIs DEF Ind
<1>5. cap \in Int /\ cap2 = cap + more /\ lost[i] \in Nat /\ picks[i] \in Nat
  BY CountAssumption, RequestsAssumption DEF Parts
<1>6. lost[i] + n + p <= cap /\ picks[i] + p <= cap
  BY DEF Budget
<1>7. /\ lost'[i] \in Nat /\ picks'[i] \in Nat
      /\ lost'[i] + c + t <= lost[i] + b + s + more
      /\ picks'[i] + t <= picks[i] + s + more
  OBVIOUS
<1>8. lost'[i] + m + q <= cap2 /\ picks'[i] + q <= cap2
  <2> HIDE DEF n, m, p, q, s, t, b, c, cap, cap2
  <2> QED BY <1>3, <1>4, <1>5, <1>6, <1>7
<1> QED BY <1>8

\* The counts are right after a step that counts what its handler takes, or that
\* releases what a recovery has reset.
LEMMA CountsKept ==
  ASSUME Parts, HandlersFit, Counts, NEW h \in Handlers, Moves(h),
         algorithm' = algorithm, zeroed' = zeroed,
         \A i \in Instances : lost'[i] \in Nat /\ conn'[i] \in Nat,
         algorithm # "least_connections" => conn' = conn,
         algorithm = "least_connections" => \A i \in Instances :
           \/ conn'[i] + lost[i] + Ind(Holds(handler[h], i))
                = conn[i] + lost'[i] + Ind(Holds(handler'[h], i))
           \/ /\ conn[i] = 0 /\ conn'[i] = 0 /\ lost'[i] = lost[i]
              /\ Holds(handler[h], i) /\ ~Holds(handler'[h], i)
  PROVE  Counts'
<1>1. handler \in [Handlers -> Handler] /\ handler' \in [Handlers -> Handler]
  BY DEF HandlersFit, Moves
<1>2. CASE algorithm # "least_connections"
  BY <1>2 DEF Counts
<1>3. CASE algorithm = "least_connections"
  <2>1. SUFFICES ASSUME NEW i \in Instances
                 PROVE  /\ conn'[i] <= Cardinality(HoldersIn(handler', i)) + lost'[i]
                        /\ i \notin zeroed =>
                             conn'[i] = Cardinality(HoldersIn(handler', i)) + lost'[i]
    BY <1>3 DEF Counts
  <2> DEFINE n == Cardinality(HoldersIn(handler, i))
             m == Cardinality(HoldersIn(handler', i))
             b == Ind(Holds(handler[h], i))
             c == Ind(Holds(handler'[h], i))
  <2>2. n \in Nat /\ m = (n - b) + c /\ (Holds(handler[h], i) => n >= 1)
    BY <1>1, OneHandlerMoves DEF Moves, Ind
  <2>3. /\ conn[i] \in Nat /\ lost[i] \in Nat /\ conn'[i] \in Nat /\ lost'[i] \in Nat
        /\ b \in {0, 1} /\ c \in {0, 1}
    BY DEF Parts, Ind
  <2>4. conn[i] <= n + lost[i] /\ (i \notin zeroed => conn[i] = n + lost[i])
    BY <1>3 DEF Counts
  <2>5. CASE conn'[i] + lost[i] + b = conn[i] + lost'[i] + c
    <3> HIDE DEF n, m, b, c
    <3>1. conn'[i] <= m + lost'[i] /\ (i \notin zeroed => conn'[i] = m + lost'[i])
      BY <2>2, <2>3, <2>4, <2>5
    <3> QED BY <3>1 DEF m
  <2>6. CASE /\ conn[i] = 0 /\ conn'[i] = 0 /\ lost'[i] = lost[i]
             /\ Holds(handler[h], i) /\ ~Holds(handler'[h], i)
    <3>1. b = 1 /\ c = 0 /\ n >= 1
      BY <2>2, <2>6 DEF Ind
    <3> HIDE DEF n, m, b, c
    <3>2. conn'[i] <= m + lost'[i] /\ i \in zeroed
      BY <2>2, <2>3, <2>4, <2>6, <3>1
    <3> QED BY <3>2 DEF m
  <2> QED BY <1>3, <2>5, <2>6
<1> QED BY <1>2, <1>3

-----------------------------------------------------------------------------
(* Every action keeps the invariant.                                       *)

LEMMA HandlerIs ==
  ASSUME HandlersFit, NEW h \in Handlers
  PROVE  /\ handler[h] \in Handler /\ Fits(handler[h], algorithm)
         /\ handler[h].left \in 0 .. InstanceCount /\ handler[h].left \in Int
         /\ handler[h].inst \in Instances \cup {None} /\ handler[h].pc \in Pcs
         /\ handler[h].snap \in SUBSET Instances /\ handler[h].caller \in {"proxy", "auth"}
BY CountAssumption DEF HandlersFit, Handler, Pcs

\* The requests started stand for the same draws, or for those of one request more.
LEMMA Spent ==
  ASSUME Parts
  PROVE  /\ started \in Nat /\ InstanceCount \in Nat
         /\ started' = started => started' * InstanceCount = started * InstanceCount + 0
         /\ started' = started + 1 =>
              started' * InstanceCount = started * InstanceCount + InstanceCount
<1>1. started \in Nat /\ InstanceCount \in Nat
  BY CountAssumption, RequestsAssumption DEF Parts
<1>2. (started + 1) * InstanceCount = started * InstanceCount + InstanceCount
  BY <1>1
<1>3. started * InstanceCount = started * InstanceCount + 0
  BY <1>1
<1> QED BY <1>1, <1>2, <1>3

LEMMA BeginKeepsInv ==
  ASSUME IInv, NEW h \in Handlers, NEW c \in {"proxy", "auth"}, Begin(h, c)
  PROVE  IInv'
<1> DEFINE r == [pc |-> IF algorithm = "consistent_hash" /\ c = "proxy" THEN "key" ELSE "next",
                 caller |-> c, inst |-> None, left |-> Cardinality(alive),
                 snap |-> {}]
<1>1. Parts /\ HandlersFit /\ Budget /\ Counts
  BY DEF IInv
<1>2. /\ handler[h].pc = "idle" /\ started < MaxRequests /\ started' = started + 1
      /\ algorithm' = algorithm /\ alive' = alive /\ cursor' = cursor
      /\ conn' = conn /\ ring' = ring
      /\ healthy' = healthy /\ hook' = hook
      /\ picks' = picks /\ late' = late /\ misses' = misses /\ lost' = lost /\ zeroed' = zeroed
  BY DEF Begin, At, balancer, observers
<1>3. Parts'
  <2>1. started' \in 0 .. MaxRequests
    BY <1>1, <1>2, RequestsAssumption DEF Parts
  <2> QED BY <1>1, <1>2, <2>1 DEF Parts, RingsFor
<1>4. PICK k \in Handler : /\ Step(h, k) /\ Fits(k, algorithm) /\ k.inst = None
                           /\ k.pc \in {"idle", "key", "next"} /\ Tries(k) \in 0 .. InstanceCount
  <2>1. CASE alive = {}
    <3>1. Step(h, Idle)
      BY <2>1 DEF Begin, Fail
    <3> QED BY <3>1, IdleIs, CountAssumption DEF Fits, Tries
  <2>2. CASE alive # {}
    <3>1. Step(h, r)
      BY <2>2 DEF Begin
    <3>2. Cardinality(alive) \in 0 .. InstanceCount /\ Cardinality(alive) >= 1
      BY <1>1, <2>2, FiniteInstances DEF Parts
    <3>3. /\ r \in Handler /\ r.inst = None /\ r.pc \in {"key", "next"}
          /\ r.left = Cardinality(alive)
          /\ (r.pc = "key" => algorithm = "consistent_hash")
      BY <3>2, IdleIs DEF Handler
    <3> HIDE DEF r
    <3> QED BY <3>1, <3>2, <3>3 DEF Fits, Tries
  <2> QED BY <2>1, <2>2
<1>5. Moves(h) /\ handler'[h] = k
  BY <1>1, <1>2, <1>4, StepMoves
<1>6. Tries(handler[h]) = 0 /\ \A i : ~Holds(handler[h], i) /\ ~Holds(handler'[h], i)
  BY <1>2, <1>4, <1>5 DEF Tries, Holds
<1>7. /\ InstanceCount \in Nat
      /\ started' * InstanceCount = started * InstanceCount + InstanceCount
  BY <1>1, <1>2, Spent
<1>8. Budget'
  BY <1>1, <1>2, <1>4, <1>5, <1>6, <1>7, BudgetKept DEF Ind, Parts
<1>9. Counts'
  BY <1>1, <1>2, <1>5, <1>6, CountsKept DEF Ind, Parts
<1> QED BY <1>3, <1>5, <1>8, <1>9 DEF IInv, Moves, HandlersFit

\* Steps that change nothing but the handler, and neither draw nor lose a pick.
LEMMA LocalStepKeepsInv ==
  ASSUME IInv, NEW h \in Handlers, NEW k \in Handler, Step(h, k), Fits(k, algorithm),
         UNCHANGED <<balancer, healthy, hook, started, observers>>,
         Tries(k) + Ind(\E i \in Instances : Holds(k, i) /\ ~Holds(handler[h], i))
           <= Tries(handler[h]),
         algorithm = "least_connections" =>
           \A i \in Instances : Holds(k, i) <=> Holds(handler[h], i)
  PROVE  IInv'
<1>1. Parts /\ HandlersFit /\ Budget /\ Counts
  BY DEF IInv
<1>2. /\ algorithm' = algorithm /\ alive' = alive /\ cursor' = cursor
      /\ conn' = conn /\ ring' = ring
      /\ healthy' = healthy /\ hook' = hook /\ started' = started
      /\ picks' = picks /\ late' = late /\ misses' = misses /\ lost' = lost /\ zeroed' = zeroed
  BY DEF balancer, observers
<1>3. Parts'
  BY <1>1, <1>2 DEF Parts, RingsFor
<1>4. Moves(h) /\ handler'[h] = k
  BY <1>1, <1>2, StepMoves
<1>5. started' * InstanceCount = started * InstanceCount + 0
  BY <1>1, <1>2, Spent
<1>6. ASSUME NEW i \in Instances
      PROVE  /\ lost'[i] \in Nat /\ picks'[i] \in Nat
             /\ lost'[i] + Ind(Holds(handler'[h], i)) + Tries(handler'[h])
                  <= lost[i] + Ind(Holds(handler[h], i)) + Tries(handler[h]) + 0
             /\ picks'[i] + Tries(handler'[h]) <= picks[i] + Tries(handler[h]) + 0
  <2> DEFINE new == Ind(\E j \in Instances : Holds(k, j) /\ ~Holds(handler[h], j))
             s == Tries(handler[h])
             t == Tries(k)
             b == Ind(Holds(handler[h], i))
             c == Ind(Holds(k, i))
  <2>1. lost[i] \in Nat /\ picks[i] \in Nat /\ s \in Int /\ t \in Int
    BY <1>1, TriesIs DEF Parts, HandlersFit
  <2>2. new \in {0, 1} /\ b \in {0, 1} /\ c \in {0, 1} /\ c <= b + new
    BY DEF Ind
  <2>3. t + new <= s
    OBVIOUS
  <2>4. lost[i] + c + t <= lost[i] + b + s + 0 /\ picks[i] + t <= picks[i] + s + 0
    <3> HIDE DEF new, s, t, b, c
    <3> QED BY <2>1, <2>2, <2>3
  <2> QED BY <1>2, <1>4, <2>1, <2>4
<1>7. Budget'
  BY <1>1, <1>4, <1>5, <1>6, BudgetKept
<1>8. Counts'
  <2>1. \A i \in Instances : lost'[i] \in Nat /\ conn'[i] \in Nat
    BY <1>1, <1>2 DEF Parts
  <2>2. algorithm = "least_connections" => \A i \in Instances :
          conn'[i] + lost[i] + Ind(Holds(handler[h], i))
            = conn[i] + lost'[i] + Ind(Holds(handler'[h], i))
    BY <1>2, <1>4 DEF Ind
  <2> QED BY <1>1, <1>2, <1>4, <2>1, <2>2, CountsKept
<1> QED BY <1>3, <1>4, <1>7, <1>8 DEF IInv, Moves, HandlersFit

LEMMA GetInstanceByKeyKeepsInv ==
  ASSUME IInv, NEW h \in Handlers, NEW hash \in Hashes, GetInstanceByKey(h, hash)
  PROVE  IInv'
<1> DEFINE g == handler[h]
<1>1. /\ g \in Handler /\ Fits(g, algorithm) /\ g.pc = "key" /\ alive \in SUBSET Instances
      /\ g.inst \in Instances \cup {None} /\ 0 \in 0 .. InstanceCount
  BY HandlerIs, CountAssumption DEF IInv, Parts, GetInstanceByKey, At
<1>2. algorithm = "consistent_hash" /\ g.left >= 1
  BY <1>1 DEF Fits
<1>3. CASE alive = {}
  <2> DEFINE k == [g EXCEPT !.pc = "next"]
  <2>1. k \in Handler /\ k.pc = "next" /\ k.left = g.left
    BY <1>1 DEF Handler
  <2>2. Step(h, k)
    BY <1>3 DEF GetInstanceByKey
  <2>3. Fits(k, algorithm) /\ Tries(k) = g.left /\ \A i : ~Holds(k, i)
    <3> HIDE DEF k
    <3> QED BY <1>2, <2>1 DEF Fits, Tries, Holds
  <2>4. Tries(g) = g.left /\ g.left \in Int
    BY <1>1, HandlerIs DEF Tries, IInv
  <2> HIDE DEF k
  <2> QED BY <1>2, <2>1, <2>2, <2>3, <2>4, LocalStepKeepsInv DEF Ind, GetInstanceByKey
<1>4. CASE alive # {}
  <2> DEFINE i == PickFromRing(ring, hash)
             k == Offered(h, i, "checkKey")
  <2>1. i \in Instances
    BY <1>1, <1>2, <1>4, PickFromRingIs DEF IInv, Parts, RingsFor
  <2>2. k \in Handler /\ k.pc = "checkKey" /\ k.inst = i /\ k.left = g.left
    <3> HIDE DEF i
    <3> QED BY <1>1, <2>1 DEF Offered, Handler
  <2>3. Step(h, k)
    BY <1>4 DEF GetInstanceByKey, Offer
  <2>4. Fits(k, algorithm) /\ Tries(k) = g.left /\ \A j : ~Holds(k, j)
    <3> HIDE DEF k, i
    <3> QED BY <1>2, <2>1, <2>2 DEF Fits, Tries, Holds
  <2>5. Tries(g) = g.left /\ g.left \in Int
    BY <1>1, HandlerIs DEF Tries, IInv
  <2> HIDE DEF k
  <2> QED BY <1>2, <2>2, <2>3, <2>4, <2>5, LocalStepKeepsInv DEF Ind, GetInstanceByKey
<1> QED BY <1>3, <1>4

\* The record of a handler that serves, and of one that validates.
LEMMA DoneRecords ==
  ASSUME NEW i \in Instances \cup {None}
  PROVE  /\ LET k == [Idle EXCEPT !.pc = "serving", !.inst = i]
            IN k \in Handler /\ k.pc = "serving" /\ k.inst = i /\ Tries(k) = 0
               /\ \A j : Holds(k, j) <=> i = j
         /\ LET k == [Idle EXCEPT !.pc = "validating"]
            IN k \in Handler /\ k.pc = "validating" /\ Tries(k) = 0 /\ \A j : ~Holds(k, j)
         /\ Tries(Idle) = 0 /\ \A j : ~Holds(Idle, j)
         /\ \A a : Fits(Idle, a) /\ Fits([Idle EXCEPT !.pc = "validating"], a)
<1>1. "serving" \in Pcs /\ "validating" \in Pcs /\ 0 \in 0 .. InstanceCount
  BY CountAssumption DEF Pcs
<1>2. LET k == [Idle EXCEPT !.pc = "serving", !.inst = i]
      IN k \in Handler /\ k.pc = "serving" /\ k.inst = i
  BY IdleIs DEF Handler
<1>3. LET k == [Idle EXCEPT !.pc = "validating"]
      IN k \in Handler /\ k.pc = "validating"
  BY IdleIs DEF Handler
<1>4. Fits(Idle, algorithm) /\ Tries(Idle) = 0 /\ \A j : ~Holds(Idle, j)
  BY IdleIs DEF Fits, Tries, Holds
<1>5. \A a : Fits(Idle, a) /\ Fits([Idle EXCEPT !.pc = "validating"], a)
  BY <1>3, IdleIs DEF Fits
<1> QED BY <1>2, <1>3, <1>4, <1>5 DEF Tries, Holds

LEMMA CheckKeyKeepsInv ==
  ASSUME IInv, NEW h \in Handlers, CheckKey(h)
  PROVE  IInv'
<1> DEFINE g == handler[h]
<1>1. /\ g \in Handler /\ Fits(g, algorithm) /\ g.pc = "checkKey" /\ g.left \in Int
      /\ None \in Instances \cup {None} /\ 0 \in 0 .. InstanceCount
  BY HandlerIs, CountAssumption DEF IInv, CheckKey, At
<1>2. /\ algorithm = "consistent_hash" /\ g.left >= 1 /\ g.inst \in Instances
      /\ Tries(g) = g.left
  BY <1>1 DEF Fits, Tries
<1>3. CASE g.inst \in healthy
  <2> DEFINE k == [Idle EXCEPT !.pc = "serving", !.inst = g.inst]
  <2>1. k \in Handler /\ k.pc = "serving" /\ k.inst = g.inst /\ Tries(k) = 0
    BY <1>2, DoneRecords
  <2>2. Step(h, k)
    BY <1>3 DEF CheckKey, Serve
  <2> HIDE DEF k
  <2>3. Fits(k, algorithm)
    BY <1>2, <2>1 DEF Fits
  <2> QED BY <1>2, <1>1, <2>1, <2>2, <2>3, LocalStepKeepsInv DEF Ind, CheckKey
<1>4. CASE g.inst \notin healthy
  <2> DEFINE k == [g EXCEPT !.pc = "next", !.inst = None]
  <2>1. k \in Handler /\ k.pc = "next" /\ k.inst = None /\ k.left = g.left
    BY <1>1 DEF Handler
  <2>2. Step(h, k)
    BY <1>4 DEF CheckKey
  <2> HIDE DEF k
  <2>3. Fits(k, algorithm) /\ Tries(k) = g.left /\ \A i : ~Holds(k, i)
    BY <1>2, <2>1 DEF Fits, Tries, Holds
  <2> QED BY <1>1, <1>2, <2>1, <2>2, <2>3, LocalStepKeepsInv DEF Ind, CheckKey
<1> QED BY <1>3, <1>4

LEMMA EndingKeepsInv ==
  ASSUME IInv, NEW h \in Handlers, NextNone(h) \/ FinishValidate(h)
  PROVE  IInv'
<1>1. /\ Step(h, Idle) /\ UNCHANGED <<balancer, healthy, hook, started, observers>>
      /\ handler[h].pc \in {"next", "validating"}
  BY DEF NextNone, FinishValidate, Fail, At
<1>2. handler[h].left \in Nat
  BY HandlerIs, CountAssumption DEF IInv
<1>3. Tries(handler[h]) \in Nat /\ \A i : ~Holds(handler[h], i)
  BY <1>1, <1>2 DEF Tries, Holds
<1>4. Idle \in Handler /\ Fits(Idle, algorithm) /\ Tries(Idle) = 0 /\ \A i : ~Holds(Idle, i)
  BY IdleIs, DoneRecords
<1> QED BY <1>1, <1>3, <1>4, LocalStepKeepsInv DEF Ind

LEMMA SnapshotWeightedKeepsInv ==
  ASSUME IInv, NEW h \in Handlers, SnapshotWeighted(h)
  PROVE  IInv'
<1> DEFINE g == handler[h]
           k == [g EXCEPT !.pc = "count", !.snap = alive]
<1>1. /\ g \in Handler /\ Fits(g, algorithm) /\ g.pc = "next" /\ g.left \in Int
      /\ alive \in SUBSET Instances /\ alive # {} /\ algorithm = "weighted_round_robin"
      /\ None \in Instances \cup {None} /\ 0 \in 0 .. InstanceCount
  BY HandlerIs, CountAssumption DEF IInv, Parts, SnapshotWeighted, At
<1>2. g.left >= 1 /\ Tries(g) = g.left
  BY <1>1 DEF Fits, Tries
<1>3. k \in Handler /\ k.pc = "count" /\ k.left = g.left /\ k.snap = alive
  BY <1>1 DEF Handler
<1>4. Step(h, k)
  BY DEF SnapshotWeighted
<1> HIDE DEF k
<1>5. Fits(k, algorithm) /\ Tries(k) = g.left /\ \A i : ~Holds(k, i)
  BY <1>1, <1>2, <1>3 DEF Fits, Tries, Holds
<1> QED BY <1>1, <1>2, <1>3, <1>4, <1>5, LocalStepKeepsInv DEF Ind, SnapshotWeighted

LEMMA NextByCounterKeepsInv ==
  ASSUME IInv, NEW h \in Handlers, NEW hash \in Hashes, NextByCounter(h, hash)
  PROVE  IInv'
<1> DEFINE g == handler[h]
           i == PickFromRing(ring, hash)
           k == Offered(h, i, "check")
<1>1. /\ g \in Handler /\ Fits(g, algorithm) /\ g.pc = "next" /\ g.left \in Int
      /\ alive \in SUBSET Instances /\ alive # {} /\ algorithm = "consistent_hash"
      /\ 0 \in 0 .. InstanceCount
  BY HandlerIs, CountAssumption DEF IInv, Parts, NextByCounter, At
<1>2. g.left >= 1 /\ Tries(g) = g.left
  BY <1>1 DEF Fits, Tries
<1>3. i \in Instances
  BY <1>1, PickFromRingIs DEF IInv, Parts, RingsFor
<1>4. Step(h, k)
  BY DEF NextByCounter, Offer
<1> HIDE DEF i
<1>5. k \in Handler /\ k.pc = "check" /\ k.inst = i /\ k.left = g.left
  BY <1>1, <1>3 DEF Offered, Handler
<1> HIDE DEF k
<1>6. Fits(k, algorithm) /\ Tries(k) = g.left - 1
  BY <1>1, <1>2, <1>3, <1>5 DEF Fits, Tries
<1>7. Tries(k) + Ind(\E j \in Instances : Holds(k, j) /\ ~Holds(handler[h], j)) <= Tries(handler[h])
  BY <1>1, <1>2, <1>6 DEF Ind
<1> QED BY <1>1, <1>4, <1>5, <1>6, <1>7, LocalStepKeepsInv DEF NextByCounter

\* Steps that give up the instance picked, without releasing it.
LEMMA LosingStepKeepsInv ==
  ASSUME IInv, NEW h \in Handlers, NEW k \in Handler, Step(h, k), Fits(k, algorithm),
         handler[h].pc = "check", Lose(handler[h].inst),
         UNCHANGED <<balancer, healthy, hook, started, picks, late, misses, zeroed>>,
         \A i : ~Holds(k, i), Tries(k) <= Tries(handler[h])
  PROVE  IInv'
<1> DEFINE i == handler[h].inst
<1>1. Parts /\ HandlersFit /\ Budget /\ Counts
  BY DEF IInv
<1>2. /\ algorithm' = algorithm /\ alive' = alive /\ cursor' = cursor
      /\ conn' = conn /\ ring' = ring
      /\ healthy' = healthy /\ hook' = hook /\ started' = started
      /\ picks' = picks /\ late' = late /\ misses' = misses /\ zeroed' = zeroed
  BY DEF balancer
<1>3. i \in Instances
  BY <1>1, HandlerIs DEF Fits
<1>4. /\ lost' \in [Instances -> Nat]
      /\ algorithm # "least_connections" => lost' = lost
      /\ algorithm = "least_connections" =>
           \A j \in Instances : lost'[j] = IF j = i THEN lost[j] + 1 ELSE lost[j]
  BY <1>1, <1>3 DEF Lose, Parts
<1>5. Parts'
  BY <1>1, <1>2, <1>4 DEF Parts, RingsFor
<1>6. Moves(h) /\ handler'[h] = k
  BY <1>1, <1>2, StepMoves
<1>7. started' * InstanceCount = started * InstanceCount + 0
  BY <1>1, <1>2, Spent
<1>8. \A j : Holds(handler[h], j) <=> j = i
  BY DEF Holds
<1>9. Tries(k) \in Int /\ Tries(handler[h]) \in Int
  BY <1>1, TriesIs DEF HandlersFit
<1>10. \A j \in Instances :
         /\ lost'[j] \in Nat /\ lost[j] \in Nat /\ picks[j] \in Nat /\ conn[j] \in Nat
         /\ lost'[j] <= lost[j] + Ind(Holds(handler[h], j))
         /\ algorithm = "least_connections" => lost'[j] = lost[j] + Ind(Holds(handler[h], j))
         /\ Ind(Holds(handler[h], j)) \in {0, 1} /\ Ind(Holds(k, j)) = 0
  BY <1>1, <1>4, <1>8 DEF Ind, Parts
<1> HIDE DEF i
<1>11. ASSUME NEW j \in Instances
       PROVE  /\ lost'[j] \in Nat /\ picks'[j] \in Nat
              /\ lost'[j] + Ind(Holds(handler'[h], j)) + Tries(handler'[h])
                   <= lost[j] + Ind(Holds(handler[h], j)) + Tries(handler[h]) + 0
              /\ picks'[j] + Tries(handler'[h]) <= picks[j] + Tries(handler[h]) + 0
  <2> DEFINE s == Tries(handler[h])
             t == Tries(k)
             b == Ind(Holds(handler[h], j))
             c == Ind(Holds(k, j))
  <2>1. /\ lost'[j] \in Nat /\ lost[j] \in Nat /\ picks[j] \in Nat /\ c = 0
        /\ b \in {0, 1} /\ lost'[j] <= lost[j] + b /\ t <= s /\ s \in Int /\ t \in Int
    BY <1>9, <1>10
  <2>2. lost'[j] + c + t <= lost[j] + b + s + 0 /\ picks[j] + t <= picks[j] + s + 0
    <3> HIDE DEF s, t, b, c
    <3> QED BY <2>1
  <2> QED BY <1>2, <1>6, <2>1, <2>2
<1>12. Budget'
  BY <1>1, <1>6, <1>7, <1>11, BudgetKept
<1>13. Counts'
  <2>1. algorithm = "least_connections" => \A j \in Instances :
          conn'[j] + lost[j] + Ind(Holds(handler[h], j))
            = conn[j] + lost'[j] + Ind(Holds(handler'[h], j))
    <3>1. SUFFICES ASSUME algorithm = "least_connections", NEW j \in Instances
                   PROVE  conn'[j] + lost[j] + Ind(Holds(handler[h], j))
                            = conn[j] + lost'[j] + Ind(Holds(handler'[h], j))
      OBVIOUS
    <3> DEFINE b == Ind(Holds(handler[h], j))
               c == Ind(Holds(k, j))
    <3>2. /\ lost'[j] \in Nat /\ lost[j] \in Nat /\ conn[j] \in Nat /\ c = 0
          /\ b \in {0, 1} /\ lost'[j] = lost[j] + b
      BY <1>10, <3>1
    <3>3. conn[j] + lost[j] + b = conn[j] + lost'[j] + c
      <4> HIDE DEF b, c
      <4> QED BY <3>2
    <3> QED BY <1>2, <1>6, <3>3
  <2>2. \A j \in Instances : lost'[j] \in Nat /\ conn'[j] \in Nat
    BY <1>2, <1>10
  <2> QED BY <1>1, <1>2, <1>6, <2>1, <2>2, CountsKept
<1> QED BY <1>5, <1>6, <1>12, <1>13 DEF IInv, Moves, HandlersFit

LEMMA AcceptKeepsInv ==
  ASSUME IInv, NEW h \in Handlers, Accept(h)
  PROVE  IInv'
<1> DEFINE g == handler[h]
<1>1. /\ g \in Handler /\ Fits(g, algorithm) /\ g.pc = "check" /\ g.left \in Int
      /\ UNCHANGED <<balancer, healthy, hook, started, picks, late, misses, zeroed>>
  BY HandlerIs DEF IInv, Accept, At
<1>2. /\ g.inst \in Instances /\ g.left >= 1 /\ Tries(g) = g.left - 1
      /\ \A i : Holds(g, i) <=> g.inst = i
  BY <1>1 DEF Fits, Tries, Holds
<1>3. CASE g.caller = "proxy"
  <2> DEFINE k == [Idle EXCEPT !.pc = "serving", !.inst = g.inst]
  <2>1. /\ k \in Handler /\ k.pc = "serving" /\ k.inst = g.inst /\ Tries(k) = 0
        /\ \A i : Holds(k, i) <=> g.inst = i
    BY <1>2, DoneRecords
  <2>2. Step(h, k) /\ lost' = lost
    BY <1>3 DEF Accept, Serve
  <2> HIDE DEF k
  <2>3. Fits(k, algorithm)
    BY <1>2, <2>1 DEF Fits
  <2>4. UNCHANGED <<balancer, healthy, hook, started, observers>>
    BY <1>1, <2>2 DEF observers
  <2>5. Tries(k) + Ind(\E i \in Instances : Holds(k, i) /\ ~Holds(handler[h], i)) <= Tries(handler[h])
    BY <1>1, <1>2, <2>1 DEF Ind
  <2> QED BY <1>2, <2>1, <2>2, <2>3, <2>4, <2>5, LocalStepKeepsInv
<1>4. CASE g.caller # "proxy"
  <2> DEFINE k == [Idle EXCEPT !.pc = "validating"]
  <2>1. k \in Handler /\ Tries(k) = 0 /\ (\A i : ~Holds(k, i)) /\ Fits(k, algorithm)
    BY <1>2, DoneRecords
  <2>2. Step(h, k) /\ Lose(g.inst)
    BY <1>4 DEF Accept, Validate
  <2> HIDE DEF k
  <2>3. Tries(k) <= Tries(handler[h])
    BY <1>1, <1>2, <2>1
  <2> QED BY <1>1, <2>1, <2>2, <2>3, LosingStepKeepsInv
<1> QED BY <1>3, <1>4

LEMMA RetryKeepsInv ==
  ASSUME IInv, NEW h \in Handlers, Retry(h)
  PROVE  IInv'
<1> DEFINE g == handler[h]
           l == g.left - 1
           k == [g EXCEPT !.pc = "next", !.inst = None, !.left = l]
<1>1. /\ g \in Handler /\ Fits(g, algorithm) /\ g.pc = "check" /\ g.left \in 0 .. InstanceCount
      /\ UNCHANGED <<balancer, healthy, hook, started, picks, late, misses, zeroed>>
      /\ g.left > 1 /\ Lose(g.inst)
  BY HandlerIs DEF IInv, Retry, At
<1>2. /\ l \in 0 .. InstanceCount /\ l >= 1 /\ Tries(g) = l /\ l \in Int
      /\ "next" \in Pcs
  BY <1>1, CountAssumption DEF Fits, Tries, Pcs
<1>3. Step(h, k)
  BY DEF Retry
<1> HIDE DEF l
<1>4. k \in Handler /\ k.pc = "next" /\ k.inst = None /\ k.left = l
  BY <1>1, <1>2, IdleIs DEF Handler
<1> HIDE DEF k
<1>5. Fits(k, algorithm) /\ Tries(k) = l /\ (\A i : ~Holds(k, i)) /\ Tries(k) <= Tries(g)
  BY <1>2, <1>4 DEF Fits, Tries, Holds
<1> QED BY <1>1, <1>3, <1>4, <1>5, LosingStepKeepsInv

LEMMA ExhaustKeepsInv ==
  ASSUME IInv, NEW h \in Handlers, Exhaust(h)
  PROVE  IInv'
<1> DEFINE g == handler[h]
<1>1. /\ g \in Handler /\ Fits(g, algorithm) /\ g.pc = "check" /\ g.left = 1
      /\ UNCHANGED <<balancer, healthy, hook, started, picks, late, misses, zeroed>>
      /\ Lose(g.inst)
  BY HandlerIs DEF IInv, Exhaust, At
<1>2. Tries(g) = 0
  BY <1>1 DEF Tries
<1>3. PICK k \in Handler : Step(h, k) /\ Fits(k, algorithm) /\ Tries(k) = 0 /\ \A i : ~Holds(k, i)
  BY IdleIs, DoneRecords DEF Exhaust, Fail, Validate
<1> QED BY <1>1, <1>2, <1>3, LosingStepKeepsInv

LEMMA AdvancedIs ==
  ASSUME Parts
  PROVE  Advanced \in 0 .. CursorModulus - 1
<1>1. cursor + 1 \in Int /\ CursorModulus \in Nat \ {0}
  BY CursorAssumption DEF Parts
<1> QED BY <1>1, Division DEF Advanced

LEMMA CountPickIs ==
  ASSUME Parts, NEW i \in Instances, CountPick(i) \/ CountLatePick
  PROVE  /\ picks' \in [Instances -> Nat] /\ late' \in Nat /\ misses' \in Nat
         /\ \A j \in Instances : picks'[j] <= picks[j] + 1
BY DEF Parts, CountPick, CountLatePick

\* Steps that draw a number, where connections are not counted.
LEMMA DrawingStepKeepsInv ==
  ASSUME IInv, NEW h \in Handlers, NEW i \in Instances, Moves(h),
         handler[h].pc \in {"next", "count"}, handler'[h].pc = "check", handler'[h].inst = i,
         handler'[h].left = handler[h].left, algorithm # "least_connections",
         UNCHANGED <<algorithm, alive, conn, ring, healthy, hook, started, lost, zeroed>>,
         cursor' \in 0 .. CursorModulus - 1,
         picks' \in [Instances -> Nat], late' \in Nat, misses' \in Nat,
         \A j \in Instances : picks'[j] <= picks[j] + 1
  PROVE  IInv'
<1>1. Parts /\ HandlersFit /\ Budget /\ Counts
  BY DEF IInv
<1>2. Parts'
  BY <1>1 DEF Parts, RingsFor
<1>3. handler[h].left \in Int
  BY <1>1, HandlerIs
<1>4. /\ Tries(handler[h]) = handler[h].left /\ Tries(handler'[h]) = handler[h].left - 1
      /\ \A j : Ind(Holds(handler[h], j)) = 0 /\ Ind(Holds(handler'[h], j)) \in {0, 1}
  BY DEF Tries, Holds, Ind
<1>5. started' * InstanceCount = started * InstanceCount + 0
  BY <1>1, Spent
<1>6. ASSUME NEW j \in Instances
      PROVE  /\ lost'[j] \in Nat /\ picks'[j] \in Nat
             /\ lost'[j] + Ind(Holds(handler'[h], j)) + Tries(handler'[h])
                  <= lost[j] + Ind(Holds(handler[h], j)) + Tries(handler[h]) + 0
             /\ picks'[j] + Tries(handler'[h]) <= picks[j] + Tries(handler[h]) + 0
  <2> DEFINE c == Ind(Holds(handler'[h], j))
             l == handler[h].left
  <2>1. /\ lost'[j] = lost[j] /\ lost[j] \in Nat /\ picks[j] \in Nat /\ picks'[j] \in Nat
        /\ c \in {0, 1} /\ l \in Int /\ picks'[j] <= picks[j] + 1
    BY <1>1, <1>3, <1>4 DEF Parts
  <2>2. lost[j] + c + (l - 1) <= lost[j] + 0 + l + 0 /\ picks'[j] + (l - 1) <= picks[j] + l + 0
    <3> HIDE DEF c, l
    <3> QED BY <2>1
  <2> QED BY <1>4, <2>1, <2>2
<1>7. Budget'
  BY <1>1, <1>5, <1>6, BudgetKept
<1>8. Counts'
  BY <1>1 DEF Counts
<1> QED BY <1>2, <1>7, <1>8 DEF IInv, Moves, HandlersFit

LEMMA NextRoundRobinKeepsInv ==
  ASSUME IInv, NEW h \in Handlers, NextRoundRobin(h)
  PROVE  IInv'
<1> DEFINE g == handler[h]
           i == RoundRobin(alive, cursor)
           k == Offered(h, i, "check")
<1>1. /\ g \in Handler /\ Fits(g, algorithm) /\ g.pc = "next" /\ Parts /\ HandlersFit
      /\ algorithm = "round_robin" /\ cursor' = Advanced /\ CountPick(i)
      /\ UNCHANGED <<algorithm, alive, conn, ring, healthy, hook, started, lost, zeroed>>
      /\ Step(h, k)
  BY HandlerIs DEF IInv, NextRoundRobin, Offer, At
<1>2. i \in Instances
  <2>1. alive \in SUBSET Instances /\ alive # {} /\ cursor \in Int
    BY <1>1, CursorAssumption DEF Parts, NextRoundRobin
  <2> QED BY <2>1, RoundRobinIs
<1>3. cursor' \in 0 .. CursorModulus - 1
  BY <1>1, AdvancedIs
<1>4. /\ picks' \in [Instances -> Nat] /\ late' \in Nat /\ misses' \in Nat
      /\ \A j \in Instances : picks'[j] <= picks[j] + 1
  BY <1>1, <1>2, CountPickIs
<1> HIDE DEF i
<1>5. k \in Handler /\ k.pc = "check" /\ k.inst = i /\ k.left = g.left
  BY <1>1, <1>2 DEF Offered, Handler
<1>6. Fits(k, algorithm)
  BY <1>1, <1>2, <1>5 DEF Fits
<1> HIDE DEF k
<1>7. Moves(h) /\ handler'[h] = k
  BY <1>1, <1>5, <1>6, StepMoves
<1> QED BY <1>1, <1>2, <1>3, <1>4, <1>5, <1>7, DrawingStepKeepsInv

LEMMA NextWeightedKeepsInv ==
  ASSUME IInv, NEW h \in Handlers, NextWeighted(h)
  PROVE  IInv'
<1> DEFINE g == handler[h]
           i == WeightedRoundRobin(handler[h].snap, cursor)
           k == Offered(h, i, "check")
<1>1. /\ g \in Handler /\ Fits(g, algorithm) /\ g.pc = "count" /\ Parts /\ HandlersFit
      /\ cursor' = Advanced /\ Step(h, k)
      /\ UNCHANGED <<algorithm, alive, conn, ring, healthy, hook, started, lost, zeroed>>
      /\ CountPick(i) \/ CountLatePick
      /\ g.snap \in SUBSET Instances
  BY HandlerIs DEF IInv, NextWeighted, Offer, At
<1>2. i \in Instances /\ algorithm = "weighted_round_robin" /\ g.left >= 1
     
  <2>1. g.snap # {} /\ cursor \in Int
    BY <1>1, CursorAssumption DEF Parts, Fits
  <2> QED BY <1>1, <2>1, ChosenIsMember DEF Fits
<1>3. cursor' \in 0 .. CursorModulus - 1
  BY <1>1, AdvancedIs
<1> HIDE DEF i
<1>4. /\ picks' \in [Instances -> Nat] /\ late' \in Nat /\ misses' \in Nat
      /\ \A j \in Instances : picks'[j] <= picks[j] + 1
  BY <1>1, <1>2, CountPickIs
<1>5. k \in Handler /\ k.pc = "check" /\ k.inst = i /\ k.left = g.left
  BY <1>1, <1>2 DEF Offered, Handler
<1> HIDE DEF k
<1>6. Fits(k, algorithm)
  BY <1>2, <1>5 DEF Fits
<1>7. Moves(h) /\ handler'[h] = k
  BY <1>1, <1>5, <1>6, StepMoves
<1> QED BY <1>1, <1>2, <1>3, <1>4, <1>5, <1>7, DrawingStepKeepsInv

LEMMA NextLeastConnectionsKeepsInv ==
  ASSUME IInv, NEW h \in Handlers, NextLeastConnections(h)
  PROVE  IInv'
<1> DEFINE g == handler[h]
           i == LeastConnections(alive, conn)
           k == Offered(h, i, "check")
           l == g.left
<1>1. /\ g \in Handler /\ Fits(g, algorithm) /\ g.pc = "next" /\ l \in Int
      /\ Parts /\ HandlersFit /\ Budget /\ Counts
      /\ algorithm = "least_connections" /\ alive # {}
      /\ algorithm' = algorithm /\ alive' = alive /\ cursor' = cursor /\ healthy' = healthy
      /\ hook' = hook /\ started' = started /\ picks' = picks /\ late' = late
      /\ misses' = misses /\ lost' = lost /\ zeroed' = zeroed /\ ring' = ring
      /\ conn' = [conn EXCEPT ![i] = @ + 1] /\ Step(h, k)
  BY HandlerIs DEF IInv, NextLeastConnections, Offer, At, observers
<1>2. i \in Instances
  <2>1. alive \in SUBSET Instances /\ conn \in [Instances -> Nat]
    BY <1>1 DEF Parts
  <2> QED BY <1>1, <2>1, LeastConnectionsIs
<1> HIDE DEF i
<1>3. /\ conn' \in [Instances -> Nat] /\ conn \in [Instances -> Nat]
      /\ \A j \in Instances : conn'[j] = conn[j] + Ind(j = i)
  BY <1>1, <1>2 DEF Parts, Ind
<1>4. k \in Handler /\ k.pc = "check" /\ k.inst = i /\ k.left = l
  BY <1>1, <1>2 DEF Offered, Handler
<1> HIDE DEF k
<1>5. Fits(k, algorithm)
  BY <1>1, <1>2, <1>4 DEF Fits
<1>6. Moves(h) /\ handler'[h] = k
  BY <1>1, <1>4, <1>5, StepMoves
<1>7. Parts'
  BY <1>1, <1>3 DEF Parts, RingsFor
<1>8. /\ Tries(g) = l /\ Tries(k) = l - 1
      /\ \A j : Ind(Holds(g, j)) = 0 /\ Ind(Holds(k, j)) = Ind(j = i) /\ Ind(j = i) \in {0, 1}
  BY <1>1, <1>4 DEF Tries, Holds, Ind
<1>9. started' * InstanceCount = started * InstanceCount + 0
  BY <1>1, Spent
<1> HIDE DEF l
<1>10. ASSUME NEW j \in Instances
       PROVE  /\ lost'[j] \in Nat /\ picks'[j] \in Nat
              /\ lost'[j] + Ind(Holds(handler'[h], j)) + Tries(handler'[h])
                   <= lost[j] + Ind(Holds(handler[h], j)) + Tries(handler[h]) + 0
              /\ picks'[j] + Tries(handler'[h]) <= picks[j] + Tries(handler[h]) + 0
  <2> DEFINE c == Ind(j = i)
  <2>1. lost[j] \in Nat /\ picks[j] \in Nat /\ c \in {0, 1} /\ l \in Int
    BY <1>1, <1>8 DEF Parts
  <2>2. lost[j] + c + (l - 1) <= lost[j] + 0 + l + 0 /\ picks[j] + (l - 1) <= picks[j] + l + 0
    <3> HIDE DEF c
    <3> QED BY <2>1
  <2> QED BY <1>1, <1>6, <1>8, <2>1, <2>2
<1>11. Budget'
  BY <1>1, <1>6, <1>9, <1>10, BudgetKept
<1>12. Counts'
  <2>1. ASSUME NEW j \in Instances
        PROVE  conn'[j] + lost[j] + Ind(Holds(handler[h], j))
                 = conn[j] + lost'[j] + Ind(Holds(handler'[h], j))
    <3> DEFINE c == Ind(j = i)
    <3>1. conn[j] \in Nat /\ lost[j] \in Nat /\ c \in {0, 1} /\ conn'[j] = conn[j] + c
      BY <1>1, <1>3, <1>8 DEF Parts
    <3>2. (conn[j] + c) + lost[j] + 0 = conn[j] + lost[j] + c
      <4> HIDE DEF c
      <4> QED BY <3>1
    <3> QED BY <1>1, <1>6, <1>8, <3>1, <3>2
  <2>2. \A j \in Instances : lost'[j] \in Nat /\ conn'[j] \in Nat
    BY <1>1, <1>3 DEF Parts
  <2> QED BY <1>1, <1>6, <2>1, <2>2, CountsKept
<1> QED BY <1>6, <1>7, <1>11, <1>12 DEF IInv, Moves, HandlersFit

LEMMA FinishKeepsInv ==
  ASSUME IInv, NEW h \in Handlers, Finish(h)
  PROVE  IInv'
<1> DEFINE g == handler[h]
           i == g.inst
<1>1. /\ g \in Handler /\ Fits(g, algorithm) /\ g.pc = "serving"
      /\ Parts /\ HandlersFit /\ Budget /\ Counts
      /\ algorithm' = algorithm /\ alive' = alive /\ cursor' = cursor /\ healthy' = healthy
      /\ hook' = hook /\ started' = started /\ picks' = picks /\ late' = late
      /\ misses' = misses /\ lost' = lost /\ zeroed' = zeroed /\ ring' = ring
      /\ conn' = Release(i) /\ Step(h, Idle)
  BY HandlerIs DEF IInv, Finish, Fail, At, observers
<1>2. i \in Instances /\ Tries(g) = 0 /\ \A j : Holds(g, j) <=> j = i
  BY <1>1 DEF Fits, Tries, Holds
<1>3. /\ conn' \in [Instances -> Nat] /\ conn \in [Instances -> Nat]
      /\ algorithm # "least_connections" => conn' = conn
      /\ algorithm = "least_connections" => \A j \in Instances :
           conn'[j] = IF j = i THEN (IF conn[j] > 0 THEN conn[j] - 1 ELSE 0) ELSE conn[j]
  BY <1>1, <1>2 DEF Parts, Release
<1>4. Idle \in Handler /\ Fits(Idle, algorithm) /\ Tries(Idle) = 0 /\ \A j : ~Holds(Idle, j)
  BY <1>2, IdleIs, DoneRecords
<1>5. Moves(h) /\ handler'[h] = Idle
  BY <1>1, <1>4, StepMoves
<1>6. Parts'
  BY <1>1, <1>3 DEF Parts, RingsFor
<1>7. started' * InstanceCount = started * InstanceCount + 0
  BY <1>1, Spent
<1>8. ASSUME NEW j \in Instances
      PROVE  /\ lost'[j] \in Nat /\ picks'[j] \in Nat
             /\ lost'[j] + Ind(Holds(handler'[h], j)) + Tries(handler'[h])
                  <= lost[j] + Ind(Holds(handler[h], j)) + Tries(handler[h]) + 0
             /\ picks'[j] + Tries(handler'[h]) <= picks[j] + Tries(handler[h]) + 0
  <2> DEFINE b == Ind(Holds(handler[h], j))
  <2>1. lost[j] \in Nat /\ picks[j] \in Nat /\ b \in {0, 1}
    BY <1>1 DEF Parts, Ind
  <2>2. lost[j] + 0 + 0 <= lost[j] + b + 0 + 0 /\ picks[j] + 0 <= picks[j] + 0 + 0
    <3> HIDE DEF b
    <3> QED BY <2>1
  <2>3. Ind(Holds(handler'[h], j)) = 0
    BY <1>4, <1>5 DEF Ind
  <2> QED BY <1>1, <1>2, <1>4, <1>5, <2>1, <2>2, <2>3
<1>9. Budget'
  BY <1>1, <1>5, <1>7, <1>8, BudgetKept
<1>10. Counts'
  <2>1. ASSUME algorithm = "least_connections", NEW j \in Instances
        PROVE  \/ conn'[j] + lost[j] + Ind(Holds(handler[h], j))
                    = conn[j] + lost'[j] + Ind(Holds(handler'[h], j))
               \/ /\ conn[j] = 0 /\ conn'[j] = 0 /\ lost'[j] = lost[j]
                  /\ Holds(handler[h], j) /\ ~Holds(handler'[h], j)
    <3>1. conn[j] \in Nat /\ lost[j] \in Nat /\ lost'[j] = lost[j] /\ ~Holds(handler'[h], j)
          /\ Ind(Holds(handler'[h], j)) = 0
      BY <1>1, <1>4, <1>5 DEF Parts, Ind
    <3>2. CASE j = i
      <4>1. Holds(handler[h], j) /\ Ind(Holds(handler[h], j)) = 1
        BY <1>2, <3>2 DEF Ind
      <4>2. CASE conn[j] = 0
        <5>1. conn'[j] = 0
          BY <1>3, <2>1, <3>2, <4>2
        <5> QED BY <3>1, <4>1, <4>2, <5>1
      <4>3. CASE conn[j] # 0
        <5>1. conn'[j] = conn[j] - 1
          BY <1>3, <2>1, <3>1, <3>2, <4>3
        <5>2. (conn[j] - 1) + lost[j] + 1 = conn[j] + lost[j] + 0
          BY <3>1
        <5> QED BY <3>1, <4>1, <5>1, <5>2
      <4> QED BY <4>2, <4>3
    <3>3. CASE j # i
      <4>1. conn'[j] = conn[j] /\ Ind(Holds(handler[h], j)) = 0
        BY <1>2, <1>3, <2>1, <3>3 DEF Ind
      <4> QED BY <3>1, <4>1
    <3> QED BY <3>2, <3>3
  <2>2. \A j \in Instances : lost'[j] \in Nat /\ conn'[j] \in Nat
    BY <1>1, <1>3 DEF Parts
  <2> QED BY <1>1, <1>3, <1>5, <2>1, <2>2, CountsKept
<1> QED BY <1>5, <1>6, <1>9, <1>10 DEF IInv, Moves, HandlersFit

LEMMA StatusChangeKeepsInv ==
  ASSUME IInv, NEW i \in Instances, StatusChange(i)
  PROVE  IInv'
<1>1. /\ Parts /\ HandlersFit /\ Budget /\ Counts /\ handler' = handler
      /\ algorithm' = algorithm /\ alive' = alive /\ cursor' = cursor
      /\ conn' = conn /\ ring' = ring
      /\ started' = started /\ picks' = picks /\ late' = late /\ misses' = 0
      /\ lost' = lost /\ zeroed' = zeroed
      /\ healthy' \in SUBSET Instances
      /\ hook' \in [inst : Instances \cup {None}, up : BOOLEAN]
  BY DEF IInv, StatusChange, balancer, observers, Parts
<1>2. HandlersFit'
  BY <1>1 DEF HandlersFit
<1>3. Parts'
  BY <1>1 DEF Parts, RingsFor
<1>4. Budget' /\ Counts'
  BY <1>1, <1>2 DEF Budget, Counts
<1> QED BY <1>2, <1>3, <1>4 DEF IInv

LEMMA SetInstanceAliveKeepsInv ==
  ASSUME IInv, SetInstanceAlive
  PROVE  IInv'
<1> DEFINE i == hook.inst
<1>1. /\ Parts /\ HandlersFit /\ Budget /\ Counts /\ handler' = handler /\ i \in Instances
      /\ algorithm' = algorithm /\ cursor' = cursor /\ healthy' = healthy /\ started' = started
      /\ alive' = IF hook.up THEN alive \cup {i} ELSE alive \ {i}
      /\ hook' = [inst |-> None, up |-> FALSE]
      /\ IF alive' = alive THEN UNCHANGED <<picks, late, misses>>
         ELSE picks' = NoPicks /\ late' = 0 /\ misses' = 0
      /\ ring' \in RingsFor(alive')
  BY DEF IInv, SetInstanceAlive, Parts
<1>2. HandlersFit'
  BY <1>1 DEF HandlersFit
<1>3. Holders(i) = HoldersIn(handler, i)
  BY DEF Holders, HoldersIn, Holds
<1>4. /\ picks \in [Instances -> Nat] /\ picks' \in [Instances -> Nat]
      /\ \A j \in Instances : picks'[j] <= picks[j]
  BY <1>1 DEF Parts, NoPicks
<1>5. /\ conn \in [Instances -> Nat] /\ lost \in [Instances -> Nat] /\ zeroed \in SUBSET Instances
      /\ alive \in SUBSET Instances
  BY <1>1 DEF Parts
<1>6. \/ conn' = conn /\ lost' = lost /\ zeroed' = zeroed
      \/ /\ algorithm = "least_connections"
         /\ conn' = [conn EXCEPT ![i] = 0] /\ lost' = [lost EXCEPT ![i] = 0]
         /\ zeroed' = IF HoldersIn(handler, i) = {} THEN zeroed ELSE zeroed \cup {i}
  BY <1>3 DEF SetInstanceAlive
<1>7. /\ conn' \in [Instances -> Nat] /\ lost' \in [Instances -> Nat]
      /\ zeroed' \in SUBSET Instances /\ zeroed \subseteq zeroed'
      /\ \A j \in Instances : lost'[j] <= lost[j]
  <2>1. CASE conn' = conn /\ lost' = lost /\ zeroed' = zeroed
    BY <1>5, <2>1
  <2>2. CASE /\ conn' = [conn EXCEPT ![i] = 0] /\ lost' = [lost EXCEPT ![i] = 0]
             /\ zeroed' = IF HoldersIn(handler, i) = {} THEN zeroed ELSE zeroed \cup {i}
    BY <1>1, <1>5, <2>2
  <2> QED BY <1>6, <2>1, <2>2
<1>8. Parts'
  BY <1>1, <1>4, <1>5, <1>7, IdleIs DEF Parts, RingsFor
<1>9. \A j \in Instances : /\ Cardinality(HoldersIn(handler, j)) \in Nat
                           /\ HoldersIn(handler, j) = {} => Cardinality(HoldersIn(handler, j)) = 0
  <2>1. \A j : HoldersIn(handler, j) \in SUBSET Handlers
    BY DEF HoldersIn
  <2> QED BY <2>1, HandlersAssumption, FS_Subset, FS_CardinalityType, FS_EmptySet
<1>10. Pending(handler) \in Int
  <2>1. Ints([h \in Handlers |-> Tries(handler[h])], Handlers)
    BY <1>1, TriesIs DEF Ints, HandlersFit
  <2> QED BY <2>1, HandlersAssumption, SumIsInt DEF Pending
<1>11. Budget'
  <2>1. SUFFICES ASSUME NEW j \in Instances
                 PROVE  /\ lost'[j] + Cardinality(HoldersIn(handler, j)) + Pending(handler)
                             <= started * InstanceCount
                        /\ picks'[j] + Pending(handler) <= started * InstanceCount
    BY <1>1, <1>2 DEF Budget
  <2> DEFINE n == Cardinality(HoldersIn(handler, j))
             p == Pending(handler)
             cap == started * InstanceCount
  <2>2. lost[j] + n + p <= cap /\ picks[j] + p <= cap
    BY <1>1 DEF Budget
  <2>3. /\ lost[j] \in Nat /\ lost'[j] \in Nat /\ lost'[j] <= lost[j] /\ n \in Nat /\ p \in Int
        /\ picks[j] \in Nat /\ picks'[j] \in Nat /\ picks'[j] <= picks[j] /\ cap \in Int
    BY <1>1, <1>4, <1>5, <1>7, <1>9, <1>10, Spent
  <2>4. lost'[j] + n + p <= cap /\ picks'[j] + p <= cap
    <3> HIDE DEF n, p, cap
    <3> QED BY <2>2, <2>3
  <2> QED BY <2>4
<1>12. Counts'
  <2>1. CASE conn' = conn /\ lost' = lost /\ zeroed' = zeroed
    BY <1>1, <1>2, <2>1 DEF Counts
  <2>2. CASE /\ algorithm = "least_connections"
             /\ conn' = [conn EXCEPT ![i] = 0] /\ lost' = [lost EXCEPT ![i] = 0]
             /\ zeroed' = IF HoldersIn(handler, i) = {} THEN zeroed ELSE zeroed \cup {i}
    <3>1. SUFFICES ASSUME NEW j \in Instances
                   PROVE  /\ conn'[j] <= Cardinality(HoldersIn(handler, j)) + lost'[j]
                          /\ j \notin zeroed' =>
                               conn'[j] = Cardinality(HoldersIn(handler, j)) + lost'[j]
      BY <1>1, <1>2, <2>2 DEF Counts
    <3>2. CASE j # i
      BY <1>1, <1>5, <1>7, <2>2, <3>2 DEF Counts
    <3>3. CASE j = i
      <4>1. conn'[j] = 0 /\ lost'[j] = 0 /\ Cardinality(HoldersIn(handler, j)) \in Nat
        BY <1>1, <1>5, <1>9, <2>2, <3>3
      <4>2. j \notin zeroed' => Cardinality(HoldersIn(handler, j)) = 0
        BY <1>1, <1>9, <2>2, <3>3
      <4> QED BY <4>1, <4>2
    <3> QED BY <3>2, <3>3
  <2> QED BY <1>6, <2>1, <2>2
<1> QED BY <1>2, <1>8, <1>11, <1>12 DEF IInv

LEMMA InitInv == Init => IInv
<1> SUFFICES ASSUME Init PROVE IInv
  OBVIOUS
<1>1. Parts
  BY CursorAssumption, RequestsAssumption, IdleIs DEF Init, Parts, NoPicks
<1>2. HandlersFit /\ \A h \in Handlers : Tries(handler[h]) = 0 /\ \A i : ~Holds(handler[h], i)
  BY IdleIs, DoneRecords DEF Init, HandlersFit
<1>3. \A i : HoldersIn(handler, i) = {}
  BY <1>2 DEF HoldersIn
<1>4. Pending(handler) = 0
  <2> DEFINE w == [h \in Handlers |-> Tries(handler[h])]
             v == [h \in Handlers |-> w[h] - w[h]]
  <2>1. Ints(w, Handlers) /\ \A h \in Handlers : w[h] = w[h] - w[h]
    BY <1>2 DEF Ints
  <2> HIDE DEF w
  <2>2. SumOver(w, Handlers) = SumOver(w, Handlers) - SumOver(w, Handlers)
    BY <2>1, HandlersAssumption, SumOfDifferences
  <2>3. SumOver(w, Handlers) \in Int
    BY <2>1, HandlersAssumption, SumIsInt
  <2>4. SumOver(w, Handlers) = 0
    BY <2>2, <2>3
  <2> QED BY <2>4 DEF Pending, w
<1>5. \A i \in Instances : conn[i] = 0 /\ lost[i] = 0 /\ picks[i] = 0
  BY DEF Init, NoPicks
<1>6. started * InstanceCount = 0
  BY CountAssumption DEF Init
<1>7. Budget
  BY <1>3, <1>4, <1>5, <1>6, FS_EmptySet DEF Budget
<1>8. Counts
  BY <1>3, <1>5, FS_EmptySet DEF Counts
<1> QED BY <1>1, <1>2, <1>7, <1>8 DEF IInv

LEMMA NextKeepsInv == IInv /\ [Next]_vars => IInv'
<1> SUFFICES ASSUME IInv, [Next]_vars PROVE IInv'
  OBVIOUS
<1>1. ASSUME NEW h \in Handlers, NEW c \in Callers[algorithm], Begin(h, c) PROVE IInv'
  <2>1. c \in {"proxy", "auth"}
    BY CallersAssumption DEF IInv, Parts
  <2> QED BY <1>1, <2>1, BeginKeepsInv
<1>2. ASSUME NEW h \in Handlers, NEW hash \in Hashes,
             GetInstanceByKey(h, hash) \/ NextByCounter(h, hash)
      PROVE  IInv'
  BY <1>2, GetInstanceByKeyKeepsInv, NextByCounterKeepsInv
<1>3. ASSUME NEW h \in Handlers,
             \/ CheckKey(h) \/ NextNone(h) \/ NextRoundRobin(h) \/ SnapshotWeighted(h)
             \/ NextWeighted(h) \/ NextLeastConnections(h)
      PROVE  IInv'
  BY <1>3, CheckKeyKeepsInv, EndingKeepsInv, NextRoundRobinKeepsInv, SnapshotWeightedKeepsInv,
     NextWeightedKeepsInv, NextLeastConnectionsKeepsInv
<1>4. ASSUME NEW h \in Handlers,
             Accept(h) \/ Retry(h) \/ Exhaust(h) \/ Finish(h) \/ FinishValidate(h)
      PROVE  IInv'
  BY <1>4, AcceptKeepsInv, RetryKeepsInv, ExhaustKeepsInv, FinishKeepsInv, EndingKeepsInv
<1>5. ASSUME NEW i \in Instances, StatusChange(i) PROVE IInv'
  BY <1>5, StatusChangeKeepsInv
<1>6. CASE SetInstanceAlive
  BY <1>6, SetInstanceAliveKeepsInv
<1>7. CASE UNCHANGED vars
  BY <1>7 DEF vars, balancer, observers, IInv, Parts, RingsFor, HandlersFit, Budget, Counts
<1> QED BY <1>1, <1>2, <1>3, <1>4, <1>5, <1>6, <1>7 DEF Next

LEMMA Invariance == Spec => []IInv
BY InitInv, NextKeepsInv, PTL DEF Spec

-----------------------------------------------------------------------------
(* Theorems.                                                               *)

\* Every variable has its type; in particular no instance is picked, counted or lost
\* more often than the requests started had tries.
THEOREM TypeCorrect == Spec => []TypeOK
<1>1. IInv => TypeOK
  <2> SUFFICES ASSUME IInv PROVE TypeOK
    OBVIOUS
  <2>1. Parts /\ HandlersFit /\ Budget /\ Counts
    BY DEF IInv
  <2>2. started * InstanceCount <= MaxRequests * InstanceCount
        /\ started * InstanceCount \in Int /\ MaxRequests * InstanceCount \in Int
    <3>1. /\ started \in Nat /\ MaxRequests - started \in Nat /\ InstanceCount \in Nat
          /\ MaxRequests \in Nat
      BY <2>1, CountAssumption, RequestsAssumption DEF Parts
    <3>2. /\ (MaxRequests - started) * InstanceCount \in Nat
          /\ MaxRequests * InstanceCount
               = started * InstanceCount + (MaxRequests - started) * InstanceCount
      BY <3>1
    <3>3. started * InstanceCount \in Nat /\ MaxRequests * InstanceCount \in Nat
      BY <3>1
    <3> QED BY <3>2, <3>3
  <2>3. Pending(handler) \in Nat
    <3> DEFINE w == [h \in Handlers |-> Tries(handler[h])]
    <3>1. \A h \in Handlers : w[h] \in Nat
      BY <2>1, HandlerIs DEF Tries, Fits, Handler
    <3>2. SumOver(w, Handlers) \in Nat
      <4> HIDE DEF w
      <4> QED BY <3>1, HandlersAssumption, SumIsNat
    <3> QED BY <3>2 DEF Pending
  <2>4. ASSUME NEW i \in Instances
        PROVE  /\ lost[i] \in 0 .. MaxRequests * InstanceCount
               /\ conn[i] \in 0 .. MaxRequests * InstanceCount
               /\ picks[i] \in 0 .. MaxRequests * InstanceCount
    <3> DEFINE n == Cardinality(HoldersIn(handler, i))
               p == Pending(handler)
               cap == started * InstanceCount
               all == MaxRequests * InstanceCount
    <3>1. n \in Nat
      <4>1. HoldersIn(handler, i) \in SUBSET Handlers
        BY DEF HoldersIn
      <4> QED BY <4>1, HandlersAssumption, FS_Subset, FS_CardinalityType
    <3>2. /\ lost[i] \in Nat /\ conn[i] \in Nat /\ picks[i] \in Nat /\ p \in Nat
          /\ cap <= all /\ cap \in Int /\ all \in Int
          /\ lost[i] + n + p <= cap /\ picks[i] + p <= cap
      BY <2>1, <2>2, <2>3 DEF Parts, Budget
    <3>3. conn[i] <= n + lost[i]
      <4>1. CASE algorithm = "least_connections"
        BY <2>1, <4>1 DEF Counts
      <4>2. CASE algorithm # "least_connections"
        <5>1. conn[i] = 0
          BY <2>1, <4>2 DEF Counts
        <5> HIDE DEF n
        <5> QED BY <3>1, <3>2, <5>1
      <4> QED BY <4>1, <4>2
    <3>4. lost[i] \in 0 .. all /\ conn[i] \in 0 .. all /\ picks[i] \in 0 .. all
      <4> HIDE DEF n, p, cap, all
      <4> QED BY <3>1, <3>2, <3>3
    <3> QED BY <3>4
  <2> QED BY <2>1, <2>4 DEF TypeOK, Parts, HandlersFit
<1> QED BY <1>1, Invariance, PTL

\* The count of an instance is what its handlers hold and what was lost, or less after
\* a recovery, for any number of handlers, instances and requests: no interleaving of
\* picks, refusals, releases and recoveries makes it overcount.
THEOREM CountsAreJustified == Spec => []CountWithinUse
<1>1. IInv => CountWithinUse
  <2>1. \A i : Holders(i) = HoldersIn(handler, i)
    BY DEF Holders, HoldersIn, Holds
  <2> QED BY <2>1 DEF IInv, Counts, CountWithinUse
<1> QED BY <1>1, Invariance, PTL

\* When an instance joins or leaves the ring only the keys that it gets, or had, move:
\* the others stay with the virtual node that answered for them, and so move at most
\* between instances that hash to the same one. This is so whatever the instances, their
\* virtual nodes and the order of equal hashes in either ring.
THEOREM KeysStay == Spec => OnlyItsKeysMove
<1>1. ASSUME IInv, NEW hash \in Hashes, algorithm = "consistent_hash",
             alive # {}, alive' # {}, SetInstanceAlive
      PROVE  LET before == PickFromRing(ring, hash)
                 after  == PickFromRing(ring', hash)
             IN \/ before = after
                \/ hook.inst \in {before, after}
                \/ NodeFor(DOMAIN ring, hash) \in VirtualNodes[before] \cap VirtualNodes[after]
  <2> DEFINE i == hook.inst
  <2>1. /\ alive \in SUBSET Instances /\ i \in Instances /\ ring \in Rings(alive)
        /\ alive' = IF hook.up THEN alive \cup {i} ELSE alive \ {i}
    BY <1>1 DEF IInv, Parts, SetInstanceAlive, RingsFor
  <2>2. CASE alive' = alive
    BY <1>1, <2>2 DEF SetInstanceAlive
  <2>3. CASE alive' # alive
    <3>1. ring' \in Rings(alive') /\ alive' \in SUBSET Instances
      BY <1>1, <2>1, <2>3 DEF SetInstanceAlive, RingsFor
    <3>2. CASE hook.up
      BY <1>1, <2>1, <3>1, <3>2, JoiningTakesItsOwn
    <3>3. CASE ~hook.up
      <4>1. alive' \cup {i} = alive
        BY <2>1, <2>3, <3>3
      <4> QED BY <1>1, <2>1, <3>1, <4>1, JoiningTakesItsOwn
    <3> QED BY <3>2, <3>3
  <2> QED BY <2>2, <2>3
<1>2. IInv =>
        [algorithm = "consistent_hash" /\ alive # {} /\ alive' # {} /\ SetInstanceAlive =>
           \A hash \in Hashes :
             LET before == PickFromRing(ring, hash)
                 after  == PickFromRing(ring', hash)
             IN \/ before = after
                \/ hook.inst \in {before, after}
                \/ NodeFor(DOMAIN ring, hash) \in VirtualNodes[before] \cap VirtualNodes[after]]_vars
  BY <1>1
<1> QED BY <1>2, Invariance, PTL DEF OnlyItsKeysMove

-----------------------------------------------------------------------------
(* Numbers drawn from a cursor.                                            *)

Pick(A, a, s) == IF a = "round_robin" THEN RoundRobin(A, s) ELSE WeightedRoundRobin(A, s)

\* The last t numbers before c that stand for i.
Drawn(A, a, c, t, i) == {s \in c - t .. c - 1 : Pick(A, a, s) = i}

\* Everybody has a segment of the turn, as long as his share.
LEMMA PickInSegment ==
  ASSUME NEW A \in SUBSET Instances, NEW a, NEW i \in A
  PROVE  /\ Share(A, a, i) \in Nat
         /\ \E b \in Nat :
              /\ b + Share(A, a, i) <= Turn(A, a)
              /\ \A s \in Int : Pick(A, a, s) = i <=> /\ b <= s % Turn(A, a)
                                                      /\ s % Turn(A, a) < b + Share(A, a, i)
<1> DEFINE W == Weighted(A)
           n == Turn(A, a)
<1>1. n \in Nat \ {0}
  BY TurnIs
<1>2. \A s \in Int : s % n \in 0 .. n - 1
  <2> HIDE DEF n
  <2> QED BY <1>1, Division
<1>3. CASE a = "round_robin" \/ W = {}
  <2>1. Share(A, a, i) = 1 /\ n = Cardinality(A) /\ \A s : Pick(A, a, s) = RoundRobin(A, s)
    BY <1>3, TurnIs DEF Share, Pick, WeightedRoundRobin
  <2>2. Rank(A, i) \in 0 .. n - 1
    BY <2>1, RankOrders
  <2>3. ASSUME NEW s \in Int
        PROVE  RoundRobin(A, s) = i <=> s % n = Rank(A, i)
    <3>1. RoundRobin(A, s) \in A /\ Rank(A, RoundRobin(A, s)) = s % n
      BY <2>1, RoundRobinIs
    <3> QED BY <3>1, SameRankSame
  <2> HIDE DEF n
  <2>4. \A s \in Int : s % n = Rank(A, i) <=> Rank(A, i) <= s % n /\ s % n < Rank(A, i) + 1
    <3> DEFINE r == Rank(A, i)
    <3>1. r \in Int
      BY <2>2
    <3> HIDE DEF r
    <3>2. ASSUME NEW m \in Int PROVE m = r <=> r <= m /\ m < r + 1
      BY <3>1
    <3>3. \A s \in Int : s % n \in Int
      BY <1>2, <1>1
    <3> QED BY <3>2, <3>3 DEF r
  <2>5. Rank(A, i) \in Nat /\ Rank(A, i) + 1 <= n
    BY <1>1, <2>2
  <2>6. \A s \in Int : Pick(A, a, s) = i <=> Rank(A, i) <= s % n /\ s % n < Rank(A, i) + 1
    BY <2>1, <2>3, <2>4
  <2> QED BY <2>1, <2>5, <2>6 DEF n
<1>4. CASE a # "round_robin" /\ W # {}
  <2>1. n = TotalWeight(W) /\ \A s : Pick(A, a, s) = WeightedRoundRobin(A, s)
    BY <1>4, TurnIs DEF Pick
  <2>2. CASE i \in W
    <3>1. Share(A, a, i) = Weight[i] /\ Before(W, i) \in Nat /\ Weight[i] \in Nat
          /\ Before(W, i) + Weight[i] <= n
      BY <1>4, <2>1, <2>2, SegmentsFollow DEF Share
    <3>2. \A s \in Int : WeightedRoundRobin(A, s) = i <=> /\ Before(W, i) <= s % n
                                                         /\ s % n < Before(W, i) + Weight[i]
      BY <1>4, <2>1, <2>2, SegmentDecides, WeightedRoundRobinIs
    <3> QED BY <2>1, <3>1, <3>2
  <2>3. CASE i \notin W
    <3>1. Share(A, a, i) = 0
      BY <1>4, <2>3 DEF Share
    <3>2. \A s \in Int : WeightedRoundRobin(A, s) # i
      BY <1>4, <2>3, WeightedRoundRobinIs
    <3> HIDE DEF n
    <3>3. \A s \in Int : ~(0 <= s % n /\ s % n < 0 + 0)
      <4>1. \A m \in 0 .. n - 1 : ~(0 <= m /\ m < 0 + 0)
        BY <1>1
      <4> QED BY <1>2, <4>1
    <3>4. 0 + 0 <= n
      BY <1>1
    <3> QED BY <2>1, <3>1, <3>2, <3>3, <3>4 DEF n
  <2> QED BY <2>2, <2>3
<1> QED BY <1>3, <1>4

\* What a number stands for depends on its remainder, and is a member.
LEMMA PickRepeats ==
  ASSUME NEW A \in SUBSET Instances, A # {}, NEW a, NEW s \in Int
  PROVE  /\ Pick(A, a, s) \in A
         /\ \A r \in Int : r % Turn(A, a) = s % Turn(A, a) => Pick(A, a, r) = Pick(A, a, s)
<1> DEFINE i == Pick(A, a, s)
<1>1. i \in A
  BY ChosenIsMember DEF Pick
<1>2. PICK b \in Nat :
        \A r \in Int : Pick(A, a, r) = i <=> /\ b <= r % Turn(A, a)
                                             /\ r % Turn(A, a) < b + Share(A, a, i)
  BY <1>1, PickInSegment
<1> QED BY <1>1, <1>2

\* In a turn everybody gets his share; in less than a turn nobody gets more, and the
\* next one gets less.
LEMMA SharesDrawn ==
  ASSUME NEW A \in SUBSET Instances, NEW a, NEW i \in A, NEW c \in Int, NEW t \in Nat,
         t <= Turn(A, a)
  PROVE  /\ IsFiniteSet(Drawn(A, a, c, t, i)) /\ Cardinality(Drawn(A, a, c, t, i)) \in Nat
         /\ Cardinality(Drawn(A, a, c, t, i)) <= Share(A, a, i)
         /\ t = Turn(A, a) => Cardinality(Drawn(A, a, c, t, i)) = Share(A, a, i)
         /\ t < Turn(A, a) /\ i = Pick(A, a, c)
              => Cardinality(Drawn(A, a, c, t, i)) < Share(A, a, i)
<1> DEFINE n == Turn(A, a)
           all == Drawn(A, a, c, n, i)
           some == Drawn(A, a, c, t, i)
           share == Share(A, a, i)
<1>1. n \in Nat \ {0} /\ share \in Nat
  BY TurnIs, PickInSegment
<1>2. IsFiniteSet(all) /\ Cardinality(all) = share
  <2>1. PICK b \in Nat : /\ b + share <= n
                         /\ \A s \in Int : Pick(A, a, s) = i <=> b <= s % n /\ s % n < b + share
    BY PickInSegment
  <2>2. all = InARow(n, c, b, share)
    <3>1. \A s \in c - n .. c - 1 : s \in Int
      OBVIOUS
    <3> HIDE DEF n, share
    <3> QED BY <2>1, <3>1 DEF Drawn, InARow, n
  <2> HIDE DEF n, share, all
  <2> QED BY <1>1, <2>1, <2>2, RemaindersInARow
<1>3. some \in SUBSET all
  <2>1. \A s \in c - t .. c - 1 : s \in c - n .. c - 1
    <3> HIDE DEF n
    <3>1. t <= n
      BY DEF n
    <3> QED BY <1>1, <3>1
  <2> HIDE DEF n
  <2> QED BY <2>1 DEF Drawn
<1>4. IsFiniteSet(some) /\ Cardinality(some) \in Nat /\ Cardinality(some) <= share
      /\ (Cardinality(some) = share => some = all)
  <2> HIDE DEF some, all, share
  <2> QED BY <1>2, <1>3, FS_Subset, FS_CardinalityType
<1>5. t < n /\ i = Pick(A, a, c) => Cardinality(some) < share
  <2> SUFFICES ASSUME t < n, i = Pick(A, a, c) PROVE some # all
    <3> HIDE DEF some, all, share, n
    <3> QED BY <1>1, <1>4
  <2> DEFINE s == c - n
  <2>1. s \in Int /\ s \in c - n .. c - 1 /\ s \notin c - t .. c - 1
    <3> HIDE DEF n
    <3> QED BY <1>1
  <2>2. s % n = c % n
    <3> DEFINE r == c % n
               q == c \div n
    <3>1. q \in Int /\ r \in 0 .. n - 1 /\ c = q * n + r
      <4> HIDE DEF n
      <4> QED BY <1>1, Division
    <3> HIDE DEF q, r
    <3>2. s = (q - 1) * n + r /\ q - 1 \in Int
      <4> HIDE DEF n
      <4> QED BY <1>1, <3>1 DEF s
    <3> HIDE DEF s, n
    <3>3. ((q - 1) * n + r) % n = r
      BY <1>1, <3>1, <3>2, RemainderIs
    <3> QED BY <3>2, <3>3 DEF r
  <2>3. Pick(A, a, s) = i
    <3> HIDE DEF s
    <3> QED BY <2>1, <2>2, PickRepeats
  <2> HIDE DEF s, n
  <2> QED BY <2>1, <2>3 DEF Drawn
<1> QED BY <1>2, <1>4, <1>5

\* The number c is drawn.
LEMMA OneMoreDrawn ==
  ASSUME NEW A \in SUBSET Instances, NEW a, NEW i \in A, NEW c \in Int, NEW t \in Nat,
         t + 1 <= Turn(A, a)
  PROVE  Cardinality(Drawn(A, a, c + 1, t + 1, i)) =
           IF Pick(A, a, c) = i THEN Cardinality(Drawn(A, a, c, t, i)) + 1
           ELSE Cardinality(Drawn(A, a, c, t, i))
<1> DEFINE old == Drawn(A, a, c, t, i)
           new == Drawn(A, a, c + 1, t + 1, i)
<1>1. \A s : s \in (c + 1) - (t + 1) .. (c + 1) - 1 <=> s \in c - t .. c - 1 \/ s = c
  OBVIOUS
<1>2. new = IF Pick(A, a, c) = i THEN old \cup {c} ELSE old
  BY <1>1 DEF Drawn
<1>3. IsFiniteSet(old) /\ c \notin old
  <2>1. c \notin c - t .. c - 1
    OBVIOUS
  <2>2. t <= Turn(A, a)
    BY TurnIs
  <2> QED BY <2>1, <2>2, SharesDrawn DEF Drawn
<1> HIDE DEF old, new
<1> QED BY <1>2, <1>3, FS_AddElement DEF old, new

-----------------------------------------------------------------------------
(* Shares: the numbers drawn since rotation last changed are q turns and t *)
(* more; picks are what they stand for, but for the late ones.             *)

\* The numbers that i has had in q turns and the t numbers before c.
Due(A, a, q, c, t, i) == q * Share(A, a, i) + Cardinality(Drawn(A, a, c, t, i))

\* What the picks p are, with l late ones and the cursor at cur.
SharesFit(A, a, cur, p, l) ==
  A # {} =>
    \E c \in Int, q \in Nat, t \in Nat :
      /\ t < Turn(A, a) /\ c % Turn(A, a) = cur % Turn(A, a)
      /\ q * Turn(A, a) + t = SumOver(p, Instances) + l
      /\ \A i \in A : p[i] <= Due(A, a, q, c, t, i) /\ Due(A, a, q, c, t, i) <= p[i] + l

\* Handlers whose next pick will be late.
Stale == {h \in Handlers : handler[h].pc = "count" /\ handler[h].snap # alive}

SharesInv ==
  /\ SharesFit(alive, algorithm, cursor, picks, late)
  /\ late + Cardinality(Stale) <= Cardinality(Handlers)

LEMMA NothingDrawn ==
  ASSUME NEW A \in SUBSET Instances, NEW a, NEW cur \in Int
  PROVE  SharesFit(A, a, cur, NoPicks, 0)
<1> DEFINE n == Turn(A, a)
<1> SUFFICES ASSUME A # {}
             PROVE  /\ 0 < n /\ 0 * n + 0 = SumOver(NoPicks, Instances) + 0
                    /\ \A i \in A : NoPicks[i] = 0 /\ Due(A, a, 0, cur, 0, i) = 0
  BY DEF SharesFit
<1>1. n \in Nat \ {0}
  BY TurnIs
<1>2. \A i \in Instances : NoPicks[i] = 0
  BY DEF NoPicks
<1>3. SumOver(NoPicks, Instances) = 0
  BY <1>2, FiniteInstances, SumOfZeros
<1>4. ASSUME NEW i \in A PROVE Due(A, a, 0, cur, 0, i) = 0
  <2>1. Drawn(A, a, cur, 0, i) = {}
    BY DEF Drawn
  <2>2. Share(A, a, i) \in Nat
    BY PickInSegment
  <2> DEFINE share == Share(A, a, i)
  <2> HIDE DEF share
  <2>3. 0 * share + 0 = 0
    BY <2>2 DEF share
  <2> QED BY <2>1, <2>3, FS_EmptySet DEF Due, share
<1> HIDE DEF n
<1> QED BY <1>1, <1>2, <1>3, <1>4

\* The next number makes q turns and t more into one number more.
LEMMA NextNumberIsDue ==
  ASSUME NEW A \in SUBSET Instances, NEW a, NEW c \in Int, NEW q \in Nat, NEW t \in Nat,
         t < Turn(A, a)
  PROVE  \E r \in Nat, u \in Nat :
           /\ u < Turn(A, a) /\ r * Turn(A, a) + u = q * Turn(A, a) + t + 1
           /\ \A i \in A : /\ Due(A, a, q, c, t, i) \in Nat
                           /\ Due(A, a, r, c + 1, u, i) = Due(A, a, q, c, t, i)
                                                            + Ind(Pick(A, a, c) = i)
<1> DEFINE n == Turn(A, a)
           card(d, u, i) == Cardinality(Drawn(A, a, d, u, i))
           share(i) == Share(A, a, i)
<1>1. CASE A = {}
  <2>1. n = 0
    BY <1>1, TurnIs, FS_EmptySet DEF Weighted
  <2> QED BY <2>1
<1>2. CASE A # {}
  <2>1. n \in Nat \ {0} /\ t + 1 <= n /\ t <= n /\ c + 1 \in Int /\ t + 1 \in Nat
    <3>1. n \in Nat \ {0}
      BY <1>2, TurnIs
    <3> HIDE DEF n
    <3> QED BY <3>1 DEF n
  <2>2. ASSUME NEW i \in A
        PROVE  /\ card(c, t, i) \in Nat /\ share(i) \in Nat
               /\ card(c + 1, t + 1, i) = card(c, t, i) + Ind(Pick(A, a, c) = i)
               /\ t + 1 = n => card(c + 1, t + 1, i) = share(i)
               /\ card(c + 1, 0, i) = 0
    <3>1. card(c, t, i) \in Nat /\ share(i) \in Nat
      BY <2>1, SharesDrawn, PickInSegment
    <3>2. card(c + 1, t + 1, i) = card(c, t, i) + Ind(Pick(A, a, c) = i)
      BY <2>1, <3>1, OneMoreDrawn DEF Ind
    <3>3. t + 1 = n => card(c + 1, t + 1, i) = share(i)
      BY <2>1, SharesDrawn
    <3>4. Drawn(A, a, c + 1, 0, i) = {}
      BY DEF Drawn
    <3> QED BY <3>1, <3>2, <3>3, <3>4, FS_EmptySet
  <2>3. ASSUME NEW i \in A PROVE Due(A, a, q, c, t, i) \in Nat
    <3> HIDE DEF card, share
    <3>1. q * share(i) + card(c, t, i) \in Nat
      BY <2>2
    <3> QED BY <3>1 DEF Due, share, card
  <2>4. CASE t + 1 < n
    <3>1. q * n + (t + 1) = q * n + t + 1
      <4> HIDE DEF n
      <4> QED BY <2>1
    <3>2. ASSUME NEW i \in A
          PROVE  Due(A, a, q, c + 1, t + 1, i) = Due(A, a, q, c, t, i) + Ind(Pick(A, a, c) = i)
      <4> DEFINE one == Ind(Pick(A, a, c) = i)
                 before == q * share(i)
      <4>1. one \in Int /\ before \in Int
        BY <2>2 DEF Ind
      <4> HIDE DEF one, before, card
      <4>2. before + (card(c, t, i) + one) = before + card(c, t, i) + one
        BY <2>2, <4>1
      <4> QED BY <2>2, <4>2 DEF Due, one, before, card
    <3> QED BY <2>1, <2>3, <2>4, <3>1, <3>2
  <2>5. CASE t + 1 = n
    <3>1. (q + 1) * n + 0 = q * n + t + 1
      <4> HIDE DEF n
      <4> QED BY <2>1, <2>5
    <3>2. ASSUME NEW i \in A
          PROVE  Due(A, a, q + 1, c + 1, 0, i) = Due(A, a, q, c, t, i) + Ind(Pick(A, a, c) = i)
      <4> DEFINE one == Ind(Pick(A, a, c) = i)
      <4>1. one \in Int
        BY DEF Ind
      <4> HIDE DEF one, card, share
      <4>2. (q + 1) * share(i) + 0 = q * share(i) + card(c, t, i) + one
        BY <2>2, <2>5, <4>1 DEF one
      <4> QED BY <2>2, <4>2 DEF Due, one, card, share
    <3>3. 0 < n /\ q + 1 \in Nat
      <4> HIDE DEF n
      <4> QED BY <2>1
    <3> QED BY <2>3, <3>1, <3>2, <3>3
  <2>6. t + 1 < n \/ t + 1 = n
    <3> HIDE DEF n
    <3> QED BY <2>1
  <2> QED BY <2>4, <2>5, <2>6
<1> QED BY <1>1, <1>2

\* Advancing a cursor and its unbounded counterpart keeps them together.
LEMMA AdvancesTogether ==
  ASSUME Parts, alive # {}, NEW c \in Int,
         c % Turn(alive, algorithm) = cursor % Turn(alive, algorithm)
  PROVE  (c + 1) % Turn(alive, algorithm) = Advanced % Turn(alive, algorithm)
<1> DEFINE n == Turn(alive, algorithm)
           next == cursor + 1
<1>1. /\ n \in Nat \ {0} /\ cursor \in Int /\ next \in Int
      /\ CursorModulus \in Nat \ {0} /\ CursorModulus % n = 0
  <2>1. alive \in SUBSET Instances /\ algorithm \in Algorithms /\ cursor \in Int
    BY CursorAssumption DEF Parts
  <2>2. n \in Nat \ {0} /\ CursorModulus \in Nat \ {0} /\ CursorModulus % n = 0
    BY <2>1, TurnIs, CursorWraps
  <2> QED BY <2>1, <2>2
<1> HIDE DEF n, next
<1>2. (next % CursorModulus) % n = next % n
  BY <1>1, WrapOfTurns
<1>3. (c + 1) % n = (cursor + 1) % n
  BY <1>1, NextRemainder DEF n
<1> QED BY <1>2, <1>3 DEF n, next, Advanced

\* A number that is drawn goes to the one it stands for, or to a late pick.
LEMMA DrawKeepsShares ==
  ASSUME Parts, SharesFit(alive, algorithm, cursor, picks, late),
         (alive # {} /\ CountPick(Pick(alive, algorithm, cursor))) \/ CountLatePick
  PROVE  SharesFit(alive, algorithm, Advanced, picks', late')
<1> DEFINE n == Turn(alive, algorithm)
           j == Pick(alive, algorithm, cursor)
           due(q, c, t, i) == Due(alive, algorithm, q, c, t, i)
           total == SumOver(picks, Instances)
<1>1. SUFFICES ASSUME alive # {}
               PROVE  \E c \in Int, q \in Nat, t \in Nat :
                        /\ t < n /\ c % n = Advanced % n
                        /\ q * n + t = SumOver(picks', Instances) + late'
                        /\ \A i \in alive : /\ picks'[i] <= due(q, c, t, i)
                                            /\ due(q, c, t, i) <= picks'[i] + late'
  BY DEF SharesFit
<1>2. PICK c \in Int, q \in Nat, t \in Nat :
        /\ t < n /\ c % n = cursor % n /\ q * n + t = total + late
        /\ \A i \in alive : picks[i] <= due(q, c, t, i) /\ due(q, c, t, i) <= picks[i] + late
  BY <1>1 DEF SharesFit
<1>3. /\ alive \in SUBSET Instances /\ picks \in [Instances -> Nat] /\ late \in Nat
      /\ IsFiniteSet(Instances) /\ n \in Nat \ {0} /\ cursor \in Int
  BY <1>1, TurnIs, FiniteInstances, CursorAssumption DEF Parts
<1>4. PICK r \in Nat, u \in Nat :
        /\ u < n /\ r * n + u = q * n + t + 1
        /\ \A i \in alive : /\ due(q, c, t, i) \in Nat
                            /\ due(r, c + 1, u, i) = due(q, c, t, i)
                                                       + Ind(Pick(alive, algorithm, c) = i)
  BY <1>2, <1>3, NextNumberIsDue
<1>5. (c + 1) % n = Advanced % n /\ c + 1 \in Int
  BY <1>1, <1>2, AdvancesTogether
<1>6. j \in alive /\ j = Pick(alive, algorithm, c)
  BY <1>1, <1>2, <1>3, PickRepeats
<1>7. total \in Int
  BY <1>3, SumIsInt DEF Ints
<1>8. CASE CountPick(j)
  <2>1. picks' = [picks EXCEPT ![j] = @ + 1] /\ late' = late
    BY <1>8 DEF CountPick
  <2>2. SumOver(picks', Instances) = total + 1
    <3>1. /\ Ints(picks, Instances) /\ Ints(picks', Instances) /\ j \in Instances
          /\ \A i \in Instances \ {j} : picks'[i] = picks[i]
          /\ picks'[j] = picks[j] + 1 /\ picks[j] \in Int
      BY <1>3, <1>6, <2>1 DEF Ints
    <3>2. SumOver(picks', Instances) = (total - picks[j]) + picks'[j]
      BY <1>3, <3>1, SumAfterChange
    <3> HIDE DEF total, j
    <3> QED BY <1>7, <3>1, <3>2
  <2>3. r * n + u = SumOver(picks', Instances) + late'
    <3> HIDE DEF total, n
    <3> QED BY <1>2, <1>3, <1>4, <1>7, <2>1, <2>2
  <2>4. ASSUME NEW i \in alive
        PROVE  picks'[i] <= due(r, c + 1, u, i) /\ due(r, c + 1, u, i) <= picks'[i] + late'
    <3>1. /\ picks'[i] = picks[i] + Ind(j = i) /\ Ind(j = i) \in {0, 1}
          /\ picks[i] \in Nat /\ late' = late
      BY <1>3, <1>6, <2>1 DEF Ind
    <3> HIDE DEF due, j
    <3> QED BY <1>2, <1>3, <1>4, <1>6, <3>1
  <2> QED BY <1>4, <1>5, <2>3, <2>4
<1>9. CASE CountLatePick
  <2>1. picks' = picks /\ late' = late + 1
    BY <1>9 DEF CountLatePick
  <2>2. r * n + u = SumOver(picks', Instances) + late'
    <3>1. SumOver(picks', Instances) = total
      BY <2>1
    <3> HIDE DEF total, n
    <3> QED BY <1>2, <1>3, <1>4, <1>7, <2>1, <3>1
  <2>3. ASSUME NEW i \in alive
        PROVE  picks'[i] <= due(r, c + 1, u, i) /\ due(r, c + 1, u, i) <= picks'[i] + late'
    <3>1. picks'[i] = picks[i] /\ Ind(j = i) \in {0, 1} /\ picks[i] \in Nat
      BY <1>3, <2>1 DEF Ind
    <3> HIDE DEF due, j
    <3> QED BY <1>2, <1>3, <1>4, <1>6, <2>1, <3>1
  <2> QED BY <1>4, <1>5, <2>2, <2>3
<1> QED BY <1>8, <1>9

\* A late pick leaves its handler without one to come; nobody else gets one before
\* rotation changes.
LEMMA StaleShrinks ==
  ASSUME HandlersFit, UNCHANGED alive, NEW h \in Handlers, NEW k, Step(h, k),
         k.pc = "count" => k.snap = alive
  PROVE  /\ IsFiniteSet(Stale) /\ Cardinality(Stale) \in Nat
         /\ Cardinality(Stale') \in Nat /\ Cardinality(Stale') <= Cardinality(Stale)
         /\ h \in Stale => Cardinality(Stale') + 1 <= Cardinality(Stale)
<1>1. /\ handler'[h] = k /\ \A g \in Handlers \ {h} : handler'[g] = handler[g]
  BY DEF Step, HandlersFit
<1>2. Stale' \in SUBSET (Stale \ {h}) /\ Stale \in SUBSET Handlers
  BY <1>1 DEF Stale
<1>3. IsFiniteSet(Stale) /\ Cardinality(Stale) \in Nat
  BY <1>2, HandlersAssumption, FS_Subset, FS_CardinalityType
<1>4. /\ IsFiniteSet(Stale \ {h}) /\ Cardinality(Stale \ {h}) \in Nat
      /\ Cardinality(Stale \ {h}) = IF h \in Stale THEN Cardinality(Stale) - 1
                                                   ELSE Cardinality(Stale)
  BY <1>3, FS_RemoveElement, FS_CardinalityType
<1>5. Cardinality(Stale') \in Nat /\ Cardinality(Stale') <= Cardinality(Stale \ {h})
  BY <1>2, <1>4, FS_Subset, FS_CardinalityType
<1> HIDE DEF Stale
<1> QED BY <1>3, <1>4, <1>5

\* What a step does to the numbers: none is drawn, or the cursor's is, for the instance
\* that it stands for or for a late pick.
LEMMA HandlerSteps ==
  ASSUME IInv, NEW h \in Handlers,
         \/ \E c \in Callers[algorithm] : Begin(h, c)
         \/ \E hash \in Hashes : GetInstanceByKey(h, hash) \/ NextByCounter(h, hash)
         \/ CheckKey(h) \/ NextNone(h) \/ NextRoundRobin(h) \/ SnapshotWeighted(h)
         \/ NextWeighted(h) \/ NextLeastConnections(h) \/ Accept(h) \/ Retry(h)
         \/ Exhaust(h) \/ Finish(h) \/ FinishValidate(h)
  PROVE  /\ UNCHANGED <<alive, algorithm, healthy>>
         /\ \E k : Step(h, k) /\ (k.pc = "count" => k.snap = alive)
         /\ \/ UNCHANGED <<cursor, picks, late, misses>>
            \/ /\ cursor' = Advanced
               /\ alive # {} /\ CountPick(Pick(alive, algorithm, cursor))
            \/ cursor' = Advanced /\ CountLatePick /\ h \in Stale
<1> DEFINE g == handler[h]
           Result == /\ UNCHANGED <<alive, algorithm, healthy>>
                     /\ \E k : Step(h, k) /\ (k.pc = "count" => k.snap = alive)
                     /\ UNCHANGED <<cursor, picks, late, misses>>
<1>1. g \in Handler /\ Fits(g, algorithm)
  BY DEF IInv, HandlersFit
<1>2. /\ Idle.pc = "idle" /\ [Idle EXCEPT !.pc = "validating"].pc = "validating"
      /\ [Idle EXCEPT !.pc = "serving", !.inst = g.inst].pc = "serving"
  BY DEF Idle
<1>3. \A i, p : Offered(h, i, p).pc = p
  BY <1>1 DEF Offered, Handler
<1>4. ASSUME \/ NextNone(h) \/ Finish(h) \/ FinishValidate(h) \/ Accept(h) \/ Exhaust(h)
      PROVE  Result
  <2>1. \E k : Step(h, k) /\ k.pc # "count"
    BY <1>2, <1>4 DEF NextNone, Finish, FinishValidate, Accept, Exhaust, Fail, Serve, Validate
  <2>2. UNCHANGED <<alive, algorithm, healthy, cursor, picks, late, misses>>
    BY <1>4 DEF NextNone, Finish, FinishValidate, Accept, Exhaust, balancer, observers
  <2> QED BY <2>1, <2>2
<1>5. ASSUME NEW c, Begin(h, c) PROVE Result
  <2>1. \E k : Step(h, k) /\ k.pc # "count"
    BY <1>2, <1>5 DEF Begin, Fail
  <2> QED BY <1>5, <2>1 DEF Begin, balancer, observers
<1>6. ASSUME \/ \E hash \in Hashes : GetInstanceByKey(h, hash) \/ NextByCounter(h, hash)
             \/ CheckKey(h) \/ Retry(h) \/ NextLeastConnections(h)
      PROVE  Result
  <2>1. /\ [g EXCEPT !.pc = "next"].pc = "next"
        /\ [g EXCEPT !.pc = "next", !.inst = None].pc = "next"
        /\ [g EXCEPT !.pc = "next", !.inst = None, !.left = @ - 1].pc = "next"
    BY <1>1 DEF Handler
  <2>2. \E k : Step(h, k) /\ k.pc # "count"
    <3>1. CASE \E hash \in Hashes : GetInstanceByKey(h, hash) \/ NextByCounter(h, hash)
      <4>1. PICK hash \in Hashes : GetInstanceByKey(h, hash) \/ NextByCounter(h, hash)
        BY <3>1
      <4> DEFINE i == PickFromRing(ring, hash)
      <4>2. \/ Step(h, [g EXCEPT !.pc = "next"])
            \/ Step(h, Offered(h, i, "checkKey")) \/ Step(h, Offered(h, i, "check"))
        BY <4>1 DEF GetInstanceByKey, NextByCounter, Offer
      <4>3. Offered(h, i, "checkKey").pc = "checkKey" /\ Offered(h, i, "check").pc = "check"
        BY <1>3
      <4> HIDE DEF i
      <4> QED BY <2>1, <4>2, <4>3
    <3>2. CASE CheckKey(h)
      BY <1>2, <2>1, <3>2 DEF CheckKey, Serve
    <3>3. CASE Retry(h)
      BY <2>1, <3>3 DEF Retry
    <3>4. CASE NextLeastConnections(h)
      BY <1>3, <3>4 DEF NextLeastConnections, Offer
    <3> QED BY <1>6, <3>1, <3>2, <3>3, <3>4
  <2>3. UNCHANGED <<alive, algorithm, healthy, cursor, picks, late, misses>>
    BY <1>6 DEF GetInstanceByKey, NextByCounter, CheckKey, Retry, NextLeastConnections,
       balancer, observers
  <2> QED BY <2>2, <2>3
<1>7. ASSUME SnapshotWeighted(h) PROVE Result
  <2>1. [g EXCEPT !.pc = "count", !.snap = alive].snap = alive
    BY <1>1 DEF Handler
  <2> QED BY <1>7, <2>1 DEF SnapshotWeighted, balancer, observers
<1>8. ASSUME NextRoundRobin(h)
      PROVE  /\ UNCHANGED <<alive, algorithm, healthy>>
             /\ \E k : Step(h, k) /\ k.pc # "count"
             /\ cursor' = Advanced /\ alive # {}
             /\ CountPick(Pick(alive, algorithm, cursor))
  BY <1>3, <1>8 DEF NextRoundRobin, Offer, Pick
<1>9. ASSUME NextWeighted(h)
      PROVE  /\ UNCHANGED <<alive, algorithm, healthy>>
             /\ \E k : Step(h, k) /\ k.pc # "count"
             /\ cursor' = Advanced
             /\ \/ alive # {} /\ CountPick(Pick(alive, algorithm, cursor))
                \/ CountLatePick /\ h \in Stale
  <2>1. algorithm = "weighted_round_robin" /\ g.snap # {} /\ g.pc = "count"
    BY <1>1, <1>9 DEF Fits, NextWeighted, At
  <2>2. /\ UNCHANGED <<alive, algorithm, healthy>> /\ \E k : Step(h, k) /\ k.pc # "count"
        /\ cursor' = Advanced
    BY <1>3, <1>9 DEF NextWeighted, Offer
  <2>3. g.snap = alive => alive # {} /\ CountPick(Pick(alive, algorithm, cursor))
    BY <1>9, <2>1 DEF NextWeighted, Pick
  <2>4. g.snap # alive => CountLatePick /\ h \in Stale
    BY <1>9, <2>1 DEF NextWeighted, Stale
  <2> QED BY <2>2, <2>3, <2>4
<1> QED BY <1>4, <1>5, <1>6, <1>7, <1>8, <1>9

-----------------------------------------------------------------------------
(* Misses: the numbers just before the cursor brought nobody anywhere, but *)
(* for those that late picks withheld.                                     *)

\* Of the m numbers before c, those that stand for a healthy instance.
Good(A, a, H, c, m) == {s \in c - m .. c - 1 : Pick(A, a, s) \in H}

MissesFit(A, a, H, cur, m, l) ==
  A # {} =>
    \E c \in Int : /\ c % Turn(A, a) = cur % Turn(A, a)
                   /\ Cardinality(Good(A, a, H, c, m)) <= l

LEMMA GoodIsFinite ==
  ASSUME NEW A, NEW a, NEW H, NEW c \in Int, NEW m \in Nat
  PROVE  /\ IsFiniteSet(Good(A, a, H, c, m)) /\ Cardinality(Good(A, a, H, c, m)) \in Nat
         /\ m = 0 => Cardinality(Good(A, a, H, c, m)) = 0
<1>1. c - m \in Int /\ c - 1 \in Int
  OBVIOUS
<1>2. IsFiniteSet(c - m .. c - 1)
  BY <1>1, FS_Interval
<1>3. Good(A, a, H, c, m) \in SUBSET (c - m .. c - 1)
  BY DEF Good
<1>4. m = 0 => Good(A, a, H, c, m) = {}
  BY DEF Good
<1> QED BY <1>2, <1>3, <1>4, FS_Subset, FS_CardinalityType, FS_EmptySet

LEMMA NothingMissed ==
  ASSUME NEW A, NEW a, NEW H, NEW cur \in Int, NEW l \in Nat
  PROVE  MissesFit(A, a, H, cur, 0, l)
<1>1. Cardinality(Good(A, a, H, cur, 0)) = 0
  BY GoodIsFinite
<1>2. Cardinality(Good(A, a, H, cur, 0)) <= l
  BY <1>1
<1> QED BY <1>2 DEF MissesFit

LEMMA DrawKeepsMisses ==
  ASSUME Parts, MissesFit(alive, algorithm, healthy, cursor, misses, late),
         (alive # {} /\ CountPick(Pick(alive, algorithm, cursor))) \/ CountLatePick
  PROVE  MissesFit(alive, algorithm, healthy, Advanced, misses', late')
<1> DEFINE n == Turn(alive, algorithm)
           j == Pick(alive, algorithm, cursor)
           good(c, m) == Good(alive, algorithm, healthy, c, m)
<1>1. SUFFICES ASSUME alive # {}
               PROVE  \E c \in Int : /\ c % n = Advanced % n
                                     /\ Cardinality(good(c, misses')) <= late'
  BY DEF MissesFit
<1>2. PICK c \in Int : c % n = cursor % n /\ Cardinality(good(c, misses)) <= late
  BY <1>1 DEF MissesFit
<1>3. alive \in SUBSET Instances /\ cursor \in Int /\ misses \in Nat /\ late \in Nat
  BY CursorAssumption DEF Parts
<1>4. (c + 1) % n = Advanced % n /\ c + 1 \in Int
  BY <1>1, <1>2, AdvancesTogether
<1>5. j = Pick(alive, algorithm, c)
  BY <1>1, <1>2, <1>3, PickRepeats
<1>6. /\ IsFiniteSet(good(c, misses)) /\ Cardinality(good(c, misses)) \in Nat
      /\ Cardinality(good(c + 1, 0)) = 0 /\ Cardinality(good(c + 1, misses + 1)) \in Nat
  <2>1. misses + 1 \in Nat
    BY <1>3
  <2> QED BY <1>3, <1>4, <2>1, GoodIsFinite
<1>7. good(c + 1, misses + 1) = IF j \in healthy THEN good(c, misses) \cup {c} ELSE good(c, misses)
  <2>1. \A s : s \in (c + 1) - (misses + 1) .. (c + 1) - 1 <=> s \in c - misses .. c - 1 \/ s = c
    BY <1>3
  <2> QED BY <1>5, <2>1 DEF Good
<1>8. Cardinality(good(c + 1, misses + 1))
        <= IF j \in healthy THEN Cardinality(good(c, misses)) + 1
                            ELSE Cardinality(good(c, misses))
  <2> DEFINE old == good(c, misses)
             new == good(c + 1, misses + 1)
  <2>1. Cardinality(old \cup {c}) <= Cardinality(old) + 1
    <3> HIDE DEF old
    <3>1. Cardinality(old) \in Nat /\ IsFiniteSet(old)
      BY <1>6 DEF old
    <3> QED BY <3>1, FS_AddElement
  <2>2. Cardinality(old) <= Cardinality(old)
    BY <1>6
  <2>3. new = IF j \in healthy THEN old \cup {c} ELSE old
    BY <1>7
  <2> HIDE DEF old, new, j
  <2>4. Cardinality(new) <= IF j \in healthy THEN Cardinality(old) + 1 ELSE Cardinality(old)
    BY <2>1, <2>2, <2>3
  <2> QED BY <2>4 DEF old, new
<1>9. CASE CountPick(j)
  <2>1. late' = late /\ misses' = IF j \in healthy THEN 0 ELSE misses + 1
    BY <1>9 DEF CountPick
  <2>2. Cardinality(good(c + 1, misses')) <= late'
    <3> HIDE DEF good, j
    <3> QED BY <1>2, <1>3, <1>6, <1>8, <2>1
  <2> QED BY <1>4, <2>2
<1>10. CASE CountLatePick
  <2>1. late' = late + 1 /\ misses' = misses + 1
    BY <1>10 DEF CountLatePick
  <2>2. Cardinality(good(c + 1, misses')) <= late'
    <3>1. Cardinality(good(c + 1, misses')) \in Nat
      BY <1>3, <1>4, <2>1, GoodIsFinite
    <3> HIDE DEF good, j
    <3> QED BY <1>2, <1>3, <1>6, <1>8, <2>1, <3>1
  <2> QED BY <1>4, <2>2
<1> QED BY <1>9, <1>10

\* Who has a share gets a number in each of m turns.
LEMMA DrawnEveryTurn ==
  ASSUME NEW A \in SUBSET Instances, NEW a, NEW i \in A, NEW c \in Int, Share(A, a, i) > 0
  PROVE  \A m \in Nat : \E D \in SUBSET Drawn(A, a, c, m * Turn(A, a), i) :
                           IsFiniteSet(D) /\ Cardinality(D) = m
<1> DEFINE n == Turn(A, a)
           Has(m) == \E D \in SUBSET Drawn(A, a, c, m * n, i) : IsFiniteSet(D) /\ Cardinality(D) = m
           G == {m \in Nat : Has(m)}
<1>1. n \in Nat \ {0}
  BY TurnIs
<1>2. 0 \in G
  <2>1. {} \in SUBSET Drawn(A, a, c, 0 * n, i) /\ IsFiniteSet({}) /\ Cardinality({}) = 0
    BY FS_EmptySet
  <2> QED BY <2>1
<1>3. ASSUME NEW m \in Nat, m \in G PROVE m + 1 \in G
  <2> DEFINE w == m * n
             v == (m + 1) * n
             d == c - w
  <2>1. w \in Nat /\ v = w + n /\ d \in Int
    <3>1. m * n \in Nat /\ (m + 1) * n = m * n + n
      <4> HIDE DEF n
      <4> QED BY <1>1
    <3> DEFINE p == m * n
    <3> HIDE DEF p
    <3>2. p \in Nat /\ c - p \in Int
      BY <3>1 DEF p
    <3> QED BY <3>1, <3>2 DEF p
  <2>2. PICK D \in SUBSET Drawn(A, a, c, w, i) : IsFiniteSet(D) /\ Cardinality(D) = m
    BY <1>3
  <2>3. PICK s : s \in Drawn(A, a, d, n, i)
    <3>1. Cardinality(Drawn(A, a, d, n, i)) = Share(A, a, i)
      <4>1. n \in Nat /\ n <= n
        <5> HIDE DEF n
        <5> QED BY <1>1
      <4> QED BY <2>1, <4>1, SharesDrawn
    <3>2. Share(A, a, i) # 0
      OBVIOUS
    <3> QED BY <3>1, <3>2, FS_EmptySet
  <2>4. /\ s \notin c - w .. c - 1 /\ s \in c - v .. c - 1 /\ Pick(A, a, s) = i
        /\ \A e \in c - w .. c - 1 : e \in c - v .. c - 1
    <3>1. s \in d - n .. d - 1 /\ Pick(A, a, s) = i
      BY <2>3 DEF Drawn
    <3>2. d = c - w
      OBVIOUS
    <3> HIDE DEF n, w, v, d
    <3> QED BY <1>1, <2>1, <3>1, <3>2
  <2>5. s \notin D /\ D \cup {s} \in SUBSET Drawn(A, a, c, v, i)
    <3> HIDE DEF w, v
    <3> QED BY <2>2, <2>4 DEF Drawn
  <2>6. IsFiniteSet(D \cup {s}) /\ Cardinality(D \cup {s}) = m + 1
    BY <2>2, <2>5, FS_AddElement
  <2> QED BY <2>5, <2>6
<1> HIDE DEF G
<1>4. \A m \in Nat : m \in G
  BY <1>2, <1>3, NaturalInduction
<1> QED BY <1>4 DEF G

-----------------------------------------------------------------------------
NumbersFit == SharesInv /\ MissesFit(alive, algorithm, healthy, cursor, misses, late)

LEMMA NextKeepsNumbers == IInv /\ NumbersFit /\ [Next]_vars => NumbersFit'
<1> SUFFICES ASSUME IInv, NumbersFit, [Next]_vars PROVE NumbersFit'
  OBVIOUS
<1>1. /\ Parts /\ HandlersFit /\ Parts' /\ cursor \in Int /\ cursor' \in Int
      /\ late \in Nat /\ Cardinality(Handlers) \in Nat
  <2>1. Parts /\ Parts' /\ HandlersFit
    BY NextKeepsInv DEF IInv
  <2>2. cursor \in Int /\ cursor' \in Int /\ late \in Nat
    BY <2>1, CursorAssumption DEF Parts
  <2> QED BY <2>1, <2>2, HandlersAssumption, FS_CardinalityType
<1>2. /\ SharesFit(alive, algorithm, cursor, picks, late)
      /\ MissesFit(alive, algorithm, healthy, cursor, misses, late)
      /\ late + Cardinality(Stale) <= Cardinality(Handlers)
  BY DEF NumbersFit, SharesInv
<1>3. ASSUME NEW h \in Handlers, NEW k, Step(h, k), k.pc = "count" => k.snap = alive,
             UNCHANGED <<alive, algorithm, healthy>>,
             \/ UNCHANGED <<cursor, picks, late, misses>>
             \/ /\ cursor' = Advanced
                /\ alive # {} /\ CountPick(Pick(alive, algorithm, cursor))
             \/ cursor' = Advanced /\ CountLatePick /\ h \in Stale
      PROVE  NumbersFit'
  <2>1. /\ Cardinality(Stale) \in Nat
        /\ Cardinality(Stale') \in Nat /\ Cardinality(Stale') <= Cardinality(Stale)
        /\ h \in Stale => Cardinality(Stale') + 1 <= Cardinality(Stale)
    BY <1>1, <1>3, StaleShrinks
  <2>2. late' + Cardinality(Stale') <= Cardinality(Handlers)
    <3>1. CASE UNCHANGED <<cursor, picks, late, misses>>
      BY <1>1, <1>2, <2>1, <3>1
    <3>2. CASE CountPick(Pick(alive, algorithm, cursor))
      <4>1. late' = late
        BY <3>2 DEF CountPick
      <4> QED BY <1>1, <1>2, <2>1, <4>1
    <3>3. CASE CountLatePick /\ h \in Stale
      <4>1. late' = late + 1
        BY <3>3 DEF CountLatePick
      <4> QED BY <1>1, <1>2, <2>1, <3>3, <4>1
    <3> QED BY <1>3, <3>1, <3>2, <3>3
  <2>3. /\ SharesFit(alive, algorithm, cursor', picks', late')
        /\ MissesFit(alive, algorithm, healthy, cursor', misses', late')
    BY <1>1, <1>2, <1>3, DrawKeepsShares, DrawKeepsMisses
  <2> QED BY <1>3, <2>2, <2>3 DEF NumbersFit, SharesInv
<1>4. ASSUME NEW i \in Instances, StatusChange(i) PROVE NumbersFit'
  <2>1. /\ UNCHANGED <<alive, algorithm, cursor, handler, picks, late>> /\ misses' = 0
    BY <1>4 DEF StatusChange, balancer
  <2>2. MissesFit(alive, algorithm, healthy', cursor, 0, late)
    BY <1>1, NothingMissed
  <2> QED BY <1>2, <2>1, <2>2 DEF NumbersFit, SharesInv, Stale
<1>5. CASE SetInstanceAlive
  <2>1. UNCHANGED <<algorithm, cursor, healthy, handler>>
    BY <1>5 DEF SetInstanceAlive
  <2>2. CASE alive' = alive
    <3>1. UNCHANGED <<picks, late, misses>>
      BY <1>5, <2>2 DEF SetInstanceAlive
    <3> QED BY <1>2, <2>1, <2>2, <3>1 DEF NumbersFit, SharesInv, Stale
  <2>3. CASE alive' # alive
    <3>1. picks' = NoPicks /\ late' = 0 /\ misses' = 0 /\ alive' \in SUBSET Instances
      BY <1>1, <1>5, <2>3 DEF SetInstanceAlive, Parts
    <3>2. Stale' \in SUBSET Handlers
      BY DEF Stale
    <3>3. Cardinality(Stale') \in Nat /\ Cardinality(Stale') <= Cardinality(Handlers)
      BY <3>2, HandlersAssumption, FS_Subset, FS_CardinalityType
    <3>4. late' + Cardinality(Stale') <= Cardinality(Handlers)
      BY <1>1, <3>1, <3>3
    <3>5. /\ SharesFit(alive', algorithm, cursor, NoPicks, 0)
          /\ MissesFit(alive', algorithm, healthy, cursor, 0, 0)
      BY <1>1, <3>1, NothingDrawn, NothingMissed
    <3> QED BY <2>1, <3>1, <3>4, <3>5 DEF NumbersFit, SharesInv
  <2> QED BY <2>2, <2>3
<1>6. CASE UNCHANGED vars
  BY <1>2, <1>6 DEF vars, balancer, observers, NumbersFit, SharesInv, Stale
<1>7. ASSUME NEW h \in Handlers,
             \/ \E c \in Callers[algorithm] : Begin(h, c)
             \/ \E hash \in Hashes : GetInstanceByKey(h, hash) \/ NextByCounter(h, hash)
             \/ CheckKey(h) \/ NextNone(h) \/ NextRoundRobin(h) \/ SnapshotWeighted(h)
             \/ NextWeighted(h) \/ NextLeastConnections(h) \/ Accept(h) \/ Retry(h)
             \/ Exhaust(h) \/ Finish(h) \/ FinishValidate(h)
      PROVE  NumbersFit'
  BY <1>3, <1>7, HandlerSteps
<1> QED BY <1>4, <1>5, <1>6, <1>7 DEF Next

LEMMA NumbersInvariance == Spec => [](IInv /\ NumbersFit)
<1>1. Init => IInv /\ NumbersFit
  <2> SUFFICES ASSUME Init PROVE NumbersFit
    BY InitInv
  <2>1. /\ cursor = 0 /\ picks = NoPicks /\ late = 0 /\ misses = 0 /\ alive \in SUBSET Instances
        /\ \A h \in Handlers : handler[h].pc # "count"
    BY IdleIs DEF Init
  <2>2. Stale = {}
    BY <2>1 DEF Stale
  <2>3. late + Cardinality(Stale) <= Cardinality(Handlers)
    BY <2>1, <2>2, HandlersAssumption, FS_EmptySet, FS_CardinalityType
  <2> QED BY <2>1, <2>3, NothingDrawn, NothingMissed DEF NumbersFit, SharesInv
<1>2. IInv /\ NumbersFit /\ [Next]_vars => (IInv /\ NumbersFit)'
  BY NextKeepsInv, NextKeepsNumbers
<1> QED BY <1>1, <1>2, PTL DEF Spec

\* However many handlers race for the cursor: as long as rotation does not change, every
\* instance has had its weight's worth of each complete turn and at most that of one turn
\* more, but for the numbers that went to late picks, of which each handler makes at most
\* one. Nothing is assumed of the weights.
THEOREM SharesAreKept == Spec => []ShareKept
<1>1. ASSUME IInv, NumbersFit, NEW i \in alive
      PROVE  LET turn  == Turn(alive, algorithm)
                 drawn == TotalPicks + late
             IN /\ picks[i] + late >= (drawn \div turn) * Share(alive, algorithm, i)
                /\ picks[i] <= ((drawn + turn - 1) \div turn) * Share(alive, algorithm, i)
  <2> DEFINE n == Turn(alive, algorithm)
             share == Share(alive, algorithm, i)
             drawn == TotalPicks + late
  <2>1. /\ alive \in SUBSET Instances /\ picks \in [Instances -> Nat] /\ late \in Nat
        /\ n \in Nat \ {0} /\ alive # {}
    BY <1>1, TurnIs DEF IInv, Parts
  <2>2. PICK c \in Int, q \in Nat, t \in Nat :
          /\ t < n /\ q * n + t = drawn
          /\ picks[i] <= Due(alive, algorithm, q, c, t, i)
          /\ Due(alive, algorithm, q, c, t, i) <= picks[i] + late
    BY <1>1, <2>1 DEF NumbersFit, SharesInv, SharesFit, TotalPicks, SumOver
  <2> DEFINE card == Cardinality(Drawn(alive, algorithm, c, t, i))
  <2>3. t <= n
    <3> HIDE DEF n
    <3> QED BY <2>1, <2>2
  <2>4. card \in Nat /\ card <= share /\ share \in Nat /\ (t = 0 => card = 0)
    <3>1. t = 0 => Drawn(alive, algorithm, c, t, i) = {}
      BY DEF Drawn
    <3> QED BY <2>1, <2>3, <3>1, SharesDrawn, PickInSegment, FS_EmptySet
  <2>5. picks[i] <= q * share + card /\ q * share + card <= picks[i] + late /\ picks[i] \in Nat
    BY <2>1, <2>2 DEF Due
  <2>6. drawn \div n = q
    <3> HIDE DEF n, drawn
    <3> QED BY <2>1, <2>2, QuotientIs
  <2>7. (drawn + n - 1) \div n = IF t = 0 THEN q ELSE q + 1
    <3>1. CASE t = 0
      <4> HIDE DEF n, drawn
      <4>1. drawn + n - 1 = q * n + (n - 1) /\ n - 1 \in 0 .. n - 1
        BY <2>1, <2>2, <3>1
      <4> QED BY <2>1, <3>1, <4>1, QuotientIs
    <3>2. CASE t # 0
      <4> HIDE DEF n, drawn
      <4>1. drawn + n - 1 = (q + 1) * n + (t - 1) /\ t - 1 \in 0 .. n - 1 /\ q + 1 \in Int
        BY <2>1, <2>2, <3>2
      <4> QED BY <2>1, <3>2, <4>1, QuotientIs
    <3> QED BY <3>1, <3>2
  <2>8. picks[i] + late >= q * share
    <3> HIDE DEF share, card
    <3> QED BY <2>1, <2>4, <2>5
  <2>9. picks[i] <= (IF t = 0 THEN q ELSE q + 1) * share
    <3> HIDE DEF share, card
    <3>1. (q + 1) * share = q * share + share /\ q * share \in Nat
      BY <2>4
    <3> QED BY <2>1, <2>4, <2>5, <3>1
  <2> HIDE DEF n, share, drawn
  <2> QED BY <2>6, <2>7, <2>8, <2>9 DEF n, share, drawn
<1>2. IInv /\ NumbersFit => late <= Cardinality(Handlers)
  <2> SUFFICES ASSUME IInv, NumbersFit PROVE late <= Cardinality(Handlers)
    OBVIOUS
  <2>1. Stale \in SUBSET Handlers
    BY DEF Stale
  <2>2. Cardinality(Stale) \in Nat /\ Cardinality(Handlers) \in Nat /\ late \in Nat
    BY <2>1, HandlersAssumption, FS_Subset, FS_CardinalityType DEF IInv, Parts
  <2>3. late + Cardinality(Stale) <= Cardinality(Handlers)
    BY DEF NumbersFit, SharesInv
  <2> QED BY <2>2, <2>3
<1>3. IInv /\ NumbersFit => ShareKept
  BY <1>1, <1>2 DEF ShareKept
<1> QED BY <1>3, NumbersInvariance, PTL

\* However many handlers take numbers from each other and whatever the weights: while a
\* healthy instance with a share is in rotation, a turn of numbers never passes without
\* bringing a handler to a healthy one, unless late picks withheld its numbers.
THEOREM TurnsFindHealthy == Spec => []TurnFindsHealthy
<1>1. ASSUME IInv, NumbersFit, NEW i \in alive \cap healthy, Share(alive, algorithm, i) > 0
      PROVE  misses < (late + 1) * Turn(alive, algorithm)
  <2> DEFINE n == Turn(alive, algorithm)
             w == (late + 1) * n
  <2>1. /\ alive \in SUBSET Instances /\ alive # {} /\ misses \in Nat /\ late \in Nat
        /\ late + 1 \in Nat
    BY <1>1 DEF IInv, Parts
  <2>2. n \in Nat \ {0} /\ w \in Nat
    <3>1. n \in Nat \ {0}
      BY <2>1, TurnIs
    <3> HIDE DEF n
    <3> QED BY <2>1, <3>1
  <2>3. SUFFICES ASSUME w <= misses PROVE FALSE
    <3> HIDE DEF w
    <3>1. ~(w <= misses) => misses < w
      BY <2>1, <2>2
    <3> QED BY <3>1 DEF w
  <2>4. PICK c \in Int : Cardinality(Good(alive, algorithm, healthy, c, misses)) <= late
    BY <1>1, <2>1 DEF NumbersFit, MissesFit
  <2>5. PICK D \in SUBSET Drawn(alive, algorithm, c, w, i) :
          IsFiniteSet(D) /\ Cardinality(D) = late + 1
    BY <1>1, <2>1, DrawnEveryTurn
  <2>6. D \in SUBSET Good(alive, algorithm, healthy, c, misses)
    <3>1. \A s \in c - w .. c - 1 : s \in c - misses .. c - 1
      <4> HIDE DEF w
      <4> QED BY <2>1, <2>2, <2>3
    <3> HIDE DEF w
    <3> QED BY <1>1, <2>5, <3>1 DEF Drawn, Good
  <2>7. /\ Cardinality(D) <= Cardinality(Good(alive, algorithm, healthy, c, misses))
        /\ Cardinality(Good(alive, algorithm, healthy, c, misses)) \in Nat
    BY <2>1, <2>6, GoodIsFinite, FS_Subset
  <2> QED BY <2>1, <2>4, <2>5, <2>7
<1>2. IInv /\ NumbersFit => TurnFindsHealthy
  BY <1>1 DEF TurnFindsHealthy
<1> QED BY <1>2, NumbersInvariance, PTL
=============================================================================
