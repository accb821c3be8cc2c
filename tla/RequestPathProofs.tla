------------------------- MODULE RequestPathProofs --------------------------
(***************************************************************************)
(* Theorems about RequestPath for every set of services, rules and         *)
(* scenarios: that one monitor goes on, that an edit of a route leaves     *)
(* other paths alone, that traffic is split as the weights say, that the   *)
(* metrics report what was observed, and that it all implements            *)
(* RequestContract.                                                        *)
(***************************************************************************)
EXTENDS RequestPath, Numbers, FiniteSetTheorems, TLAPS

-----------------------------------------------------------------------------
(* Numbers and lists                                                       *)

\* Among finitely many places one has the largest value.
LEMMA LargestValue ==
  ASSUME NEW n \in Nat, NEW S \in SUBSET (1 .. n), S # {}, NEW f \in [S -> Int]
  PROVE  \E i \in S : \A j \in S : f[j] <= f[i]
<1> DEFINE Largest(k) == \E i \in S : i <= k /\ \A j \in S : j <= k => f[j] <= f[i]
           Bad == {k \in Nat : (\E i \in S : i <= k) /\ ~Largest(k)}
<1>1. \A i \in S : i \in Nat /\ i # 0 /\ i <= n /\ f[i] \in Int
  OBVIOUS
<1>2. SUFFICES ASSUME Bad # {} PROVE FALSE
  <2>1. n \notin Bad
    OBVIOUS
  <2>2. (\E i \in S : i <= n) => Largest(n)
    BY <2>1
  <2> QED BY <1>1, <2>2
<1>3. Bad \in SUBSET Nat
  OBVIOUS
<1>4. PICK k \in Bad : \A l \in Bad : k <= l
  <2> HIDE DEF Bad
  <2> QED BY <1>2, <1>3, LeastNumber
<1>5. /\ k \in Nat /\ (\E i \in S : i <= k) /\ ~Largest(k)
      /\ \A l \in Nat : l < k /\ (\E i \in S : i <= l) => Largest(l)
  <2>1. \A l \in Nat : l < k => l \notin Bad
    <3> HIDE DEF Bad
    <3> QED BY <1>3, <1>4
  <2> QED BY <2>1
<1> HIDE DEF Bad
<1>6. k \in Nat /\ k - 1 \in Nat /\ k - 1 < k
  BY <1>1, <1>5
<1>7. CASE \E i \in S : i <= k - 1
  <2>1. PICK i \in S : i <= k - 1 /\ \A j \in S : j <= k - 1 => f[j] <= f[i]
    BY <1>5, <1>6, <1>7
  <2>2. CASE k \in S /\ f[k] > f[i]
    <3>1. \A j \in S : j <= k => f[j] <= f[k]
      BY <1>1, <1>6, <2>1, <2>2
    <3> QED BY <1>1, <1>5, <2>2, <3>1
  <2>3. CASE ~(k \in S /\ f[k] > f[i])
    <3>1. \A j \in S : j <= k => f[j] <= f[i]
      BY <1>1, <1>6, <2>1, <2>3
    <3>2. i <= k
      BY <1>1, <1>6, <2>1
    <3> QED BY <1>5, <3>1, <3>2
  <2> QED BY <2>2, <2>3
<1>8. CASE ~\E i \in S : i <= k - 1
  <2>1. \A i \in S : i <= k => i = k
    BY <1>1, <1>5, <1>6, <1>8
  <2> QED BY <1>1, <1>5, <2>1
<1> QED BY <1>7, <1>8

LEMMA ListFacts ==
  ASSUME NEW s, IsList(s)
  PROVE  Len(s) \in Nat /\ DOMAIN s = 1 .. Len(s)
BY DEF IsList

LEMMA SequenceIsList ==
  ASSUME NEW S, NEW s \in Seq(S)
  PROVE  IsList(s)
<1>1. s \in [1 .. Len(s) -> {s[i] : i \in DOMAIN s}]
  OBVIOUS
<1> QED BY <1>1 DEF IsList

LEMMA FunctionIsList ==
  ASSUME NEW n \in Nat, NEW s, s = [i \in 1 .. n |-> s[i]]
  PROVE  IsList(s) /\ Len(s) = n
<1>1. s \in [1 .. n -> {s[i] : i \in 1 .. n}]
  OBVIOUS
<1>2. s \in Seq({s[i] : i \in 1 .. n})
  BY <1>1
<1>3. DOMAIN s = 1 .. n
  OBVIOUS
<1>4. Len(s) = n
  BY <1>2, <1>3
<1> QED BY <1>2, <1>4, SequenceIsList

LEMMA AppendIsList ==
  ASSUME NEW s, IsList(s), NEW x
  PROVE  /\ IsList(Append(s, x)) /\ Len(Append(s, x)) = Len(s) + 1
         /\ DOMAIN Append(s, x) = 1 .. Len(s) + 1
         /\ Append(s, x)[Len(s) + 1] = x
         /\ \A i \in DOMAIN s : Append(s, x)[i] = s[i]
<1> DEFINE S == {s[i] : i \in DOMAIN s} \cup {x}
<1>1. s \in Seq(S) /\ x \in S
  BY DEF IsList
<1>2. Append(s, x) \in Seq(S)
  BY <1>1
<1>3. IsList(Append(s, x))
  BY <1>2, SequenceIsList
<1> HIDE DEF S
<1>4. /\ Len(Append(s, x)) = Len(s) + 1 /\ DOMAIN s = 1 .. Len(s)
      /\ Append(s, x)[Len(s) + 1] = x
      /\ \A i \in 1 .. Len(s) : Append(s, x)[i] = s[i]
  BY <1>1
<1>5. DOMAIN Append(s, x) = 1 .. Len(s) + 1
  BY <1>3, <1>4, ListFacts
<1> QED BY <1>3, <1>4, <1>5

\* The elements kept are those at the given places, in their order.
LEMMA KeptInOrder ==
  ASSUME NEW seq, IsList(seq), NEW places \in SUBSET DOMAIN seq
  PROVE  \E p \in [DOMAIN Kept(seq, places) -> places] :
           /\ IsList(Kept(seq, places))
           /\ \A k \in DOMAIN Kept(seq, places) : Kept(seq, places)[k] = seq[p[k]]
           /\ \A k, l \in DOMAIN Kept(seq, places) : k < l => p[k] < p[l]
           /\ \A i \in places : \E k \in DOMAIN Kept(seq, places) : p[k] = i
<1> DEFINE UpTo(i) == {j \in places : j <= i}
           n == Len(seq)
           c == Cardinality(places)
<1>1. n \in Nat /\ DOMAIN seq = 1 .. n /\ places \in SUBSET (1 .. n)
  BY ListFacts
<1>0. \A j \in places : j \in Nat /\ j # 0 /\ j <= n
  BY <1>1
<1>2. IsFiniteSet(places)
  <2> DEFINE one == 1
  <2>1. one \in Int /\ n \in Int /\ places \in SUBSET (one .. n)
    BY <1>1
  <2> HIDE DEF one, n
  <2>2. IsFiniteSet(one .. n)
    BY <2>1, FS_Interval
  <2> QED BY <2>1, <2>2, FS_Subset
<1>3. c \in Nat
  BY <1>2, FS_CardinalityType
<1>4. \A i : UpTo(i) \in SUBSET places
  OBVIOUS
<1>5. \A T \in SUBSET places : IsFiniteSet(T) /\ Cardinality(T) \in Nat /\ Cardinality(T) <= c
  BY <1>2, FS_Subset, FS_CardinalityType
<1> DEFINE count == [i \in 0 .. n |-> Cardinality(UpTo(i))]
<1>6. \A i \in 0 .. n : count[i] \in Nat /\ count[i] <= c
  <2> HIDE DEF UpTo, c
  <2> QED BY <1>4, <1>5
<1>7. ASSUME NEW i \in 0 .. n, i # 0
      PROVE  i - 1 \in 0 .. n /\ count[i] = IF i \in places THEN count[i - 1] + 1 ELSE count[i - 1]
  <2>1. i \in Nat /\ i - 1 \in 0 .. n /\ i - 1 < i
    BY <1>1, <1>7
  <2>2. CASE i \notin places
    <3>1. UpTo(i) = UpTo(i - 1)
      <4>1. \A j \in places : j <= i <=> j <= i - 1
        BY <1>0, <2>1, <2>2
      <4> QED BY <4>1
    <3> QED BY <2>1, <2>2, <3>1
  <2>3. CASE i \in places
    <3>1. UpTo(i) = UpTo(i - 1) \cup {i} /\ i \notin UpTo(i - 1)
      <4>1. \A j \in places : j <= i <=> j <= i - 1 \/ j = i
        BY <1>0, <2>1
      <4>2. i \notin UpTo(i - 1) /\ i <= i
        BY <2>1
      <4> QED BY <2>3, <4>1, <4>2
    <3>2. Cardinality(UpTo(i)) = Cardinality(UpTo(i - 1)) + 1
      <4> HIDE DEF UpTo
      <4> QED BY <1>4, <1>5, <3>1, FS_AddElement
    <3> QED BY <2>1, <2>3, <3>2
  <2> QED BY <2>1, <2>2, <2>3
<1>8. count[0] = 0
  <2>1. UpTo(0) = {}
    BY <1>0
  <2>2. 0 \in 0 .. n
    BY <1>1
  <2> QED BY <2>1, <2>2, FS_EmptySet
<1>9. count[n] = c
  <2>1. UpTo(n) = places
    BY <1>0
  <2>2. n \in 0 .. n
    BY <1>1
  <2> QED BY <2>1, <2>2
<1> DEFINE kept == [k \in 1 .. c |-> seq[CHOOSE i \in places : Cardinality(UpTo(i)) = k]]
<1>10. Kept(seq, places) = kept
  BY DEF Kept
<1>11. ASSUME NEW i \in places, NEW j \in places, i < j PROVE count[i] < count[j]
  <2>1. i \in 0 .. n /\ j \in 0 .. n
    BY <1>0, <1>1
  <2>2. UpTo(i) \in SUBSET UpTo(j) /\ j \in UpTo(j) /\ j \notin UpTo(i)
    <3>1. \A k \in places : k <= i => k <= j
      BY <1>0, <1>11
    <3>2. ~(j <= i) /\ j <= j
      BY <1>0, <1>11
    <3> QED BY <3>1, <3>2
  <2>3. /\ IsFiniteSet(UpTo(j)) /\ UpTo(i) \in SUBSET (UpTo(j) \ {j})
        /\ IsFiniteSet(UpTo(j) \ {j}) /\ Cardinality(UpTo(i)) <= Cardinality(UpTo(j) \ {j})
        /\ Cardinality(UpTo(j) \ {j}) = Cardinality(UpTo(j)) - 1
    <3>0. UpTo(j) \in SUBSET places
      OBVIOUS
    <3> HIDE DEF UpTo
    <3>1. IsFiniteSet(UpTo(j)) /\ UpTo(i) \in SUBSET (UpTo(j) \ {j}) /\ IsFiniteSet(UpTo(j) \ {j})
      BY <1>5, <2>2, <3>0, FS_Subset
    <3>2. Cardinality(UpTo(i)) <= Cardinality(UpTo(j) \ {j})
      BY <3>1, FS_Subset
    <3>3. Cardinality(UpTo(j) \ {j}) = Cardinality(UpTo(j)) - 1
      BY <2>2, <3>1, FS_RemoveElement
    <3> QED BY <3>1, <3>2, <3>3
  <2>4. count[i] <= count[j] - 1
    <3> HIDE DEF UpTo
    <3> QED BY <2>1, <2>3
  <2> HIDE DEF count
  <2> QED BY <1>6, <2>1, <2>4
<1>12. \A i \in places : i \in 0 .. n /\ count[i] = Cardinality(UpTo(i))
  BY <1>0, <1>1
<1>13. \A i \in places : count[i] \in 1 .. c
  <2> SUFFICES ASSUME NEW i \in places PROVE count[i] \in 1 .. c
    OBVIOUS
  <2>1. i \in 0 .. n /\ i # 0
    BY <1>0, <1>12
  <2>2. count[i] = count[i - 1] + 1 /\ count[i - 1] \in Nat /\ count[i] \in Nat /\ count[i] <= c
    <3>1. i - 1 \in 0 .. n
      BY <1>7, <2>1
    <3> HIDE DEF count, c
    <3> QED BY <1>6, <1>7, <2>1, <3>1
  <2> HIDE DEF count, c
  <2> QED BY <1>3, <2>2
<1>14. ASSUME NEW k \in 1 .. c PROVE \E i \in places : count[i] = k
  <2> HIDE DEF count, c, UpTo
  <2> DEFINE Enough == {i \in 0 .. n : count[i] >= k}
  <2>1. k \in Nat /\ k # 0 /\ k <= c
    BY <1>3
  <2>2. n \in Enough /\ Enough \in SUBSET Nat
    BY <1>1, <1>3, <1>9, <2>1
  <2>3. PICK i \in Enough : \A j \in Enough : i <= j
    <3> HIDE DEF Enough
    <3> QED BY <2>2, LeastNumber
  <2>4. i \in 0 .. n /\ i \in Nat /\ count[i] >= k
    BY <1>1
  <2>5. i # 0
    BY <1>8, <2>1, <2>4
  <2>6. i - 1 \in 0 .. n /\ i - 1 \notin Enough
    <3>1. i - 1 \in 0 .. n /\ ~(i <= i - 1)
      BY <1>1, <2>4, <2>5
    <3> HIDE DEF Enough
    <3> QED BY <2>3, <3>1
  <2>7. count[i - 1] < k /\ count[i - 1] \in Nat /\ count[i] \in Nat
    BY <1>6, <2>1, <2>4, <2>6
  <2>8. i \in places /\ count[i] = count[i - 1] + 1
    BY <1>7, <2>1, <2>4, <2>5, <2>7
  <2> QED BY <2>1, <2>4, <2>7, <2>8
<1> DEFINE place(k) == CHOOSE i \in places : Cardinality(UpTo(i)) = k
           p == [k \in 1 .. c |-> place(k)]
<1>15. \A k \in 1 .. c : p[k] \in places /\ count[p[k]] = k
  <2> SUFFICES ASSUME NEW k \in 1 .. c PROVE p[k] \in places /\ count[p[k]] = k
    OBVIOUS
  <2>1. \E i \in places : Cardinality(UpTo(i)) = k
    <3> HIDE DEF UpTo, count
    <3> QED BY <1>12, <1>14
  <2>2. p[k] \in places /\ Cardinality(UpTo(p[k])) = k
    <3>1. p[k] = CHOOSE i \in places : Cardinality(UpTo(i)) = k
      OBVIOUS
    <3> HIDE DEF UpTo, p
    <3> QED BY <2>1, <3>1
  <2> HIDE DEF UpTo, count, p
  <2> QED BY <1>12, <2>2
<1>16. DOMAIN kept = 1 .. c /\ \A k \in 1 .. c : kept[k] = seq[p[k]]
  OBVIOUS
<1>17. IsList(kept)
  BY <1>3, FunctionIsList
<1>18. p \in [1 .. c -> places]
  <2> HIDE DEF place, c, UpTo, count
  <2>1. \A k \in 1 .. c : place(k) \in places
    BY <1>15
  <2> QED BY <2>1
<1> HIDE DEF kept, p, count, UpTo, c
<1>19. \A i, j \in places : count[i] < count[j] => i < j
  <2> SUFFICES ASSUME NEW i \in places, NEW j \in places, count[i] < count[j] PROVE i < j
    OBVIOUS
  <2>1. i \in Nat /\ j \in Nat /\ count[i] \in Nat /\ count[j] \in Nat
    BY <1>0, <1>6, <1>12
  <2>2. i # j /\ ~(j < i)
    BY <1>11, <2>1
  <2> QED BY <2>1, <2>2
<1>20. \A k, l \in 1 .. c : k < l => p[k] < p[l]
  BY <1>15, <1>19
<1>21. \A i \in places : \E k \in 1 .. c : p[k] = i
  <2> SUFFICES ASSUME NEW i \in places PROVE \E k \in 1 .. c : p[k] = i
    OBVIOUS
  <2>1. count[i] \in 1 .. c /\ p[count[i]] \in places /\ count[p[count[i]]] = count[i]
    BY <1>13, <1>15
  <2>2. p[count[i]] \in Nat /\ i \in Nat /\ count[i] \in Nat
    BY <1>0, <1>3, <2>1
  <2>3. ~(p[count[i]] < i) /\ ~(i < p[count[i]])
    BY <1>11, <2>1, <2>2
  <2>4. p[count[i]] = i
    BY <2>2, <2>3
  <2> QED BY <2>1, <2>4
<1>22. /\ p \in [DOMAIN kept -> places] /\ IsList(kept)
       /\ \A k \in DOMAIN kept : kept[k] = seq[p[k]]
       /\ \A k, l \in DOMAIN kept : k < l => p[k] < p[l]
       /\ \A i \in places : \E k \in DOMAIN kept : p[k] = i
  BY <1>16, <1>17, <1>18, <1>20, <1>21
<1> QED BY <1>10, <1>22

LEMMA KeptIsList ==
  ASSUME NEW seq, IsList(seq), NEW places \in SUBSET DOMAIN seq
  PROVE  /\ IsList(Kept(seq, places))
         /\ \A k \in DOMAIN Kept(seq, places) : \E i \in DOMAIN seq : Kept(seq, places)[k] = seq[i]
<1>1. PICK p \in [DOMAIN Kept(seq, places) -> places] :
           /\ IsList(Kept(seq, places))
           /\ \A k \in DOMAIN Kept(seq, places) : Kept(seq, places)[k] = seq[p[k]]
  BY KeptInOrder
<1> QED BY <1>1

-----------------------------------------------------------------------------
(* Configurations                                                          *)

\* What the configurations that serve requests are like.
Sound(cfg) == KnownConfig(cfg) /\ Acceptable(cfg)

LEMMA LengthOfPrefix ==
  ASSUME NEW prefix, IsList(prefix)
  PROVE  PrefixLength(prefix) \in Int
BY ListFacts DEF PrefixLength

\* What is put into a list is an item of it, and so is what was there and stays.
LEMMA UpsertIsList ==
  ASSUME NEW seq, IsList(seq), NEW item, NEW same \in SUBSET DOMAIN seq
  PROVE  /\ IsList(Upsert(seq, item, same))
         /\ \A k \in DOMAIN Upsert(seq, item, same) :
              \/ Upsert(seq, item, same)[k] = item
              \/ \E i \in DOMAIN seq : Upsert(seq, item, same)[k] = seq[i]
<1>1. CASE same = {}
  BY <1>1, AppendIsList, ListFacts DEF Upsert
<1>2. CASE same # {}
  <2> DEFINE put == [seq EXCEPT ![Min(same)] = item]
  <2>1. put = [i \in 1 .. Len(seq) |-> put[i]] /\ Len(seq) \in Nat
    BY ListFacts
  <2>2. \A k \in DOMAIN put : put[k] = item \/ put[k] = seq[k]
    OBVIOUS
  <2>3. DOMAIN put = DOMAIN seq /\ Upsert(seq, item, same) = put
    BY <1>2 DEF Upsert
  <2> HIDE DEF put
  <2>4. IsList(put)
    BY <2>1, FunctionIsList
  <2> QED BY <2>2, <2>3, <2>4
<1> QED BY <1>1, <1>2

-----------------------------------------------------------------------------
(* The route that is found                                                 *)

\* Lists of routes that can be ordered by their prefixes.
RouteList(routes) == IsList(routes) /\ \A i \in DOMAIN routes : IsList(routes[i].prefix)

\* The route r, at place i, goes before the route s at place j.
HasPath(r, path) == path # <<>> /\ r.path = path
Matches(r, path) == HasPath(r, path) \/ PrefixMatch(path, r.prefix)
GoesBefore(r, i, s, j, path) ==
  \/ HasPath(r, path) /\ ~HasPath(s, path)
  \/ HasPath(r, path) /\ HasPath(s, path) /\ i <= j
  \/ /\ ~HasPath(r, path) /\ ~HasPath(s, path)
     /\ \/ PrefixLength(s.prefix) < PrefixLength(r.prefix)
        \/ PrefixLength(s.prefix) = PrefixLength(r.prefix) /\ i <= j

\* The route found matches and goes before all others that do.
LEMMA FoundIs ==
  ASSUME NEW routes, RouteList(routes), NEW path
  PROVE  LET i == FindRouteByPathOnly(routes, path)
         IN \/ i = 0 /\ \A j \in DOMAIN routes : ~Matches(routes[j], path)
            \/ /\ i \in DOMAIN routes /\ Matches(routes[i], path)
               /\ \A j \in DOMAIN routes :
                    Matches(routes[j], path) => GoesBefore(routes[i], i, routes[j], j, path)
<1> DEFINE exact == ExactMatches(routes, path)
           found == PrefixMatches(routes, path)
           length == [i \in found |-> PrefixLength(routes[i].prefix)]
           longest == {i \in found : \A j \in found :
                         PrefixLength(routes[j].prefix) <= PrefixLength(routes[i].prefix)}
<1>1. DOMAIN routes = 1 .. Len(routes) /\ Len(routes) \in Nat
  BY ListFacts DEF RouteList
<1>2. exact \in SUBSET DOMAIN routes /\ found \in SUBSET DOMAIN routes
  BY DEF ExactMatches, PrefixMatches
<1>3. exact \in SUBSET Nat /\ longest \in SUBSET Nat /\ longest \in SUBSET DOMAIN routes
  BY <1>1, <1>2
<1>4. \A j \in DOMAIN routes : /\ j \in exact <=> HasPath(routes[j], path)
                               /\ j \in found <=> PrefixMatch(path, routes[j].prefix)
                               /\ PrefixLength(routes[j].prefix) \in Int
  BY LengthOfPrefix DEF ExactMatches, PrefixMatches, HasPath, RouteList
<1>5. CASE exact # {}
  <2> DEFINE i == Min(exact)
  <2> HIDE DEF exact, found, longest
  <2>1. i \in exact /\ \A j \in exact : i <= j
    BY <1>3, <1>5, MinIs
  <2>2. FindRouteByPathOnly(routes, path) = i
    BY <1>5 DEF FindRouteByPathOnly, exact
  <2> HIDE DEF i
  <2>3. i \in DOMAIN routes /\ Matches(routes[i], path)
    BY <1>2, <1>4, <2>1 DEF Matches
  <2>4. \A j \in DOMAIN routes : GoesBefore(routes[i], i, routes[j], j, path)
    BY <1>2, <1>4, <2>1 DEF GoesBefore
  <2> QED BY <2>2, <2>3, <2>4
<1>6. CASE exact = {} /\ found # {}
  <2>1. length \in [found -> Int]
    BY <1>2, <1>4
  <2>2. \E i \in found : \A j \in found : length[j] <= length[i]
    <3> HIDE DEF found, length
    <3> QED BY <1>1, <1>2, <1>6, <2>1, LargestValue
  <2>3. longest # {}
    BY <2>2
  <2> DEFINE i == Min(longest)
  <2>4. FindRouteByPathOnly(routes, path) = i
    BY <1>6 DEF FindRouteByPathOnly
  <2>5. i \in longest /\ \A j \in longest : i <= j
    <3> HIDE DEF longest
    <3> QED BY <1>3, <2>3, MinIs
  <2> HIDE DEF i
  <2>6. i \in found /\ \A j \in found : PrefixLength(routes[j].prefix) <= PrefixLength(routes[i].prefix)
    BY <2>5
  <2> HIDE DEF found, exact
  <2>7. i \in DOMAIN routes /\ Matches(routes[i], path)
    BY <1>2, <1>4, <2>6 DEF Matches
  <2>8. ASSUME NEW j \in DOMAIN routes, Matches(routes[j], path)
        PROVE  GoesBefore(routes[i], i, routes[j], j, path)
    <3>1. j \in found /\ ~HasPath(routes[j], path) /\ ~HasPath(routes[i], path)
      BY <1>4, <1>6, <2>7, <2>8 DEF Matches
    <3>2. PrefixLength(routes[j].prefix) <= PrefixLength(routes[i].prefix)
      BY <2>6, <3>1
    <3>3. PrefixLength(routes[j].prefix) = PrefixLength(routes[i].prefix) => j \in longest
      BY <2>6, <3>1
    <3> QED BY <1>4, <2>5, <2>7, <3>1, <3>2, <3>3 DEF GoesBefore
  <2> QED BY <2>4, <2>7, <2>8
<1>7. CASE exact = {} /\ found = {}
  <2>1. FindRouteByPathOnly(routes, path) = 0
    BY <1>7 DEF FindRouteByPathOnly
  <2>2. \A j \in DOMAIN routes : ~Matches(routes[j], path)
    BY <1>4, <1>7 DEF Matches
  <2> QED BY <2>1, <2>2
<1> QED BY <1>5, <1>6, <1>7

\* The route found is one of the routes.
LEMMA FoundRoute ==
  ASSUME NEW routes, IsList(routes), \A i \in DOMAIN routes : IsList(routes[i].prefix),
         NEW path, NEW method
  PROVE  FindRoute(routes, path, method) \in DOMAIN routes \cup {0}
BY FoundIs DEF RouteList, FindRoute

RouteIn(routes, path) ==
  LET i == FindRouteByPathOnly(routes, path) IN IF i = 0 THEN None ELSE routes[i]

\* The new list is part of the old one, in its order, but for the places M; p says which.
Aligned(p, old, new, M) ==
  /\ p \in [(DOMAIN new) \ M -> DOMAIN old]
  /\ \A k \in (DOMAIN new) \ M : new[k] = old[p[k]]
  /\ \A k, l \in (DOMAIN new) \ M : k < l => p[k] < p[l]

\* As long as the route found in the old one is still there, none but those of M replace it.
LEMMA FoundAgain ==
  ASSUME NEW old, RouteList(old), NEW new, RouteList(new), NEW M, NEW p, Aligned(p, old, new, M),
         NEW path,
         FindRouteByPathOnly(old, path) # 0 =>
           \E k \in (DOMAIN new) \ M : p[k] = FindRouteByPathOnly(old, path)
  PROVE  \/ FindRouteByPathOnly(new, path) \in M \cap DOMAIN new
         \/ RouteIn(new, path) = RouteIn(old, path)
<1> DEFINE i == FindRouteByPathOnly(old, path)
           j == FindRouteByPathOnly(new, path)
<1>0. /\ p \in [(DOMAIN new) \ M -> DOMAIN old]
      /\ \A k \in (DOMAIN new) \ M : new[k] = old[p[k]]
      /\ \A k, l \in (DOMAIN new) \ M : k < l => p[k] < p[l]
  BY DEF Aligned
<1>1. \/ i = 0 /\ \A k \in DOMAIN old : ~Matches(old[k], path)
      \/ /\ i \in DOMAIN old /\ Matches(old[i], path)
         /\ \A k \in DOMAIN old : Matches(old[k], path) => GoesBefore(old[i], i, old[k], k, path)
  BY FoundIs
<1>2. \/ j = 0 /\ \A k \in DOMAIN new : ~Matches(new[k], path)
      \/ /\ j \in DOMAIN new /\ Matches(new[j], path)
         /\ \A k \in DOMAIN new : Matches(new[k], path) => GoesBefore(new[j], j, new[k], k, path)
  BY FoundIs
<1>3. 0 \notin DOMAIN old /\ 0 \notin DOMAIN new /\ DOMAIN old \in SUBSET Nat /\ DOMAIN new \in SUBSET Nat
  BY ListFacts DEF RouteList
<1>4. \A k \in DOMAIN old : PrefixLength(old[k].prefix) \in Int
  BY LengthOfPrefix DEF RouteList
<1>5. RouteIn(old, path) = (IF i = 0 THEN None ELSE old[i]) /\ RouteIn(new, path) = IF j = 0 THEN None ELSE new[j]
  BY DEF RouteIn
<1>6. i # 0 => \E k \in (DOMAIN new) \ M : p[k] = i
  OBVIOUS
<1> HIDE DEF i, j
<1>7. SUFFICES ASSUME j \notin M \/ j = 0 PROVE RouteIn(new, path) = RouteIn(old, path)
  BY <1>2, <1>3 DEF j
<1>8. CASE i = 0
  <2>1. j = 0
    <3> SUFFICES ASSUME j # 0 PROVE FALSE
      OBVIOUS
    <3>1. j \in (DOMAIN new) \ M /\ Matches(new[j], path)
      BY <1>2, <1>7
    <3>2. p[j] \in DOMAIN old /\ new[j] = old[p[j]]
      BY <1>0, <3>1
    <3> QED BY <1>1, <1>3, <1>8, <3>1, <3>2
  <2> QED BY <1>5, <1>8, <2>1
<1>9. CASE i # 0
  <2>1. PICK k \in (DOMAIN new) \ M : p[k] = i
    BY <1>6, <1>9
  <2>2. new[k] = old[i] /\ i \in DOMAIN old /\ Matches(new[k], path)
    BY <1>0, <1>1, <1>9, <2>1
  <2>3. j \in (DOMAIN new) \ M /\ Matches(new[j], path) /\ GoesBefore(new[j], j, new[k], k, path)
    BY <1>2, <1>3, <1>7, <2>2
  <2>4. p[j] \in DOMAIN old /\ new[j] = old[p[j]]
    BY <1>0, <2>3
  <2>5. GoesBefore(old[i], i, old[p[j]], p[j], path)
    BY <1>1, <1>9, <2>3, <2>4
  <2>6. /\ j \in Nat /\ k \in Nat /\ p[j] \in Nat /\ i \in Nat
        /\ PrefixLength(new[j].prefix) \in Int /\ PrefixLength(new[k].prefix) \in Int
    BY <1>3, <1>4, <2>1, <2>2, <2>3, <2>4
  <2>7. (j < k => p[j] < i) /\ (k < j => i < p[j])
    BY <1>0, <2>1, <2>3
  <2>8. GoesBefore(new[k], i, new[j], p[j], path)
    BY <2>2, <2>4, <2>5
  <2>9. j = k
    BY <2>3, <2>6, <2>7, <2>8 DEF GoesBefore
  <2> QED BY <1>3, <1>5, <1>9, <2>2, <2>3, <2>9
<1> QED BY <1>8, <1>9

\* A route put among the others is found for its path, and only it replaces the route
\* of another path, or what has its identity.
LEMMA UpsertIsLocal ==
  ASSUME NEW routes, RouteList(routes), NEW route, IsList(route.prefix), NEW path,
         \A i \in DOMAIN routes : routes[i] # None
  PROVE  LET new == Upsert(routes, route, {i \in DOMAIN routes : SameRouteIdentity(routes[i], route)})
         IN /\ path = route.path /\ path # <<>> => RouteIn(new, path) = route
            /\ \/ RouteIn(routes, path) = RouteIn(new, path)
               \/ RouteIn(new, path) = route
               \/ RouteIn(routes, path) # None /\ Identity(RouteIn(routes, path)) = Identity(route)
<1> DEFINE same == {i \in DOMAIN routes : SameRouteIdentity(routes[i], route)}
           new == Upsert(routes, route, same)
           n == Len(routes)
           m == IF same = {} THEN n + 1 ELSE Min(same)
           i == FindRouteByPathOnly(routes, path)
           j == FindRouteByPathOnly(new, path)
<1>1. IsList(routes) /\ n \in Nat /\ DOMAIN routes = 1 .. n
  BY ListFacts DEF RouteList
<1>2. same # {} => m \in same /\ \A k \in same : m <= k
  <2>1. same \in SUBSET Nat
    BY <1>1
  <2> HIDE DEF same
  <2> QED BY <2>1, MinIs
<1>3. /\ IsList(new) /\ new[m] = route /\ m \in DOMAIN new /\ m \in Nat /\ m # 0
      /\ \A k \in (DOMAIN new) \ {m} : k \in DOMAIN routes /\ new[k] = routes[k]
      /\ \A k \in (DOMAIN routes) \ {m} : k \in DOMAIN new
  <2>1. CASE same = {}
    <3>1. new = Append(routes, route) /\ m = n + 1
      BY <2>1 DEF Upsert
    <3> HIDE DEF new, m
    <3>2. DOMAIN new = 1 .. n + 1 /\ IsList(new) /\ new[n + 1] = route /\ \A k \in DOMAIN routes : new[k] = routes[k]
      BY <1>1, <3>1, AppendIsList
    <3> QED BY <1>1, <3>1, <3>2
  <2>2. CASE same # {}
    <3>1. new = [routes EXCEPT ![m] = route]
      BY <2>2 DEF Upsert
    <3>2. m \in DOMAIN routes
      <4> HIDE DEF m
      <4> QED BY <1>2, <2>2
    <3>3. IsList(new)
      BY <1>1, UpsertIsList
    <3> HIDE DEF new, m
    <3> QED BY <1>1, <3>1, <3>2, <3>3
  <2> QED BY <2>1, <2>2
<1>4. \A k \in DOMAIN routes : k \in same <=> SameRouteIdentity(routes[k], route)
  OBVIOUS
<1>5. same \in SUBSET DOMAIN routes
  OBVIOUS
<1> HIDE DEF same
<1>6. same = {} => m \notin DOMAIN routes
  BY <1>1
<1> HIDE DEF new, m
<1>7. RouteList(new)
  BY <1>3 DEF RouteList
<1>8. ASSUME path = route.path, path # <<>>
      PROVE  j = m
  <2>1. Matches(new[m], path) /\ HasPath(new[m], path)
    BY <1>3, <1>8 DEF Matches, HasPath
  <2>2. j \in DOMAIN new /\ GoesBefore(new[j], j, new[m], m, path)
    BY <1>3, <1>7, <2>1, FoundIs
  <2>3. HasPath(new[j], path) /\ j <= m
    BY <2>1, <2>2 DEF GoesBefore
  <2>4. ASSUME j # m PROVE FALSE
    <3>1. j \in DOMAIN routes /\ routes[j].path = path
      BY <1>3, <2>2, <2>3, <2>4 DEF HasPath
    <3>2. j \in same
      BY <1>4, <1>8, <3>1 DEF SameRouteIdentity
    <3>3. m <= j /\ j \in Nat
      BY <1>1, <1>2, <3>1, <3>2
    <3> HIDE DEF j
    <3> QED BY <1>3, <2>3, <2>4, <3>3
  <2> QED BY <2>4
<1>9. j = m => RouteIn(new, path) = route
  BY <1>3 DEF RouteIn
<1>10. CASE i # m
  <2> DEFINE p == [k \in (DOMAIN new) \ {m} |-> k]
  <2>1. p \in [(DOMAIN new) \ {m} -> DOMAIN routes] /\ \A k \in (DOMAIN new) \ {m} : p[k] = k
    BY <1>3
  <2>2. i # 0 => i \in (DOMAIN new) \ {m} /\ p[i] = i
    BY <1>3, <1>10, <2>1, FoundIs
  <2> HIDE DEF p
  <2>3. /\ \A k \in (DOMAIN new) \ {m} : new[k] = routes[p[k]]
        /\ \A k, l \in (DOMAIN new) \ {m} : k < l => p[k] < p[l]
        /\ i # 0 => \E k \in (DOMAIN new) \ {m} : p[k] = i
    BY <1>3, <2>1, <2>2
  <2>4. \/ j \in {m} \cap DOMAIN new
        \/ RouteIn(new, path) = RouteIn(routes, path)
    <3> DEFINE M == {m}
    <3>1. /\ Aligned(p, routes, new, M)
          /\ i # 0 => \E k \in (DOMAIN new) \ M : p[k] = i
      BY <2>1, <2>3 DEF Aligned
    <3> HIDE DEF M
    <3>2. j \in M \cap DOMAIN new \/ RouteIn(new, path) = RouteIn(routes, path)
      BY <1>7, <3>1, FoundAgain
    <3> QED BY <3>2 DEF M
  <2> QED BY <1>8, <1>9, <2>4 DEF new, same
<1>11. CASE i = m
  <2>1. i \in DOMAIN routes /\ RouteIn(routes, path) = routes[i]
    BY <1>3, <1>11, FoundIs DEF RouteIn
  <2>2. i \in same
    BY <1>2, <1>6, <1>11, <2>1
  <2>3. Identity(routes[i]) = Identity(route)
    BY <1>4, <2>1, <2>2 DEF SameRouteIdentity, Identity
  <2> QED BY <1>8, <1>9, <2>1, <2>3 DEF new, same
<1> QED BY <1>10, <1>11

\* Of the routes that are kept the same one is found, and no other is.
LEMMA DeleteIsLocal ==
  ASSUME NEW routes, RouteList(routes), NEW places \in SUBSET DOMAIN routes, NEW path
  PROVE  LET new == Kept(routes, places)
             i == FindRouteByPathOnly(routes, path)
         IN /\ RouteIn(new, path) = None \/ \E k \in places : RouteIn(new, path) = routes[k]
            /\ i = 0 \/ i \in places => RouteIn(new, path) = RouteIn(routes, path)
<1> DEFINE new == Kept(routes, places)
           i == FindRouteByPathOnly(routes, path)
           j == FindRouteByPathOnly(new, path)
<1>1. PICK p \in [DOMAIN new -> places] :
           /\ IsList(new)
           /\ \A k \in DOMAIN new : new[k] = routes[p[k]]
           /\ \A k, l \in DOMAIN new : k < l => p[k] < p[l]
           /\ \A k \in places : \E l \in DOMAIN new : p[l] = k
  BY KeptInOrder DEF RouteList
<1> HIDE DEF new
<1>2. RouteList(new)
  BY <1>1 DEF RouteList
<1>3. j = 0 \/ j \in DOMAIN new
  BY <1>2, FoundIs
<1>4. RouteIn(new, path) = None \/ \E k \in places : RouteIn(new, path) = routes[k]
  BY <1>1, <1>3 DEF RouteIn
<1>5. ASSUME i = 0 \/ i \in places
      PROVE  RouteIn(new, path) = RouteIn(routes, path)
  <2> DEFINE M == {}
  <2>1. (DOMAIN new) \ M = DOMAIN new /\ M \cap DOMAIN new = {}
    OBVIOUS
  <2>2. /\ p \in [DOMAIN new -> DOMAIN routes]
        /\ i # 0 => \E k \in DOMAIN new : p[k] = i
    BY <1>1, <1>5
  <2> HIDE DEF M
  <2>3. /\ Aligned(p, routes, new, M)
        /\ i # 0 => \E k \in (DOMAIN new) \ M : p[k] = i
    BY <1>1, <2>1, <2>2 DEF Aligned
  <2>4. j \in M \cap DOMAIN new \/ RouteIn(new, path) = RouteIn(routes, path)
    BY <1>2, <2>3, FoundAgain
  <2> QED BY <2>1, <2>4
<1> QED BY <1>4, <1>5 DEF new

-----------------------------------------------------------------------------
(* The traffic rules                                                       *)

\* The weights of the services in their order.
WeightAt(weights) == [j \in Weighted(weights) |-> weights[ServiceOrder[j]]]

LEMMA WeightedPlaces ==
  ASSUME NEW weights, \A s \in DOMAIN weights : weights[s] \in Int
  PROVE  /\ Len(ServiceOrder) \in Nat /\ Weighted(weights) \in SUBSET (1 .. Len(ServiceOrder))
         /\ \A j \in Weighted(weights) : /\ WeightAt(weights)[j] \in Nat
                                         /\ WeightAt(weights)[j] = weights[ServiceOrder[j]]
         /\ \A i : WeightUpTo(weights, i) = SumUpTo(WeightAt(weights), Weighted(weights), i)
         /\ TotalWeight(weights) = SumOver(WeightAt(weights), Weighted(weights))
         /\ TotalWeight(weights) \in Nat
<1>1. Len(ServiceOrder) \in Nat /\ DOMAIN ServiceOrder = 1 .. Len(ServiceOrder)
  BY OrderAssumption, ListFacts
<1>2. Weighted(weights) \in SUBSET (1 .. Len(ServiceOrder))
  BY <1>1 DEF Weighted
<1>3. \A j \in Weighted(weights) : weights[ServiceOrder[j]] \in Nat
  BY DEF Weighted
<1>4. \A i : WeightUpTo(weights, i) = SumUpTo(WeightAt(weights), Weighted(weights), i)
  BY DEF WeightUpTo, SumUpTo, SumOver, WeightAt
<1>5. {j \in Weighted(weights) : j <= Len(ServiceOrder)} = Weighted(weights)
  BY <1>1, <1>2
<1>6. TotalWeight(weights) = SumOver(WeightAt(weights), Weighted(weights))
  BY <1>4, <1>5 DEF TotalWeight, SumUpTo
<1>7. SumOver(WeightAt(weights), Weighted(weights)) \in Nat
  <2> DEFINE W == Weighted(weights)
             n == Len(ServiceOrder)
  <2>1. \A j \in W : WeightAt(weights)[j] \in Nat
    BY <1>3 DEF WeightAt
  <2>2. IsFiniteSet(1 .. n)
    <3> HIDE DEF n
    <3> QED BY <1>1, FS_Interval DEF n
  <2>3. IsFiniteSet(W)
    <3> HIDE DEF W
    <3>1. W \in SUBSET (1 .. n)
      BY <1>2 DEF W
    <3> QED BY <2>2, <3>1, FS_Subset
  <2> HIDE DEF W
  <2>4. SumOver(WeightAt(weights), W) \in Nat
    BY <2>1, <2>3, SumIsNat
  <2> QED BY <2>4 DEF W
<1> QED BY <1>1, <1>2, <1>3, <1>4, <1>6, <1>7 DEF WeightAt

\* Which service a hash finds: the first whose segment of the total ends beyond the
\* remainder.
LEMMA SegmentFound ==
  ASSUME NEW weights, \A s \in DOMAIN weights : weights[s] \in Int,
         NEW divisor \in Nat \ {0}, divisor = TotalWeight(weights) % HashModulus,
         NEW hash \in Nat
  PROVE  \E f \in Weighted(weights) :
           /\ SelectWeightedService(weights, hash) = ServiceOrder[f]
           /\ \A i \in Weighted(weights) :
                SelectWeightedService(weights, hash) = ServiceOrder[i]
                  <=> /\ SumUnder(WeightAt(weights), Weighted(weights), i) <= hash % divisor
                      /\ hash % divisor < SumUpTo(WeightAt(weights), Weighted(weights), i)
<1> DEFINE W == Weighted(weights)
           w == WeightAt(weights)
           total == TotalWeight(weights)
           h == hash % divisor
           E == Exceeding(w, W, h)
           first == Min(E)
<1>1. /\ Len(ServiceOrder) \in Nat /\ W \in SUBSET (1 .. Len(ServiceOrder))
      /\ \A j \in W : w[j] \in Nat
      /\ \A j : WeightUpTo(weights, j) = SumUpTo(w, W, j)
      /\ total = SumOver(w, W)
  BY WeightedPlaces
<1>2. DOMAIN ServiceOrder = 1 .. Len(ServiceOrder)
  BY OrderAssumption, ListFacts
<1>3. total \in Nat
  BY WeightedPlaces
<1>4. h \in Nat /\ h < divisor /\ divisor <= total /\ total # 0
  <2> HIDE DEF total
  <2>1. h \in 0 .. divisor - 1
    BY Division
  <2>2. divisor <= total
    <3>1. divisor = total % HashModulus
      BY DEF total
    <3>2. CASE total < HashModulus
      BY <1>3, <3>1, <3>2, RoutingAssumption, SmallRemainder
    <3>3. CASE total >= HashModulus
      <4>1. divisor \in 0 .. HashModulus - 1
        BY <1>3, <3>1, RoutingAssumption, Division
      <4> QED BY <1>3, <3>3, <4>1, RoutingAssumption
    <3> QED BY <1>3, <3>2, <3>3, RoutingAssumption
  <2> HIDE DEF h
  <2> QED BY <1>3, <2>1, <2>2
<1>5. E = {k \in W : h < WeightUpTo(weights, k)}
  BY <1>1 DEF Exceeding
<1>6. SelectWeightedService(weights, hash) = ServiceOrder[first]
  <2> HIDE DEF total, W, E
  <2>1. total = TotalWeight(weights) /\ W = Weighted(weights)
    BY DEF total, W
  <2> QED BY <1>4, <1>5, <2>1 DEF SelectWeightedService
<1>7. E \in SUBSET W /\ \A k \in W : k \in E <=> h < SumUpTo(w, W, k)
  BY DEF Exceeding
<1>8. E # {}
  <2>1. W # {}
    <3>1. SUFFICES ASSUME W = {} PROVE FALSE
      OBVIOUS
    <3> HIDE DEF w, W, total
    <3>2. total = 0
      BY <1>1, <3>1, SumOfNone
    <3> QED BY <1>4, <3>2
  <2>2. W \in SUBSET (0 .. Len(ServiceOrder))
    BY <1>1
  <2>3. PICK g \in W : \A k \in W : k <= g
    <3> HIDE DEF W
    <3> QED BY <1>1, <2>1, <2>2, GreatestNumber
  <2>4. {k \in W : k <= g} = W
    BY <2>3
  <2>5. SumUpTo(w, W, g) = total
    BY <1>1, <2>4 DEF SumUpTo
  <2> HIDE DEF w, W, h, total, E
  <2> QED BY <1>3, <1>4, <1>7, <2>3, <2>5
<1>9. first \in W
  <2>1. E \in SUBSET Nat
    BY <1>1, <1>7
  <2>2. first \in E
    <3> HIDE DEF E
    <3> QED BY <1>8, <2>1, MinIs
  <2> QED BY <1>7, <2>2
<1>10. ASSUME NEW i \in W
       PROVE  first = i <=> SumUnder(w, W, i) <= h /\ h < SumUpTo(w, W, i)
  <2>1. h < SumOver(w, W)
    <3> HIDE DEF w, W, h, total
    <3> QED BY <1>1, <1>3, <1>4
  <2> HIDE DEF w, W, h
  <2> QED BY <1>1, <1>4, <1>10, <2>1, FirstExceeding
<1>11. ASSUME NEW i \in W PROVE ServiceOrder[first] = ServiceOrder[i] <=> first = i
  <2> HIDE DEF first
  <2> QED BY <1>1, <1>2, <1>9, <1>11, OrderAssumption
<1> HIDE DEF first, E
<1> QED BY <1>6, <1>9, <1>10, <1>11

\* The remainders that go to one service are the segment of its weight, or what is left
\* of it below the divisor.
LEMMA SharesFollow ==
  ASSUME NEW weights, \A s \in DOMAIN weights : weights[s] \in Int
  PROVE  SharesFollowWeights(weights)
<1> DEFINE W == Weighted(weights)
           w == WeightAt(weights)
           total == TotalWeight(weights)
           divisor == total % HashModulus
           share(i) == {h \in 0 .. divisor - 1 : SelectWeightedService(weights, h) = ServiceOrder[i]}
<1>1. /\ Len(ServiceOrder) \in Nat /\ W \in SUBSET (1 .. Len(ServiceOrder))
      /\ \A j \in W : w[j] \in Nat /\ w[j] = weights[ServiceOrder[j]]
      /\ total = SumOver(w, W)
  BY WeightedPlaces
<1>2. total \in Nat
  BY WeightedPlaces
<1>3. divisor \in Nat /\ (total < HashModulus => divisor = total)
  <2> HIDE DEF total
  <2>1. divisor \in 0 .. HashModulus - 1
    BY <1>2, RoutingAssumption, Division
  <2>2. total < HashModulus => divisor = total
    BY <1>2, RoutingAssumption, SmallRemainder
  <2> HIDE DEF divisor
  <2> QED BY <2>1, <2>2, RoutingAssumption
<1>4. ASSUME total # 0, divisor = 0, NEW h \in 0 .. HashModulus - 1
      PROVE  SelectWeightedService(weights, h) = Panic
  BY <1>4 DEF SelectWeightedService
<1>5. ASSUME divisor # 0, NEW h \in 0 .. HashModulus - 1
      PROVE  \E i \in W : SelectWeightedService(weights, h) = ServiceOrder[i]
  <2>1. h \in Nat
    BY RoutingAssumption
  <2>2. divisor = TotalWeight(weights) % HashModulus /\ divisor \in Nat \ {0}
    BY <1>3, <1>5
  <2> HIDE DEF divisor
  <2> QED BY <2>1, <2>2, SegmentFound
<1>6. ASSUME divisor # 0, NEW i \in W
      PROVE  /\ Cardinality(share(i)) <= weights[ServiceOrder[i]]
             /\ total < HashModulus => Cardinality(share(i)) = weights[ServiceOrder[i]]
  <2> DEFINE low == SumUnder(w, W, i)
             high == SumUpTo(w, W, i)
             top == IF high <= divisor THEN high ELSE divisor
             last == top - 1
  <2>1. low \in Nat /\ high = low + w[i] /\ high <= total /\ w[i] \in Nat
    <3> HIDE DEF w, W, total
    <3> QED BY <1>1, <1>6, NextSegment
  <2>2. ASSUME NEW h \in 0 .. divisor - 1
        PROVE  SelectWeightedService(weights, h) = ServiceOrder[i] <=> low <= h /\ h < high
    <3>1. divisor = TotalWeight(weights) % HashModulus /\ divisor \in Nat \ {0}
      BY <1>3, <1>6
    <3> HIDE DEF divisor
    <3>2. h \in Nat /\ h % divisor = h
      BY <2>2, <3>1, SmallRemainder
    <3> QED BY <1>6, <3>1, <3>2, SegmentFound
  <2> HIDE DEF low, high, w, total, divisor
  <2>3. share(i) = low .. last
    <3>1. last \in Int /\ last < divisor /\ last < high
          /\ \A h \in 0 .. divisor - 1 : h < high => h <= last
      BY <1>3, <2>1
    <3> HIDE DEF last
    <3>2. \A h \in low .. last : h \in 0 .. divisor - 1 /\ low <= h /\ h < high
      BY <1>3, <2>1, <3>1
    <3>3. \A h \in 0 .. divisor - 1 : low <= h /\ h < high => h \in low .. last
      BY <1>3, <2>1, <3>1
    <3> QED BY <2>2, <3>2, <3>3
  <2>4. last \in Int /\ last <= low + w[i] - 1 /\ (total < HashModulus => last = low + w[i] - 1)
    BY <1>2, <1>3, <2>1
  <2> HIDE DEF last, share
  <2>5. Cardinality(low .. last) = IF low > last THEN 0 ELSE last - low + 1
    BY <2>1, <2>4, FS_Interval
  <2>6. w[i] = weights[ServiceOrder[i]]
    BY <1>1, <1>6
  <2> QED BY <2>1, <2>3, <2>4, <2>5, <2>6
<1> QED BY <1>4, <1>5, <1>6 DEF SharesFollowWeights

-----------------------------------------------------------------------------
(* What an edit makes of a configuration                                   *)

\* One part of a configuration may be replaced by a known one.
LEMMA RulesReplaced ==
  ASSUME NEW cfg, KnownConfig(cfg), NEW list, IsList(list),
         \A i \in DOMAIN list : KnownRule(list[i])
  PROVE  KnownConfig([cfg EXCEPT !.rules = list])
BY DEF KnownConfig

LEMMA RoutesReplaced ==
  ASSUME NEW cfg, KnownConfig(cfg), NEW list, IsList(list),
         \A i \in DOMAIN list : KnownRoute(list[i])
  PROVE  KnownConfig([cfg EXCEPT !.routes = list])
BY DEF KnownConfig

LEMMA ServicesReplaced ==
  ASSUME NEW cfg, KnownConfig(cfg), NEW defs, DOMAIN defs \subseteq Services,
         \A s \in DOMAIN defs : defs[s].name \in Services \cup {""}
  PROVE  KnownConfig([cfg EXCEPT !.services = defs])
BY DEF KnownConfig

\* An edit makes known configurations of known ones.
LEMMA MutatedIsKnown ==
  ASSUME NEW cfg, KnownConfig(cfg), NEW edit, KnownEdit(edit), Mutated(cfg, edit) # None
  PROVE  KnownConfig(Mutated(cfg, edit))
<1>1. /\ IsList(cfg.routes) /\ \A i \in DOMAIN cfg.routes : KnownRoute(cfg.routes[i])
      /\ IsList(cfg.rules) /\ \A i \in DOMAIN cfg.rules : KnownRule(cfg.rules[i])
      /\ DOMAIN cfg.services \subseteq Services
      /\ \A s \in DOMAIN cfg.services : cfg.services[s].name \in Services \cup {""}
  BY DEF KnownConfig
<1>0. IsList(cfg.rules) /\ IsList(cfg.routes)
  BY <1>1
<1>2. CASE edit.op = "upsert rule" /\ KnownRule(edit.rule)
  <2> DEFINE item == IF edit.rule.type = "" THEN [edit.rule EXCEPT !.type = "memory_token_bucket"]
                                            ELSE edit.rule
             same == {i \in DOMAIN cfg.rules : cfg.rules[i].name = item.name}
             list == Upsert(cfg.rules, item, same)
  <2>1. Mutated(cfg, edit) = [cfg EXCEPT !.rules = list]
    BY <1>2 DEF Mutated, UpsertRule
  <2>2. KnownRule(item)
    BY <1>2 DEF KnownRule
  <2>3. same \in SUBSET DOMAIN cfg.rules
    OBVIOUS
  <2> HIDE DEF item, same
  <2>4. IsList(list)
    BY <1>1, <2>3, UpsertIsList
  <2>5. ASSUME NEW k \in DOMAIN list PROVE KnownRule(list[k])
    <3>1. list[k] = item \/ \E i \in DOMAIN cfg.rules : list[k] = cfg.rules[i]
      <4> HIDE DEF list
      <4>1. list = Upsert(cfg.rules, item, same)
        BY DEF list
      <4> QED BY <1>0, <2>3, <4>1, UpsertIsList
    <3> QED BY <1>1, <2>2, <3>1
  <2> HIDE DEF list
  <2> QED BY <2>1, <2>4, <2>5, RulesReplaced
<1>3. CASE edit.op = "delete rule"
  <2> DEFINE places == {i \in DOMAIN cfg.rules : cfg.rules[i].name # edit.name}
             list == Kept(cfg.rules, places)
  <2>1. Mutated(cfg, edit) = [cfg EXCEPT !.rules = list]
    BY <1>3 DEF Mutated, DeleteRule
  <2>2. places \in SUBSET DOMAIN cfg.rules
    OBVIOUS
  <2> HIDE DEF places
  <2>3. IsList(list) /\ \A k \in DOMAIN list : \E i \in DOMAIN cfg.rules : list[k] = cfg.rules[i]
    BY <1>1, <2>2, KeptIsList
  <2> HIDE DEF list
  <2>4. \A k \in DOMAIN list : KnownRule(list[k])
    BY <1>1, <2>3
  <2> QED BY <2>1, <2>3, <2>4, RulesReplaced
<1>4. CASE edit.op = "upsert route" /\ KnownRoute(edit.route)
  <2> DEFINE same == {i \in DOMAIN cfg.routes : SameRouteIdentity(cfg.routes[i], edit.route)}
             list == Upsert(cfg.routes, edit.route, same)
  <2>1. Mutated(cfg, edit) = [cfg EXCEPT !.routes = list]
    BY <1>4 DEF Mutated, UpsertRoute
  <2>2. same \in SUBSET DOMAIN cfg.routes
    OBVIOUS
  <2> HIDE DEF same
  <2>3. IsList(list)
    BY <1>1, <2>2, UpsertIsList
  <2>4. ASSUME NEW k \in DOMAIN list PROVE KnownRoute(list[k])
    <3>1. list[k] = edit.route \/ \E i \in DOMAIN cfg.routes : list[k] = cfg.routes[i]
      <4> HIDE DEF list
      <4>1. list = Upsert(cfg.routes, edit.route, same)
        BY DEF list
      <4> QED BY <1>0, <2>2, <4>1, UpsertIsList
    <3> QED BY <1>1, <1>4, <3>1
  <2> HIDE DEF list
  <2> QED BY <2>1, <2>3, <2>4, RoutesReplaced
<1>5. CASE edit.op = "delete route"
  <2> DEFINE places == {i \in DOMAIN cfg.routes : ~Named(cfg.routes[i], edit.path, edit.prefix)}
             list == Kept(cfg.routes, places)
  <2>1. Mutated(cfg, edit) = [cfg EXCEPT !.routes = list]
    BY <1>5 DEF Mutated, DeleteRoute
  <2>2. places \in SUBSET DOMAIN cfg.routes
    OBVIOUS
  <2> HIDE DEF places
  <2>3. IsList(list) /\ \A k \in DOMAIN list : \E i \in DOMAIN cfg.routes : list[k] = cfg.routes[i]
    BY <1>1, <2>2, KeptIsList
  <2> HIDE DEF list
  <2>4. \A k \in DOMAIN list : KnownRoute(list[k])
    BY <1>1, <2>3
  <2> QED BY <2>1, <2>3, <2>4, RoutesReplaced
<1>6. CASE edit.op = "upsert service" /\ edit.service.name \in Services \cup {""}
  <2> DEFINE names == DOMAIN cfg.services \cup {edit.service.name}
             defs == [s \in names |-> IF s = edit.service.name THEN edit.service ELSE cfg.services[s]]
  <2>1. Mutated(cfg, edit) = [cfg EXCEPT !.services = defs] /\ edit.service.name # ""
    BY <1>6 DEF Mutated, HasName, UpsertService
  <2>2. DOMAIN defs \subseteq Services
    BY <1>1, <1>6, <2>1
  <2>3. \A s \in DOMAIN defs : defs[s].name \in Services \cup {""}
    BY <1>1, <1>6
  <2> HIDE DEF defs
  <2>4. KnownConfig([cfg EXCEPT !.services = defs])
    BY <2>2, <2>3, ServicesReplaced
  <2> QED BY <2>1, <2>4
<1>7. CASE edit.op = "delete service"
  <2> DEFINE defs == [s \in DOMAIN cfg.services \ {edit.name} |-> cfg.services[s]]
  <2>1. Mutated(cfg, edit) = [cfg EXCEPT !.services = defs]
    BY <1>7 DEF Mutated, DeleteService
  <2>2. DOMAIN defs \subseteq Services
    BY <1>1
  <2>3. \A s \in DOMAIN defs : defs[s].name \in Services \cup {""}
    BY <1>1
  <2> HIDE DEF defs
  <2>4. KnownConfig([cfg EXCEPT !.services = defs])
    BY <2>2, <2>3, ServicesReplaced
  <2> QED BY <2>1, <2>4
<1>8. CASE edit.op = "apply" /\ KnownConfig(edit.config)
  BY <1>8 DEF Mutated
<1> QED BY <1>2, <1>3, <1>4, <1>5, <1>6, <1>7, <1>8 DEF KnownEdit

\* What a sound configuration provides has a name, and a known one.
LEMMA NamesOfSound ==
  ASSUME NEW cfg, Sound(cfg)
  PROVE  RuleNames(cfg) \subseteq Rules /\ ServiceNames(cfg) \subseteq Services
BY DEF Sound, KnownConfig, KnownRule, Acceptable, ValidateGatewayConfig, ValidService, ValidRule,
       HasName, RuleNames, ServiceNames

\* What a chain demands, in the words of a route.
SpecsOf(route)    == {route.plugins[i] : i \in DOMAIN route.plugins}
DemandsOf(route)  == {spec.name : spec \in SpecsOf(route)} \cup (IF route.requiresAuth THEN {"auth"} ELSE {})
ChainOf(route)    == SpecsOf(route) \cup (IF route.requiresAuth THEN {AuthSpec} ELSE {})
CoveredBy(chain, d) ==
  \/ \E j \in DOMAIN chain : chain[j].name = d
  \/ \E j \in DOMAIN chain : chain[j].name \notin PluginNames

\* The chain is made of what the route lists and of authentication where that is required,
\* and has all that the route demands, or a plugin that does not exist.
LEMMA ChainCovers ==
  ASSUME NEW route, KnownRoute(route)
  PROVE  /\ PluginChain(route) \in Seq(ChainOf(route))
         /\ \A d \in DemandsOf(route) : CoveredBy(PluginChain(route), d)
<1>1. IsList(route.plugins) /\ DOMAIN route.plugins = 1 .. Len(route.plugins)
  BY ListFacts DEF KnownRoute
<1>2. route.plugins \in Seq(ChainOf(route))
  BY <1>1 DEF IsList, ChainOf, SpecsOf
<1>3. \A spec \in SpecsOf(route) : \E j \in DOMAIN route.plugins : route.plugins[j] = spec
  BY DEF SpecsOf
<1>4. CASE route.requiresAuth /\ ~HasPlugin(route.plugins, "auth")
  <2> DEFINE chain == Append(route.plugins, AuthSpec)
  <2>1. AuthSpec \in ChainOf(route)
    BY <1>4 DEF ChainOf
  <2>2. PluginChain(route) = chain /\ chain \in Seq(ChainOf(route))
    BY <1>2, <1>4, <2>1 DEF PluginChain
  <2>3. /\ DOMAIN chain = 1 .. Len(route.plugins) + 1
        /\ chain[Len(route.plugins) + 1] = AuthSpec
        /\ \A i \in DOMAIN route.plugins : chain[i] = route.plugins[i]
    BY <1>1, AppendIsList
  <2> HIDE DEF chain
  <2>4. Len(route.plugins) + 1 \in DOMAIN chain /\ DOMAIN route.plugins \subseteq DOMAIN chain
    BY <1>1, <2>3, ListFacts
  <2>5. \A spec \in SpecsOf(route) : \E j \in DOMAIN chain : chain[j] = spec
    BY <1>3, <2>3, <2>4
  <2>6. \E j \in DOMAIN chain : chain[j].name = "auth"
    BY <2>3, <2>4 DEF AuthSpec
  <2>7. \A d \in DemandsOf(route) : CoveredBy(chain, d)
    BY <2>5, <2>6 DEF DemandsOf, CoveredBy
  <2> QED BY <2>2, <2>7
<1>5. CASE ~(route.requiresAuth /\ ~HasPlugin(route.plugins, "auth"))
  <2>1. PluginChain(route) = route.plugins
    BY <1>5 DEF PluginChain
  <2>2. route.requiresAuth => CoveredBy(route.plugins, "auth")
    <3>1. SUFFICES ASSUME HasPlugin(route.plugins, "auth") PROVE CoveredBy(route.plugins, "auth")
      BY <1>5
    <3>2. PICK i \in DOMAIN route.plugins : Lower(route.plugins[i].name) = Lower("auth")
      BY <3>1 DEF HasPlugin, EqualFold
    <3>3. route.plugins[i].name \in PluginNames => route.plugins[i].name = "auth"
      BY <3>2, NamesAssumption DEF PluginNames
    <3> QED BY <3>3 DEF CoveredBy
  <2>3. \A spec \in SpecsOf(route) : CoveredBy(route.plugins, spec.name)
    BY <1>3 DEF CoveredBy
  <2>4. \A d \in DemandsOf(route) : CoveredBy(route.plugins, d)
    BY <2>2, <2>3 DEF DemandsOf
  <2> QED BY <1>2, <2>1, <2>4
<1> QED BY <1>4, <1>5

LEMMA StepOrder ==
  /\ Head(Steps) = "auth" /\ StepAfter("auth") = "apikey" /\ StepAfter("apikey") = "rbac"
  /\ StepAfter("rbac") = "ratelimit" /\ StepAfter("ratelimit") = "circuitbreaker"
  /\ StepAfter("circuitbreaker") = "breaker" /\ StepAfter("breaker") = "proxy"
  /\ StepAfter("proxy") = "snapshot" /\ StepAfter("snapshot") = "monitor"
  /\ StepAfter("monitor") = "idle"
<1>1. DOMAIN Steps = 1 .. 9 /\ Len(Steps) = 9
  BY DEF Steps
<1>2. /\ Steps[1] = "auth" /\ Steps[2] = "apikey" /\ Steps[3] = "rbac" /\ Steps[4] = "ratelimit"
      /\ Steps[5] = "circuitbreaker" /\ Steps[6] = "breaker" /\ Steps[7] = "proxy"
      /\ Steps[8] = "snapshot" /\ Steps[9] = "monitor"
  BY DEF Steps
<1>3. ASSUME NEW i \in 1 .. 9
      PROVE  (CHOOSE j \in DOMAIN Steps : Steps[j] = Steps[i]) = i
  <2>1. \A j \in 1 .. 9 : Steps[j] = Steps[i] => j = i
    <3>1. \A j \in 1 .. 9 : j \in {1, 2, 3, 4, 5, 6, 7, 8, 9}
      OBVIOUS
    <3> QED BY <1>2, <3>1
  <2> QED BY <1>1, <2>1
<1>4. ASSUME NEW i \in 1 .. 9
      PROVE  StepAfter(Steps[i]) = IF i = 9 THEN "idle" ELSE Steps[i + 1]
  <2> DEFINE Place(step) == CHOOSE j \in DOMAIN Steps : Steps[j] = step
  <2>1. StepAfter(Steps[i]) = IF Place(Steps[i]) = 9 THEN "idle" ELSE Steps[Place(Steps[i]) + 1]
    BY <1>1 DEF StepAfter
  <2>2. Place(Steps[i]) = i
    BY <1>3
  <2> HIDE DEF Place
  <2> QED BY <2>1, <2>2
<1>5. Head(Steps) = Steps[1]
  BY DEF Steps
<1> QED BY <1>2, <1>4, <1>5

-----------------------------------------------------------------------------
(* The inductive invariant                                                 *)

\* Configurations are sound, and edits are edits.
Configurations ==
  /\ IsList(generations) /\ Newest # 0
  /\ \A g \in 1 .. Newest : Sound(Config(g))
  /\ DOMAIN left = {"boot", "edits", "requests", "seconds", "records"}
  /\ \A edit \in left.edits : KnownEdit(edit)

\* What a request can meet is at least as new as what serves it, and a change has come
\* as far as applying says.
Generations ==
  /\ serving \in 1 .. Newest
  /\ plugins \in [PluginNames -> serving .. Newest]
  /\ breaker \in serving .. Newest /\ proxyBreaker \in serving .. Newest
  /\ applying \in PluginNames \cup {"idle", "breaker", "proxy", "snapshot", "monitor"}
  /\ applying \in {"apikey", "rbac", "ratelimit", "circuitbreaker", "breaker", "proxy", "snapshot"} =>
       plugins["auth"] = Newest
  /\ applying \in {"rbac", "ratelimit", "circuitbreaker", "breaker", "proxy", "snapshot"} =>
       plugins["apikey"] = Newest
  /\ applying \in {"ratelimit", "circuitbreaker", "breaker", "proxy", "snapshot"} =>
       plugins["rbac"] = Newest
  /\ applying \in {"circuitbreaker", "breaker", "proxy", "snapshot"} => plugins["ratelimit"] = Newest
  /\ applying \in {"breaker", "proxy", "snapshot"} => plugins["circuitbreaker"] = Newest
  /\ applying \in {"proxy", "snapshot"} => breaker = Newest
  /\ applying = "snapshot" => proxyBreaker = Newest
  /\ applying \in PluginNames \cup {"breaker", "proxy", "snapshot"} => serving < Newest
  /\ applying = "monitor" => serving = Newest

MonitorOf(n) == [pc : {"off", "count", "circuits", "append", "wait", "ended"},
                 stop : BOOLEAN, counted : 0 .. n, circuits : 0 .. n]
RecordOf(n)  == [by : 1 .. n, counted : 1 .. n, circuits : 1 .. n]

GoesOn(m)  == m.pc \notin {"off", "ended"} /\ ~m.stop
Wanted(g)  == IF Config(g).monitor.enabled THEN g ELSE 0
PathFor(g) == IF Config(g).monitor.enabled THEN PathOf(Config(g)) ELSE ""

\* A monitor was started when its generation served. The one that will go on is the
\* one that can be stopped, which the running configuration wants.
Monitoring ==
  /\ monitors \in [1 .. Newest -> MonitorOf(Newest)]
  /\ records \subseteq RecordOf(Newest)
  /\ monitorCancel \in 0 .. Newest
  /\ monitorPath \in {""} \cup {PathOf(Config(g)) : g \in 1 .. Newest}
  /\ applying # "monitor" => monitorCancel = Wanted(serving) /\ monitorPath = PathFor(serving)
  /\ \A g \in 1 .. Newest :
       /\ GoesOn(monitors[g]) <=> g = monitorCancel
       /\ monitors[g].pc # "off" => g <= serving
       /\ monitors[g].pc = "circuits" => g <= monitors[g].counted /\ monitors[g].counted <= breaker
       /\ monitors[g].pc = "append" =>
            g <= monitors[g].counted /\ monitors[g].counted <= monitors[g].circuits
  /\ \A r \in records : r.by <= r.counted /\ r.counted <= r.circuits

Balancers == balancer \in [Services -> {"absent", "empty", "filled"}]

\* A request holds what is between its own generation and the newest; n is the newest,
\* s the one that serves.
Meeting(h, s, n) ==
  /\ DOMAIN h = DOMAIN NoHandler
  /\ h.pc \in {"idle", "health", "chain", "forwarded", "missing", "done"}
  /\ h.passed \subseteq PluginNames
  /\ h.pc = "idle" => h = NoHandler
  /\ h.pc # "idle" => h.gen \in 1 .. s /\ h.gen \in h.met /\ h.met \subseteq h.gen .. n
  /\ h.pc \in {"chain", "forwarded"} => h.service # None
  /\ h.pc = "health" => h.service = None

\* What a request's route demands has let it pass or is still in its chain; cfg is the
\* configuration the request arrived under.
OnItsRoute(h, cfg) ==
  h.service # None =>
    /\ h.route \in DOMAIN cfg.routes /\ h.service \in DOMAIN cfg.services
    /\ h.chain \in Seq(ChainOf(cfg.routes[h.route]))
    /\ h.pc = "chain" =>
         \A d \in DemandsOf(cfg.routes[h.route]) : d \in h.passed \/ CoveredBy(h.chain, d)
    /\ h.pc = "forwarded" => DemandsOf(cfg.routes[h.route]) \subseteq h.passed

Requests == Meeting(handler, serving, Newest) /\ OnItsRoute(handler, Config(handler.gen))

Inv == Configurations /\ Generations /\ Monitoring /\ Balancers /\ Requests /\ MetricsTypeOK

-----------------------------------------------------------------------------
(* The kinds of steps                                                      *)

MonitorStep ==
  \E g \in 1 .. Newest :
    CountOpenTransitions(g) \/ ReadCircuits(g) \/ AppendRecord(g) \/ Tick(g) \/ EndMonitor(g)
RequestStep ==
  \/ \E r \in left.requests : ArriveUnrouted(r) \/ ArriveRouted(r)
  \/ HealthCheck
  \/ PluginNotFound \/ RateLimit \/ CircuitBreakerCheck \/ ApiKey \/ Rbac \/ Auth
  \/ Unavailable \/ Forward \/ RecordResult \/ Abandon
ChangeStep ==
  \/ \E edit \in left.edits : Edit(edit)
  \/ RefuseAuthPlugin \/ RegisterPlugin \/ SetBreaker
  \/ UpdateCircuitBreakerService \/ StoreSnapshot \/ ConfigureMonitor

LEMMA KindsOfSteps == Next <=> ChangeStep \/ MonitorStep \/ RequestStep \/ Finish \/ Second
BY DEF Next, ChangeStep, MonitorStep, RequestStep

\* A request's step leaves alone what changes and monitors write.
LEMMA RequestLeaves ==
  RequestStep \/ Finish \/ Second =>
    UNCHANGED <<generations, applying, plugins, breaker, proxyBreaker, serving, monitorVars>>
<1>1. CASE Finish \/ Second
  BY <1>1 DEF Finish, Second, configVars
<1>2. CASE \E r \in left.requests : ArriveUnrouted(r) \/ ArriveRouted(r)
  <2>1. \E h : Arrive(h)
    BY <1>2 DEF ArriveUnrouted, ArriveRouted
  <2> QED BY <2>1 DEF Arrive, configVars
<1>3. CASE \E h : Handle(h)
  BY <1>3 DEF Handle, configVars
<1>4. CASE \E g, service, status : Lacks(g, service, status)
  BY <1>4 DEF Lacks
<1>5. CASE HealthCheck \/ PluginNotFound \/ RateLimit \/ CircuitBreakerCheck \/ ApiKey \/ Rbac
  BY <1>3, <1>5 DEF HealthCheck, PluginNotFound, RateLimit, CircuitBreakerCheck, ApiKey, Rbac, Stops, Passes
<1>6. CASE Auth \/ Unavailable \/ Forward \/ RecordResult \/ Abandon
  BY <1>3, <1>4, <1>6 DEF Auth, Unavailable, Forward, RecordResult, Abandon, Stops, Passes
<1> QED BY <1>1, <1>2, <1>5, <1>6 DEF RequestStep

LEMMA MonitorLeaves == MonitorStep => UNCHANGED <<configVars, monitorCancel, monitorPath, metricsVars, handler>>
BY DEF MonitorStep, CountOpenTransitions, ReadCircuits, AppendRecord, Tick, EndMonitor, Move

\* What is left becomes less.
LEMMA LeftShrinks ==
  ASSUME Configurations, Next
  PROVE  /\ DOMAIN left' = {"boot", "edits", "requests", "seconds", "records"}
         /\ left'.edits \subseteq left.edits
<1>1. CASE left' = left
  BY <1>1 DEF Configurations
<1>2. ASSUME NEW what \in {"seconds", "records"}, Spend(what)
      PROVE  DOMAIN left' = DOMAIN left /\ left'.edits = left.edits
  BY <1>2 DEF Spend, Configurations
<1>3. ASSUME NEW what \in {"edits", "requests"}, NEW x, SpendOne(what, x)
      PROVE  DOMAIN left' = DOMAIN left /\ left'.edits \subseteq left.edits
  BY <1>3 DEF SpendOne, Configurations
<1>4. CASE ChangeStep
  BY <1>1, <1>3, <1>4 DEF ChangeStep, Edit, RefuseAuthPlugin, RegisterPlugin, SetBreaker,
     UpdateCircuitBreakerService, StoreSnapshot, ConfigureMonitor, Configurations
<1>5. CASE MonitorStep
  BY <1>1, <1>2, <1>5 DEF MonitorStep, CountOpenTransitions, ReadCircuits, AppendRecord, Tick,
     EndMonitor, Configurations
<1>6. CASE RequestStep
  <2>1. CASE \E r \in left.requests : ArriveUnrouted(r) \/ ArriveRouted(r)
    <3>1. \E x : SpendOne("requests", x)
      BY <2>1 DEF ArriveUnrouted, ArriveRouted, Arrive
    <3> QED BY <1>3, <3>1 DEF Configurations
  <2>2. CASE ~\E r \in left.requests : ArriveUnrouted(r) \/ ArriveRouted(r)
    <3>1. left' = left
      BY <1>6, <2>2 DEF RequestStep, HealthCheck, Handle, PluginNotFound, RateLimit,
         CircuitBreakerCheck, ApiKey, Rbac, Auth, Unavailable, Forward, RecordResult, Abandon,
         Stops, Passes, Lacks
    <3> QED BY <1>1, <3>1
  <2> QED BY <2>1, <2>2
<1>7. CASE Finish
  BY <1>1, <1>7 DEF Finish
<1>8. CASE Second
  BY <1>2, <1>8 DEF Second, Configurations
<1> QED BY <1>4, <1>5, <1>6, <1>7, <1>8, KindsOfSteps

-----------------------------------------------------------------------------
(* Configurations and generations                                          *)

\* An edit adds a sound generation, and leaves those before it as they are.
LEMMA EditAdds ==
  ASSUME Configurations, serving \in 1 .. Newest, NEW edit \in left.edits, Edit(edit)
  PROVE  /\ IsList(generations') /\ Newest' = Newest + 1 /\ Newest \in Nat
         /\ \A g \in 1 .. Newest : Config(g)' = Config(g)
         /\ generations'[Newest + 1].config = Mutated(Config(serving), edit)
         /\ generations'[Newest + 1].edit = edit
         /\ Sound(Mutated(Config(serving), edit))
<1> DEFINE new == Mutated(Config(serving), edit)
           generation == [config |-> new, edit |-> edit]
<1>1. generations' = Append(generations, generation) /\ new # None /\ Acceptable(new)
  BY DEF Edit, Accepted
<1>2. IsList(generations) /\ KnownConfig(Config(serving)) /\ KnownEdit(edit)
  BY DEF Configurations, Sound
<1>3. Sound(new)
  BY <1>1, <1>2, MutatedIsKnown DEF Sound
<1>4. generation.config = new /\ generation.edit = edit
  OBVIOUS
<1> HIDE DEF generation, new
<1>5. /\ IsList(generations') /\ Len(generations') = Len(generations) + 1
      /\ generations'[Len(generations) + 1] = generation
      /\ \A i \in DOMAIN generations : generations'[i] = generations[i]
  BY <1>1, <1>2, AppendIsList
<1>6. DOMAIN generations = 1 .. Newest /\ Newest \in Nat
  BY <1>2, ListFacts DEF Newest
<1>7. Newest' = Newest + 1
  BY <1>5 DEF Newest
<1>8. \A g \in 1 .. Newest : Config(g)' = Config(g)
  BY <1>5, <1>6 DEF Config
<1>9. generations'[Newest + 1].config = new /\ generations'[Newest + 1].edit = edit
  BY <1>4, <1>5 DEF Newest
<1> QED BY <1>3, <1>5, <1>6, <1>7, <1>8, <1>9 DEF new

LEMMA ConfigurationsKept ==
  ASSUME Inv, Next
  PROVE  Configurations'
<1>1. CASE \E edit \in left.edits : Edit(edit)
  <2>1. PICK edit \in left.edits : Edit(edit)
    BY <1>1
  <2>2. ASSUME NEW g \in 1 .. Newest' PROVE Sound(Config(g)')
    <3>1. g \in 1 .. Newest \/ g = Newest + 1
      BY <2>1, EditAdds DEF Inv, Generations
    <3>2. CASE g \in 1 .. Newest
      BY <2>1, <3>2, EditAdds DEF Inv, Generations, Configurations
    <3>3. CASE g = Newest + 1
      BY <2>1, <3>3, EditAdds DEF Inv, Generations, Config
    <3> QED BY <3>1, <3>2, <3>3
  <2>3. IsList(generations') /\ Newest' # 0
    BY <2>1, EditAdds DEF Inv, Generations
  <2> QED BY <2>2, <2>3, LeftShrinks DEF Configurations, Inv
<1>2. CASE ~\E edit \in left.edits : Edit(edit)
  <2>1. generations' = generations
    BY <1>2, KindsOfSteps, RequestLeaves, MonitorLeaves DEF ChangeStep, RefuseAuthPlugin,
       RegisterPlugin, SetBreaker, UpdateCircuitBreakerService, StoreSnapshot, ConfigureMonitor,
       configVars
  <2> QED BY <2>1, LeftShrinks DEF Configurations, Inv, Newest, Config
<1> QED BY <1>1, <1>2

LEMMA GenerationsKept ==
  ASSUME Inv, Next
  PROVE  Generations'
<1>1. CASE \E edit \in left.edits : Edit(edit)
  <2>1. PICK edit \in left.edits : Edit(edit)
    BY <1>1
  <2>2. Newest' = Newest + 1 /\ Newest \in Nat
    BY <2>1, EditAdds DEF Inv, Generations
  <2>3. applying' = "auth" /\ UNCHANGED <<plugins, breaker, proxyBreaker, serving>>
    BY <2>1, StepOrder DEF Edit
  <2> QED BY <2>2, <2>3 DEF Inv, Generations, PluginNames
<1>2. CASE ~\E edit \in left.edits : Edit(edit)
  <2>1. Newest \in Nat
    BY ListFacts DEF Inv, Configurations, Newest
  <2>2. CASE RefuseAuthPlugin
    <3>1. UNCHANGED <<Newest, plugins, breaker, proxyBreaker, serving>> /\ applying' = "idle"
      BY <2>2 DEF RefuseAuthPlugin, Newest
    <3> QED BY <2>1, <3>1 DEF Inv, Generations, PluginNames
  <2>3. CASE RegisterPlugin
    <3>1. /\ UNCHANGED <<Newest, breaker, proxyBreaker, serving>> /\ applying' = StepAfter(applying)
          /\ applying \in PluginNames /\ plugins' = [plugins EXCEPT ![applying] = Newest]
      BY <2>3 DEF RegisterPlugin, Newest
    <3> HIDE DEF Newest
    <3>2. serving' \in 1 .. Newest /\ Newest \in serving .. Newest
      BY <2>1, <3>1 DEF Inv, Generations
    <3>3. plugins' \in [PluginNames -> serving .. Newest]
      BY <3>1, <3>2 DEF Inv, Generations
    <3>4. \/ applying = "auth" /\ applying' = "apikey"
          \/ applying = "apikey" /\ applying' = "rbac"
          \/ applying = "rbac" /\ applying' = "ratelimit"
          \/ applying = "ratelimit" /\ applying' = "circuitbreaker"
          \/ applying = "circuitbreaker" /\ applying' = "breaker"
      BY <3>1, StepOrder DEF PluginNames
    <3>5. plugins'[applying] = Newest /\ \A p \in PluginNames : p # applying => plugins'[p] = plugins[p]
      BY <3>1 DEF Inv, Generations
    <3> QED BY <3>1, <3>2, <3>3, <3>4, <3>5 DEF Inv, Generations, PluginNames
  <2>4. CASE SetBreaker
    <3>1. /\ UNCHANGED <<Newest, plugins, proxyBreaker, serving>>
          /\ applying = "breaker" /\ applying' = "proxy" /\ breaker' = Newest
      BY <2>4, StepOrder DEF SetBreaker, Newest
    <3> QED BY <2>1, <3>1 DEF Inv, Generations, PluginNames
  <2>5. CASE UpdateCircuitBreakerService
    <3>1. /\ UNCHANGED <<Newest, plugins, breaker, serving>>
          /\ applying = "proxy" /\ applying' = "snapshot" /\ proxyBreaker' = Newest
      BY <2>5, StepOrder DEF UpdateCircuitBreakerService, Newest
    <3> QED BY <2>1, <3>1 DEF Inv, Generations, PluginNames
  <2>6. CASE StoreSnapshot
    <3>1. /\ UNCHANGED <<Newest, plugins, breaker, proxyBreaker>>
          /\ applying = "snapshot" /\ applying' = "monitor" /\ serving' = Newest
      BY <2>6, StepOrder DEF StoreSnapshot, Newest
    <3>2. \A p \in PluginNames : plugins[p] = Newest
      BY <3>1 DEF Inv, Generations, PluginNames
    <3> QED BY <2>1, <3>1, <3>2 DEF Inv, Generations, PluginNames
  <2>7. CASE ConfigureMonitor
    <3>1. /\ UNCHANGED <<Newest, plugins, breaker, proxyBreaker, serving>>
          /\ applying' = "idle"
      BY <2>7, StepOrder DEF ConfigureMonitor, Newest
    <3> QED BY <2>1, <3>1 DEF Inv, Generations, PluginNames
  <2>8. CASE MonitorStep \/ RequestStep \/ Finish \/ Second
    <3>1. UNCHANGED <<Newest, plugins, breaker, proxyBreaker, serving, applying>>
      BY <2>8, MonitorLeaves, RequestLeaves DEF configVars, Newest
    <3> QED BY <3>1 DEF Inv, Generations
  <2> QED BY <1>2, <2>2, <2>3, <2>4, <2>5, <2>6, <2>7, <2>8, KindsOfSteps DEF ChangeStep
<1> QED BY <1>1, <1>2

-----------------------------------------------------------------------------
(* Monitors                                                                *)

LEMMA AppendFunction ==
  ASSUME NEW n \in Nat, NEW S, NEW f \in [1 .. n -> S], NEW x \in S
  PROVE  /\ Append(f, x) \in [1 .. n + 1 -> S]
         /\ Append(f, x)[n + 1] = x
         /\ \A i \in 1 .. n : Append(f, x)[i] = f[i]
<1>1. f \in Seq(S) /\ Len(f) = n
  OBVIOUS
<1>2. Append(f, x) \in Seq(S) /\ Len(Append(f, x)) = n + 1
  BY <1>1
<1>3. DOMAIN Append(f, x) = 1 .. n + 1
  BY <1>2
<1>4. Append(f, x) \in [1 .. n + 1 -> S]
  <2> DEFINE a == Append(f, x)
  <2>1. a \in Seq(S) /\ Len(a) = n + 1
    BY <1>2
  <2> HIDE DEF a
  <2>2. a \in [1 .. Len(a) -> S]
    BY <2>1
  <2>3. a \in [1 .. n + 1 -> S]
    BY <2>1, <2>2
  <2> QED BY <2>3 DEF a
<1>5. Append(f, x)[n + 1] = x
  BY <1>1
<1>6. \A i \in 1 .. n : Append(f, x)[i] = f[i]
  BY <1>1
<1> QED BY <1>4, <1>5, <1>6

LEMMA NewestIsNumber == Inv => Newest \in Nat /\ Newest # 0
BY ListFacts DEF Inv, Configurations, Newest

LEMMA NewMonitors ==
  ASSUME NEW n \in Nat
  PROVE  /\ NoMonitor \in MonitorOf(n) /\ NewMonitor \in MonitorOf(n)
         /\ NoMonitor.pc = "off" /\ ~GoesOn(NoMonitor)
         /\ NewMonitor.pc = "count" /\ GoesOn(NewMonitor)
<1>1. 0 \in 0 .. n
  OBVIOUS
<1>2. NoMonitor \in MonitorOf(n) /\ NoMonitor.pc = "off" /\ ~NoMonitor.stop
  BY <1>1 DEF NoMonitor, MonitorOf
<1>3. NewMonitor \in MonitorOf(n) /\ NewMonitor.pc = "count" /\ ~NewMonitor.stop
  BY <1>2 DEF NewMonitor, MonitorOf
<1> QED BY <1>2, <1>3 DEF GoesOn

\* What one monitor does on its own.
OneMonitor(g, m, s, b) ==
  /\ m.pc # "off" => g <= s
  /\ m.pc = "circuits" => g <= m.counted /\ m.counted <= b
  /\ m.pc = "append" => g <= m.counted /\ m.counted <= m.circuits

LEMMA MoveKeeps ==
  ASSUME Inv, NEW g \in 1 .. Newest, NEW m \in MonitorOf(Newest), Move(g, m),
         GoesOn(m) <=> GoesOn(monitors[g]), OneMonitor(g, m, serving, breaker),
         records' \subseteq RecordOf(Newest),
         \A r \in records' : r.by <= r.counted /\ r.counted <= r.circuits
  PROVE  Monitoring'
<1>1. /\ monitors' = [monitors EXCEPT ![g] = m]
      /\ UNCHANGED <<generations, applying, serving, breaker, monitorCancel, monitorPath>>
  BY DEF Move, configVars
<1>2. Newest' = Newest /\ \A k \in 1 .. Newest : Config(k)' = Config(k)
  BY <1>1 DEF Newest, Config
<1>3. monitors' \in [1 .. Newest -> MonitorOf(Newest)]
  BY <1>1 DEF Inv, Monitoring
<1>4. \A k \in 1 .. Newest : monitors'[k] = IF k = g THEN m ELSE monitors[k]
  BY <1>1 DEF Inv, Monitoring
<1>5. applying' # "monitor" => monitorCancel' = Wanted(serving)' /\ monitorPath' = PathFor(serving)'
  BY <1>1 DEF Inv, Monitoring, Wanted, PathFor, Config
<1>6. monitorPath' \in {""} \cup {PathOf(Config(k)') : k \in 1 .. Newest}
  BY <1>1, <1>2 DEF Inv, Monitoring
<1> HIDE DEF Newest
<1>7. \A k \in 1 .. Newest :
        /\ GoesOn(monitors'[k]) <=> k = monitorCancel
        /\ OneMonitor(k, monitors'[k], serving, breaker)
  BY <1>4 DEF Inv, Monitoring, OneMonitor
<1> QED BY <1>1, <1>2, <1>3, <1>5, <1>6, <1>7 DEF Inv, Monitoring, OneMonitor

LEMMA MonitorStepKeeps ==
  ASSUME Inv, MonitorStep
  PROVE  Monitoring'
<1>1. PICK g \in 1 .. Newest :
        CountOpenTransitions(g) \/ ReadCircuits(g) \/ AppendRecord(g) \/ Tick(g) \/ EndMonitor(g)
  BY DEF MonitorStep
<1> DEFINE m == monitors[g]
<1>2. m \in MonitorOf(Newest) /\ OneMonitor(g, m, serving, breaker)
  BY DEF Inv, Monitoring, OneMonitor
<1>3. Newest \in Nat /\ breaker \in 0 .. Newest /\ serving <= breaker
  BY NewestIsNumber DEF Inv, Generations
<1>4. records \subseteq RecordOf(Newest) /\ \A r \in records : r.by <= r.counted /\ r.counted <= r.circuits
  BY DEF Inv, Monitoring
<1> HIDE DEF m, Newest
<1>5. CASE CountOpenTransitions(g)
  <2> DEFINE next == [m EXCEPT !.pc = "circuits", !.counted = breaker]
  <2>1. Move(g, next) /\ records' = records /\ m.pc = "count"
    BY <1>5 DEF CountOpenTransitions, m
  <2>2. next \in MonitorOf(Newest)
    BY <1>2, <1>3 DEF MonitorOf
  <2>3. GoesOn(next) <=> GoesOn(m)
    BY <1>2, <2>1 DEF MonitorOf, GoesOn
  <2>4. OneMonitor(g, next, serving, breaker)
    BY <1>2, <1>3, <2>1 DEF MonitorOf, OneMonitor, Inv, Generations
  <2> HIDE DEF next
  <2> QED BY <1>4, <2>1, <2>2, <2>3, <2>4, MoveKeeps DEF m
<1>6. CASE ReadCircuits(g)
  <2> DEFINE next == [m EXCEPT !.pc = "append", !.circuits = breaker]
  <2>1. Move(g, next) /\ records' = records /\ m.pc = "circuits"
    BY <1>6 DEF ReadCircuits, m
  <2>2. next \in MonitorOf(Newest)
    BY <1>2, <1>3 DEF MonitorOf
  <2>3. GoesOn(next) <=> GoesOn(m)
    BY <1>2, <2>1 DEF MonitorOf, GoesOn
  <2>4. OneMonitor(g, next, serving, breaker)
    BY <1>2, <1>3, <2>1 DEF MonitorOf, OneMonitor
  <2> HIDE DEF next
  <2> QED BY <1>4, <2>1, <2>2, <2>3, <2>4, MoveKeeps DEF m
<1>7. CASE AppendRecord(g)
  <2> DEFINE next == [NoMonitor EXCEPT !.pc = "wait", !.stop = m.stop]
             record == [by |-> g, counted |-> m.counted, circuits |-> m.circuits]
  <2>1. Move(g, next) /\ records' = records \cup {record} /\ m.pc = "append"
    BY <1>7 DEF AppendRecord, m
  <2>0. m.stop \in BOOLEAN /\ NoMonitor \in MonitorOf(Newest)
    BY <1>2, <1>3, NewMonitors DEF MonitorOf
  <2>2. next \in MonitorOf(Newest)
    BY <2>0 DEF MonitorOf
  <2>3. GoesOn(next) <=> GoesOn(m)
    BY <1>2, <2>1 DEF MonitorOf, GoesOn, NoMonitor
  <2>4. OneMonitor(g, next, serving, breaker)
    BY <1>2, <2>1 DEF MonitorOf, OneMonitor, NoMonitor
  <2>5. record \in RecordOf(Newest) /\ record.by <= record.counted /\ record.counted <= record.circuits
    BY <1>2, <1>3, <2>1 DEF MonitorOf, OneMonitor, RecordOf
  <2> HIDE DEF next, record
  <2>6. records' \subseteq RecordOf(Newest) /\ \A r \in records' : r.by <= r.counted /\ r.counted <= r.circuits
    BY <1>4, <2>1, <2>5
  <2> QED BY <2>1, <2>2, <2>3, <2>4, <2>6, MoveKeeps DEF m
<1>8. CASE Tick(g)
  <2> DEFINE next == [m EXCEPT !.pc = "count"]
  <2>1. Move(g, next) /\ records' = records /\ m.pc = "wait"
    BY <1>8 DEF Tick, m
  <2>2. next \in MonitorOf(Newest) /\ (GoesOn(next) <=> GoesOn(m)) /\ OneMonitor(g, next, serving, breaker)
    BY <1>2, <2>1 DEF MonitorOf, GoesOn, OneMonitor
  <2> HIDE DEF next
  <2> QED BY <1>4, <2>1, <2>2, MoveKeeps DEF m
<1>9. CASE EndMonitor(g)
  <2> DEFINE next == [m EXCEPT !.pc = "ended"]
  <2>1. Move(g, next) /\ records' = records /\ m.pc = "wait" /\ m.stop
    BY <1>9 DEF EndMonitor, m
  <2>2. next \in MonitorOf(Newest) /\ (GoesOn(next) <=> GoesOn(m)) /\ OneMonitor(g, next, serving, breaker)
    BY <1>2, <2>1 DEF MonitorOf, GoesOn, OneMonitor
  <2> HIDE DEF next
  <2> QED BY <1>4, <2>1, <2>2, MoveKeeps DEF m
<1> QED BY <1>1, <1>5, <1>6, <1>7, <1>8, <1>9

\* An edit adds a generation without a monitor.
LEMMA EditKeepsMonitoring ==
  ASSUME Inv, NEW edit \in left.edits, Edit(edit)
  PROVE  Monitoring'
<1>1. /\ Newest' = Newest + 1 /\ Newest \in Nat /\ serving \in 1 .. Newest
      /\ \A g \in 1 .. Newest : Config(g)' = Config(g)
  BY EditAdds DEF Inv, Generations
<1>2. /\ applying = "idle" /\ monitors' = Append(monitors, NoMonitor)
      /\ UNCHANGED <<serving, breaker, records, monitorCancel, monitorPath>>
  BY DEF Edit
<1>3. /\ MonitorOf(Newest) \subseteq MonitorOf(Newest + 1)
      /\ RecordOf(Newest) \subseteq RecordOf(Newest + 1)
  BY <1>1 DEF MonitorOf, RecordOf
<1>4. monitors \in [1 .. Newest -> MonitorOf(Newest + 1)] /\ NoMonitor \in MonitorOf(Newest + 1)
  BY <1>1, <1>3, NewMonitors DEF Inv, Monitoring
<1>5. /\ monitors' \in [1 .. Newest + 1 -> MonitorOf(Newest + 1)]
      /\ monitors'[Newest + 1] = NoMonitor
      /\ \A g \in 1 .. Newest : monitors'[g] = monitors[g]
  BY <1>1, <1>2, <1>4, AppendFunction
<1>6. Config(serving)' = Config(serving)
  BY <1>1, <1>2 DEF Config
<1>7. monitorCancel' = Wanted(serving)' /\ monitorPath' = PathFor(serving)'
  BY <1>2, <1>6 DEF Inv, Monitoring, Wanted, PathFor
<1>8. monitorPath' \in {""} \cup {PathOf(Config(g)') : g \in 1 .. Newest'}
  <2>1. \A g \in 1 .. Newest : g \in 1 .. Newest'
    BY <1>1
  <2> QED BY <1>1, <1>2, <2>1 DEF Inv, Monitoring
<1>9. records' \subseteq RecordOf(Newest') /\ monitorCancel' \in 0 .. Newest'
  <2>1. monitorCancel \in 0 .. Newest /\ records \subseteq RecordOf(Newest)
    BY DEF Inv, Monitoring
  <2> HIDE DEF Newest
  <2> QED BY <1>1, <1>2, <1>3, <2>1
<1>10. \A r \in records' : r.by <= r.counted /\ r.counted <= r.circuits
  BY <1>2 DEF Inv, Monitoring
<1>11. ASSUME NEW g \in 1 .. Newest + 1
       PROVE  /\ GoesOn(monitors'[g]) <=> g = monitorCancel
              /\ OneMonitor(g, monitors'[g], serving, breaker)
  <2>1. CASE g \in 1 .. Newest
    BY <1>5, <2>1 DEF Inv, Monitoring, OneMonitor
  <2>2. CASE g = Newest + 1
    <3>1. monitorCancel \in 0 .. Newest
      BY DEF Inv, Monitoring
    <3> HIDE DEF Newest
    <3> QED BY <1>1, <1>5, <2>2, <3>1, NewMonitors DEF OneMonitor
  <2> QED BY <1>1, <2>1, <2>2
<1> HIDE DEF Newest
<1> QED BY <1>1, <1>2, <1>5, <1>7, <1>8, <1>9, <1>10, <1>11 DEF Monitoring, OneMonitor

\* The monitor before is told to stop, and another one begins if it is wanted.
LEMMA ConfigureKeepsMonitoring ==
  ASSUME Inv, ConfigureMonitor
  PROVE  Monitoring'
<1> DEFINE new == IF Config(Newest).monitor.enabled THEN NewMonitor ELSE NoMonitor
<1>1. /\ applying = "monitor" /\ monitors' = [Cancelled(monitors) EXCEPT ![Newest] = new]
      /\ monitorCancel' = Wanted(Newest) /\ monitorPath' = PathFor(Newest)
      /\ UNCHANGED <<generations, serving, breaker, records>>
  BY DEF ConfigureMonitor, Wanted, PathFor
<1>2. Newest' = Newest /\ Newest \in Nat /\ Newest \in 1 .. Newest /\ \A k \in 1 .. Newest : Config(k)' = Config(k)
  BY <1>1, NewestIsNumber DEF Newest, Config
<1>3. serving = Newest
  BY <1>1 DEF Inv, Generations
<1>4. new \in MonitorOf(Newest) /\ (GoesOn(new) <=> Wanted(Newest) = Newest)
      /\ (new.pc \in {"off", "count"})
  BY <1>2, NewMonitors DEF Wanted
<1>5. Cancelled(monitors) \in [1 .. Newest -> MonitorOf(Newest)]
  <2>1. CASE monitorCancel = 0
    BY <2>1 DEF Cancelled, Inv, Monitoring
  <2>2. CASE monitorCancel # 0
    <3>0. monitorCancel \in 0 .. Newest
      BY DEF Inv, Monitoring
    <3>1. monitorCancel \in 1 .. Newest
      <4> HIDE DEF Newest
      <4> QED BY <1>2, <2>2, <3>0
    <3>2. [monitors[monitorCancel] EXCEPT !.stop = TRUE] \in MonitorOf(Newest)
      <4>1. monitors[monitorCancel] \in MonitorOf(Newest)
        BY <3>1 DEF Inv, Monitoring
      <4> QED BY <4>1 DEF MonitorOf
    <3>3. Cancelled(monitors) = [monitors EXCEPT ![monitorCancel] = [monitors[monitorCancel] EXCEPT !.stop = TRUE]]
      BY <2>2, <3>1 DEF Cancelled, Inv, Monitoring
    <3> QED BY <3>1, <3>2, <3>3 DEF Inv, Monitoring
  <2> QED BY <2>1, <2>2
<1>6. ASSUME NEW g \in 1 .. Newest
      PROVE  /\ ~GoesOn(Cancelled(monitors)[g])
             /\ OneMonitor(g, Cancelled(monitors)[g], serving, breaker)
  <2>1. CASE g = monitorCancel
    <3>1. g # 0
      BY <1>2
    <3>2. monitors[g] \in MonitorOf(Newest) /\ OneMonitor(g, monitors[g], serving, breaker)
      BY DEF Inv, Monitoring, OneMonitor
    <3>3. Cancelled(monitors)[g] = [monitors[g] EXCEPT !.stop = TRUE]
      BY <2>1, <3>1 DEF Cancelled, Inv, Monitoring
    <3> QED BY <3>2, <3>3 DEF MonitorOf, GoesOn, OneMonitor
  <2>2. CASE g # monitorCancel
    <3>1. Cancelled(monitors)[g] = monitors[g]
      BY <2>2 DEF Cancelled, Inv, Monitoring
    <3> QED BY <2>2, <3>1 DEF Inv, Monitoring, OneMonitor
  <2> QED BY <2>1, <2>2
<1> HIDE DEF new
<1>7. monitors' \in [1 .. Newest -> MonitorOf(Newest)]
  BY <1>1, <1>2, <1>4, <1>5
<1>8. \A g \in 1 .. Newest : monitors'[g] = IF g = Newest THEN new ELSE Cancelled(monitors)[g]
  BY <1>1, <1>5
<1>9. Wanted(serving)' = Wanted(Newest) /\ PathFor(serving)' = PathFor(Newest)
  BY <1>1, <1>3 DEF Wanted, PathFor, Config
<1>10. Wanted(Newest) \in {0, Newest} /\ PathFor(Newest) \in {"", PathOf(Config(Newest))}
  BY DEF Wanted, PathFor
<1>11. monitorPath' \in {""} \cup {PathOf(Config(g)') : g \in 1 .. Newest'}
  BY <1>1, <1>2, <1>10
<1> HIDE DEF Newest
<1>12. ASSUME NEW g \in 1 .. Newest
       PROVE  /\ GoesOn(monitors'[g]) <=> g = monitorCancel'
              /\ OneMonitor(g, monitors'[g], serving, breaker)
  <2>1. CASE g = Newest
    BY <1>1, <1>2, <1>3, <1>4, <1>8, <2>1 DEF OneMonitor
  <2>2. CASE g # Newest
    <3>1. monitors'[g] = Cancelled(monitors)[g] /\ ~GoesOn(monitors'[g])
      BY <1>6, <1>8, <2>2
    <3>2. g # monitorCancel'
      <4>1. monitorCancel' \in {0, Newest} /\ Newest \in Nat
        BY <1>1, <1>2, <1>10, Zenon
      <4> QED BY <2>2, <4>1
    <3> QED BY <1>1, <1>6, <3>1, <3>2
  <2> QED BY <2>1, <2>2
<1>13. records' \subseteq RecordOf(Newest') /\ monitorCancel' \in 0 .. Newest'
  <2>1. records \subseteq RecordOf(Newest)
    BY DEF Inv, Monitoring
  <2>2. records' = records /\ Newest' = Newest /\ monitorCancel' \in {0, Newest} /\ Newest \in Nat
    BY <1>1, <1>2, <1>10, Zenon
  <2>3. {0, Newest} \subseteq 0 .. Newest
    BY <2>2
  <2> QED BY <2>1, <2>2, <2>3, Zenon
<1>14. \A r \in records' : r.by <= r.counted /\ r.counted <= r.circuits
  BY <1>1 DEF Inv, Monitoring
<1> QED BY <1>1, <1>2, <1>7, <1>9, <1>11, <1>12, <1>13, <1>14 DEF Monitoring, OneMonitor

LEMMA MonitoringKept ==
  ASSUME Inv, Next
  PROVE  Monitoring'
<1>1. ASSUME UNCHANGED <<generations, monitors, records, monitorCancel, monitorPath>>,
             breaker' \in Int, breaker <= breaker', serving' \in Int, serving <= serving',
             applying' # "monitor" => applying # "monitor" /\ serving' = serving
      PROVE  Monitoring'
  <2>1. Newest' = Newest /\ \A k \in 1 .. Newest : Config(k)' = Config(k)
    BY <1>1 DEF Newest, Config
  <2>2. applying' # "monitor" => Wanted(serving)' = Wanted(serving) /\ PathFor(serving)' = PathFor(serving)
    BY <1>1 DEF Wanted, PathFor, Config
  <2>3. monitorPath' \in {""} \cup {PathOf(Config(k)') : k \in 1 .. Newest}
    BY <1>1, <2>1 DEF Inv, Monitoring
  <2>4. serving \in Int /\ breaker \in Int
    BY NewestIsNumber DEF Inv, Generations
  <2>5. ASSUME NEW g \in 1 .. Newest
        PROVE  g \in Int /\ monitors[g].counted \in Int
    <3>0. Newest \in Int
      BY NewestIsNumber
    <3>1. monitors[g] \in MonitorOf(Newest)
      BY DEF Inv, Monitoring
    <3> HIDE DEF Newest
    <3> QED BY <3>0, <3>1 DEF MonitorOf
  <2> HIDE DEF Newest
  <2>6. ASSUME NEW g \in 1 .. Newest
        PROVE  OneMonitor(g, monitors[g], serving', breaker')
    <3>1. OneMonitor(g, monitors[g], serving, breaker) /\ g \in Int /\ monitors[g].counted \in Int
      BY <2>5 DEF Inv, Monitoring, OneMonitor
    <3> QED BY <1>1, <2>4, <3>1 DEF OneMonitor
  <2> QED BY <1>1, <2>1, <2>2, <2>3, <2>6 DEF Inv, Monitoring, OneMonitor
<1>2. /\ breaker \in Int /\ serving \in Int /\ Newest \in Int
      /\ breaker <= Newest /\ serving <= Newest
  BY NewestIsNumber DEF Inv, Generations
<1>3. CASE \E edit \in left.edits : Edit(edit)
  BY <1>3, EditKeepsMonitoring
<1>4. CASE RefuseAuthPlugin
  BY <1>1, <1>2, <1>4 DEF RefuseAuthPlugin, monitorVars
<1>5. CASE RegisterPlugin
  <2>1. applying # "monitor"
    BY <1>5 DEF RegisterPlugin, PluginNames
  <2> QED BY <1>1, <1>2, <1>5, <2>1 DEF RegisterPlugin, monitorVars
<1>6. CASE SetBreaker
  BY <1>1, <1>2, <1>6 DEF SetBreaker, monitorVars
<1>7. CASE UpdateCircuitBreakerService
  BY <1>1, <1>2, <1>7 DEF UpdateCircuitBreakerService, monitorVars
<1>8. CASE StoreSnapshot
  BY <1>1, <1>2, <1>8, StepOrder DEF StoreSnapshot, monitorVars
<1>9. CASE ConfigureMonitor
  BY <1>9, ConfigureKeepsMonitoring
<1>10. CASE MonitorStep
  BY <1>10, MonitorStepKeeps
<1>11. CASE RequestStep \/ Finish \/ Second
  BY <1>1, <1>2, <1>11, RequestLeaves DEF monitorVars
<1> QED BY <1>3, <1>4, <1>5, <1>6, <1>7, <1>8, <1>9, <1>10, <1>11, KindsOfSteps DEF ChangeStep

-----------------------------------------------------------------------------
(* What the steps of a request come down to                                *)

\* k is what h has become after it met g.
Continues(h, k, pc, g) ==
  /\ DOMAIN k = DOMAIN h /\ k.pc = pc /\ k.met = h.met \cup {g}
  /\ k.gen = h.gen /\ k.route = h.route /\ k.service = h.service
Stays(h, k)   == k.chain = h.chain /\ k.passed = h.passed
Advances(h, k) == k.chain = Tail(h.chain) /\ k.passed = h.passed \cup {Head(h.chain).name}

Arrived ==
  /\ handler.pc = "idle"
  /\ DOMAIN handler' = DOMAIN NoHandler
  /\ handler'.gen = serving /\ handler'.met = {serving} /\ handler'.passed = {}
  /\ \/ handler'.pc \in {"done", "health"} /\ handler'.service = None
     \/ /\ handler'.pc = "chain"
        /\ handler'.route \in DOMAIN Config(serving).routes
        /\ handler'.service \in DOMAIN Config(serving).services
        /\ handler'.chain = PluginChain(Config(serving).routes[handler'.route])
TurnedDown(g) ==
  handler.pc \in {"health", "chain"} /\ Continues(handler, handler', "done", g) /\ Stays(handler, handler')
PassedOn(g) ==
  /\ handler.pc = "chain" /\ handler.chain # <<>> /\ TheSpec.name \in PluginNames
  /\ Continues(handler, handler', "chain", g) /\ Advances(handler, handler')

\* Something that the request needs has not been found.
RuleMissing(g) ==
  Turn("ratelimit") /\ TheSpec.rule \notin RuleNames(Config(g))
NotFilled(service) == balancer[service] # "filled" /\ balancer' = Created(service)
BalancerMissing ==
  \/ handler.chain = <<>> /\ NotFilled(ServiceName)
  \/ Turn("auth") /\ NotFilled(AuthService)
Missed(g) ==
  /\ handler.pc = "chain"
  /\ Continues(handler, handler', "missing", g) /\ Stays(handler, handler')
  /\ \/ RuleMissing(g) /\ balancer' = balancer
     \/ BalancerMissing
Forwarded(g) ==
  /\ handler.pc = "chain" /\ handler.chain = <<>>
  /\ Continues(handler, handler', "forwarded", g) /\ Stays(handler, handler')
Answered(g) ==
  handler.pc = "forwarded" /\ Continues(handler, handler', "done", g) /\ Stays(handler, handler')

Undisturbed == UNCHANGED <<generations, applying, serving, metricsVars>>

LEMMA HandlerFields ==
  Inv => DOMAIN handler = DOMAIN NoHandler
BY DEF Inv, Requests, Meeting

\* Whatever treats a request that is under way is as new as the request, or newer.
LEMMA MetIsCurrent ==
  ASSUME Inv, handler.pc # "idle"
  PROVE  /\ handler.gen \in 1 .. serving /\ handler.gen \in 1 .. Newest
         /\ handler.gen \in handler.gen .. Newest /\ handler.gen \in handler.met
         /\ serving \in handler.gen .. Newest /\ proxyBreaker \in handler.gen .. Newest
         /\ Newest \in handler.gen .. Newest
         /\ \A p \in PluginNames : plugins[p] \in handler.gen .. Newest
<1>1. Newest \in Nat /\ serving \in 1 .. Newest /\ proxyBreaker \in serving .. Newest
  BY NewestIsNumber DEF Inv, Generations
<1>2. \A p \in PluginNames : plugins[p] \in serving .. Newest
  BY DEF Inv, Generations
<1>3. handler.gen \in 1 .. serving /\ handler.gen \in handler.met
  BY DEF Inv, Requests, Meeting
<1> HIDE DEF Newest
<1> QED BY <1>1, <1>2, <1>3

LEMMA StopIsEnd ==
  ASSUME Inv, NEW g, NEW status, Stops(g, status)
  PROVE  /\ Continues(handler, handler', "done", g) /\ Stays(handler, handler')
         /\ Undisturbed /\ balancer' = balancer
<1>1. handler' = Meets(g, [handler EXCEPT !.pc = "done", !.status = status])
  BY DEF Stops, Handle
<1>2. Continues(handler, handler', "done", g) /\ Stays(handler, handler')
  BY <1>1, HandlerFields DEF Meets, NoHandler, Continues, Stays
<1> QED BY <1>2 DEF Stops, Handle, configVars, Undisturbed

LEMMA PassIsAdvance ==
  ASSUME Inv, NEW g, NEW role, NEW h, h = handler \/ h = [handler EXCEPT !.role = role], Passes(g, h)
  PROVE  /\ Continues(handler, handler', handler.pc, g) /\ Advances(handler, handler')
         /\ Undisturbed /\ balancer' = balancer
<1>1. handler' = Meets(g, [h EXCEPT !.chain = Tail(@), !.passed = @ \cup {TheSpec.name}])
  BY DEF Passes, Handle
<1>2. /\ DOMAIN h = DOMAIN handler /\ h.pc = handler.pc /\ h.met = handler.met /\ h.gen = handler.gen
      /\ h.route = handler.route /\ h.service = handler.service
      /\ h.chain = handler.chain /\ h.passed = handler.passed
  BY HandlerFields DEF NoHandler
<1>3. Continues(handler, handler', handler.pc, g) /\ Advances(handler, handler')
  BY <1>1, <1>2, HandlerFields DEF Meets, NoHandler, Continues, Advances, TheSpec
<1> QED BY <1>3 DEF Passes, Handle, configVars, Undisturbed

LEMMA LackIsMiss ==
  ASSUME Inv, NEW g, NEW service, NEW status, Lacks(g, service, status)
  PROVE  /\ Continues(handler, handler', "missing", g) /\ Stays(handler, handler')
         /\ Undisturbed /\ balancer[service] # "filled" /\ balancer' = Created(service)
<1>1. handler' = Meets(g, [handler EXCEPT !.pc = "missing", !.status = status])
  BY DEF Lacks
<1>2. Continues(handler, handler', "missing", g) /\ Stays(handler, handler')
  BY <1>1, HandlerFields DEF Meets, NoHandler, Continues, Stays
<1> QED BY <1>2 DEF Lacks, Undisturbed

Moves(g) == TurnedDown(g) \/ PassedOn(g) \/ Missed(g) \/ Forwarded(g) \/ Answered(g)

\* A plugin, the one whose turn it is, lets the request pass or ends it.
LEMMA PluginMoves ==
  ASSUME Inv, NEW name \in PluginNames, Turn(name), NEW g, g = plugins[name]
  PROVE  /\ g \in handler.gen .. Newest
         /\ \A status : Stops(g, status) => Moves(g) /\ balancer' = balancer /\ Undisturbed
         /\ \A h, role : (h = handler \/ h = [handler EXCEPT !.role = role]) /\ Passes(g, h) =>
              Moves(g) /\ balancer' = balancer /\ Undisturbed
<1>1. handler.pc = "chain" /\ handler.chain # <<>> /\ TheSpec.name \in PluginNames
  BY DEF Turn, TheSpec
<1>2. g \in handler.gen .. Newest
  BY <1>1, MetIsCurrent
<1>3. ASSUME NEW status, Stops(g, status)
      PROVE  Moves(g) /\ balancer' = balancer /\ Undisturbed
  BY <1>1, <1>3, StopIsEnd DEF Moves, TurnedDown
<1>4. ASSUME NEW h, NEW role, h = handler \/ h = [handler EXCEPT !.role = role], Passes(g, h)
      PROVE  Moves(g) /\ balancer' = balancer /\ Undisturbed
  <2>1. /\ Continues(handler, handler', handler.pc, g) /\ Advances(handler, handler')
        /\ Undisturbed /\ balancer' = balancer
    BY <1>4, PassIsAdvance
  <2> QED BY <1>1, <2>1 DEF Moves, PassedOn
<1> QED BY <1>2, <1>3, <1>4

LEMMA ChainMoves ==
  ASSUME Inv, PluginNotFound \/ RateLimit \/ CircuitBreakerCheck \/ ApiKey \/ Rbac \/ Auth
  PROVE  \E g \in handler.gen .. Newest : Moves(g) /\ Undisturbed /\ (Missed(g) \/ balancer' = balancer)
<1>1. CASE PluginNotFound
  <2>1. handler.pc = "chain" /\ Stops(handler.gen, 500)
    BY <1>1 DEF PluginNotFound
  <2>2. handler.gen \in handler.gen .. Newest
    BY <2>1, MetIsCurrent
  <2> QED BY <2>1, <2>2, StopIsEnd DEF Moves, TurnedDown
<1>2. CASE RateLimit
  <2> DEFINE g == plugins["ratelimit"]
  <2>1. Turn("ratelimit") /\ handler.pc = "chain" /\ "ratelimit" \in PluginNames
    BY <1>2 DEF RateLimit, Turn, PluginNames
  <2>2. g \in handler.gen .. Newest
    BY <2>1, MetIsCurrent
  <2>3. \/ \E status : Stops(g, status)
        \/ Passes(g, handler)
        \/ /\ TheSpec.rule \notin RuleNames(Config(g))
           /\ Handle(Meets(g, [handler EXCEPT !.pc = "missing", !.status = 500]))
    BY <1>2 DEF RateLimit
  <2> HIDE DEF g
  <2>4. CASE \E status : Stops(g, status)
    BY <2>1, <2>2, <2>4, PluginMoves DEF g
  <2>5. CASE Passes(g, handler)
    BY <2>1, <2>2, <2>5, PluginMoves DEF g
  <2>6. CASE /\ TheSpec.rule \notin RuleNames(Config(g))
             /\ Handle(Meets(g, [handler EXCEPT !.pc = "missing", !.status = 500]))
    <3>1. handler' = Meets(g, [handler EXCEPT !.pc = "missing", !.status = 500])
      BY <2>6 DEF Handle
    <3>2. Continues(handler, handler', "missing", g) /\ Stays(handler, handler')
      BY <3>1, HandlerFields DEF Meets, NoHandler, Continues, Stays
    <3>3. balancer' = balancer /\ Undisturbed
      BY <2>6 DEF Handle, configVars, Undisturbed
    <3>4. Missed(g)
      BY <2>1, <2>6, <3>2, <3>3 DEF Missed, RuleMissing
    <3> QED BY <2>2, <3>3, <3>4 DEF Moves
  <2> QED BY <2>3, <2>4, <2>5, <2>6
<1>3. CASE CircuitBreakerCheck
  <2>1. Turn("circuitbreaker") /\ "circuitbreaker" \in PluginNames
    BY <1>3 DEF CircuitBreakerCheck, PluginNames
  <2> QED BY <1>3, <2>1, PluginMoves DEF CircuitBreakerCheck
<1>4. CASE ApiKey
  <2>1. Turn("apikey") /\ "apikey" \in PluginNames
    BY <1>4 DEF ApiKey, PluginNames
  <2> QED BY <1>4, <2>1, PluginMoves DEF ApiKey
<1>5. CASE Rbac
  <2>1. Turn("rbac") /\ "rbac" \in PluginNames
    BY <1>5 DEF Rbac, PluginNames
  <2> QED BY <1>5, <2>1, PluginMoves DEF Rbac
<1>6. CASE Auth
  <2> DEFINE g == plugins["auth"]
  <2>1. Turn("auth") /\ "auth" \in PluginNames /\ handler.pc = "chain"
    BY <1>6 DEF Auth, PluginNames, Turn
  <2>2. g \in handler.gen .. Newest
    BY <2>1, MetIsCurrent
  <2>3. \/ \E status : Stops(g, status)
        \/ \E role : Passes(g, [handler EXCEPT !.role = role])
        \/ Lacks(g, AuthService, 502)
    BY <1>6 DEF Auth
  <2>4. CASE \E status : Stops(g, status)
    BY <2>1, <2>2, <2>4, PluginMoves
  <2>5. CASE \E role : Passes(g, [handler EXCEPT !.role = role])
    BY <2>1, <2>2, <2>5, PluginMoves
  <2>6. CASE Lacks(g, AuthService, 502)
    <3> HIDE DEF g
    <3>1. /\ Continues(handler, handler', "missing", g) /\ Stays(handler, handler')
          /\ Undisturbed /\ NotFilled(AuthService)
      BY <2>6, LackIsMiss DEF NotFilled
    <3>2. Missed(g)
      BY <2>1, <3>1 DEF Missed, BalancerMissing
    <3> QED BY <2>2, <3>1, <3>2 DEF Moves
  <2> QED BY <2>3, <2>4, <2>5, <2>6
<1> QED BY <1>1, <1>2, <1>3, <1>4, <1>5, <1>6

LEMMA ProxyMoves ==
  ASSUME Inv, HealthCheck \/ Unavailable \/ Forward \/ RecordResult \/ Abandon
  PROVE  \E g \in handler.gen .. Newest : Moves(g) /\ Undisturbed /\ (Missed(g) \/ balancer' = balancer)
<1>1. CASE HealthCheck
  <2>1. serving \in handler.gen .. Newest
    BY <1>1, MetIsCurrent DEF HealthCheck
  <2>2. /\ handler.pc = "health" /\ Undisturbed /\ balancer' = balancer
        /\ \E status : handler' = [handler EXCEPT !.pc = "done", !.met = @ \cup {serving}, !.status = status]
    BY <1>1 DEF HealthCheck, Handle, configVars, Undisturbed
  <2>3. Continues(handler, handler', "done", serving) /\ Stays(handler, handler')
    BY <2>2, HandlerFields DEF NoHandler, Continues, Stays
  <2> QED BY <2>1, <2>2, <2>3 DEF Moves, TurnedDown
<1>2. CASE Unavailable
  <2>1. /\ proxyBreaker \in handler.gen .. Newest
        /\ handler.pc = "chain" /\ handler.chain = <<>>
    BY <1>2, MetIsCurrent DEF Unavailable
  <2>2. CASE Stops(proxyBreaker, 502)
    BY <2>1, <2>2, StopIsEnd DEF Moves, TurnedDown
  <2>3. CASE Lacks(proxyBreaker, ServiceName, 502)
    <3>1. /\ Continues(handler, handler', "missing", proxyBreaker) /\ Stays(handler, handler')
          /\ Undisturbed /\ NotFilled(ServiceName)
      BY <2>3, LackIsMiss DEF NotFilled
    <3>2. Missed(proxyBreaker)
      BY <2>1, <3>1 DEF Missed, BalancerMissing
    <3> QED BY <2>1, <3>1, <3>2 DEF Moves
  <2> QED BY <1>2, <2>2, <2>3 DEF Unavailable
<1>3. CASE Forward
  <2>1. /\ handler.gen \in handler.gen .. Newest /\ handler.gen \in handler.met
        /\ handler.pc = "chain" /\ handler.chain = <<>>
        /\ handler' = [handler EXCEPT !.pc = "forwarded"] /\ Undisturbed /\ balancer' = balancer
    BY <1>3, MetIsCurrent DEF Forward, Handle, configVars, Undisturbed
  <2>2. handler.met \cup {handler.gen} = handler.met
    BY <2>1
  <2>3. Continues(handler, handler', "forwarded", handler.gen) /\ Stays(handler, handler')
    BY <2>1, <2>2, HandlerFields DEF NoHandler, Continues, Stays
  <2> QED BY <2>1, <2>3 DEF Moves, Forwarded
<1>4. CASE RecordResult
  <2>1. proxyBreaker \in handler.gen .. Newest /\ handler.pc = "forwarded"
    BY <1>4, MetIsCurrent DEF RecordResult
  <2> QED BY <1>4, <2>1, StopIsEnd DEF RecordResult, Moves, Answered
<1>5. CASE Abandon
  <2>1. handler.gen \in handler.gen .. Newest /\ handler.pc = "forwarded"
    BY <1>5, MetIsCurrent DEF Abandon
  <2> QED BY <1>5, <2>1, StopIsEnd DEF Abandon, Moves, Answered
<1> QED BY <1>1, <1>2, <1>3, <1>4, <1>5

LEMMA ArrivalIsArrived ==
  ASSUME Inv, NEW r, ArriveUnrouted(r) \/ ArriveRouted(r)
  PROVE  Arrived /\ Undisturbed /\ balancer' = balancer
<1> DEFINE cfg == Config(serving)
           i == FindRoute(cfg.routes, r.path, r.method)
           target == SelectTargetService(DOMAIN cfg.services, cfg.routes[i], r)
<1>1. /\ DOMAIN Arrival(r) = DOMAIN NoHandler /\ Arrival(r).gen = serving /\ Arrival(r).met = {serving}
      /\ Arrival(r).passed = {} /\ Arrival(r).service = None
  BY DEF Arrival, NoHandler
<1>2. handler.pc = "idle" /\ Undisturbed /\ balancer' = balancer
  BY DEF ArriveUnrouted, ArriveRouted, Arrive, configVars, Undisturbed
<1>3. CASE ArriveUnrouted(r)
  <2>1. \E status : handler' = [Arrival(r) EXCEPT !.pc = "done", !.status = status]
    BY <1>3 DEF ArriveUnrouted, Arrive
  <2> QED BY <1>1, <1>2, <2>1 DEF Arrived, NoHandler
<1>4. CASE ArriveRouted(r)
  <2>1. i \in DOMAIN cfg.routes
    <3>1. KnownConfig(cfg)
      BY DEF Inv, Configurations, Generations, Sound
    <3>2. IsList(cfg.routes) /\ \A k \in DOMAIN cfg.routes : IsList(cfg.routes[k].prefix)
      BY <3>1 DEF KnownConfig, KnownRoute
    <3>3. i # 0
      BY <1>4 DEF ArriveRouted
    <3> HIDE DEF cfg
    <3> QED BY <3>2, <3>3, FoundRoute
  <2>2. \/ handler' = [[Arrival(r) EXCEPT !.pc = "health"] EXCEPT !.route = i]
        \/ \E status : handler' = [[Arrival(r) EXCEPT !.pc = "done", !.status = status] EXCEPT !.route = i]
        \/ /\ target \in DOMAIN cfg.services
           /\ handler' = [[Arrival(r) EXCEPT !.pc = "chain", !.service = target,
                                             !.chain = PluginChain(cfg.routes[i])] EXCEPT !.route = i]
    BY <1>4 DEF ArriveRouted, Arrive
  <2> HIDE DEF i, target
  <2>3. CASE handler' = [[Arrival(r) EXCEPT !.pc = "health"] EXCEPT !.route = i]
    BY <1>1, <1>2, <2>3 DEF Arrived, NoHandler
  <2>4. CASE \E status : handler' = [[Arrival(r) EXCEPT !.pc = "done", !.status = status] EXCEPT !.route = i]
    BY <1>1, <1>2, <2>4 DEF Arrived, NoHandler
  <2>5. CASE /\ target \in DOMAIN cfg.services
             /\ handler' = [[Arrival(r) EXCEPT !.pc = "chain", !.service = target,
                                               !.chain = PluginChain(cfg.routes[i])] EXCEPT !.route = i]
    BY <1>1, <1>2, <2>1, <2>5 DEF Arrived, NoHandler
  <2> QED BY <2>2, <2>3, <2>4, <2>5
<1> QED BY <1>3, <1>4

\* A step of a request is an arrival, or one of the moves of a request under way.
LEMMA RequestMoves ==
  ASSUME Inv, RequestStep
  PROVE  /\ Undisturbed
         /\ \/ Arrived /\ balancer' = balancer
            \/ \E g \in handler.gen .. Newest : Moves(g) /\ (Missed(g) \/ balancer' = balancer)
BY ArrivalIsArrived, ChainMoves, ProxyMoves DEF RequestStep

-----------------------------------------------------------------------------
(* Requests                                                                *)

\* What the rest of a chain has after a plugin has let the request pass.
LEMMA RestCovers ==
  ASSUME NEW S, NEW chain \in Seq(S), chain # <<>>, Head(chain).name \in PluginNames,
         NEW d, CoveredBy(chain, d), d # Head(chain).name
  PROVE  CoveredBy(Tail(chain), d)
<1>1. PICK j \in DOMAIN chain : chain[j].name = d \/ chain[j].name \notin PluginNames
  BY DEF CoveredBy
<1>2. Head(chain) = chain[1] /\ DOMAIN chain = 1 .. Len(chain) /\ Len(chain) \in Nat
  OBVIOUS
<1>3. j # 1 /\ j \in 1 .. Len(chain)
  BY <1>1, <1>2
<1>4. DOMAIN Tail(chain) = 1 .. Len(chain) - 1 /\ \A k \in 1 .. Len(chain) - 1 : Tail(chain)[k] = chain[k + 1]
  BY <1>2
<1>5. j - 1 \in DOMAIN Tail(chain) /\ Tail(chain)[j - 1] = chain[j]
  BY <1>2, <1>3, <1>4
<1> QED BY <1>1, <1>5 DEF CoveredBy

LEMMA KnownRouteOf ==
  ASSUME Inv, NEW g \in 1 .. Newest, NEW i \in DOMAIN Config(g).routes
  PROVE  KnownRoute(Config(g).routes[i])
BY DEF Inv, Configurations, Sound, KnownConfig

LEMMA KnownServiceOf ==
  ASSUME Inv, NEW g \in 1 .. Newest, NEW s \in DOMAIN Config(g).services
  PROVE  s \in Services /\ s # None
BY NamesAssumption DEF Inv, Configurations, Sound, KnownConfig

\* A request under way keeps what it has while changes go on.
LEMMA RequestsStay ==
  ASSUME Inv, handler' = handler, serving' \in Int, serving <= serving', Newest' \in Int,
         Newest <= Newest', \A g \in 1 .. Newest : Config(g)' = Config(g)
  PROVE  Requests'
<1>1. Newest \in Nat /\ serving \in 1 .. Newest
  BY NewestIsNumber DEF Inv, Generations
<1>2. Meeting(handler, serving', Newest')
  <2>1. Meeting(handler, serving, Newest)
    BY DEF Inv, Requests
  <2> HIDE DEF Newest
  <2>2. handler.pc # "idle" => handler.gen \in 1 .. serving' /\ handler.met \subseteq handler.gen .. Newest'
    BY <1>1, <2>1 DEF Meeting
  <2> QED BY <2>1, <2>2 DEF Meeting
<1>3. OnItsRoute(handler, Config(handler.gen)')
  <2>1. CASE handler.pc = "idle"
    <3>1. handler.service = None
      BY <2>1 DEF Inv, Requests, Meeting, NoHandler
    <3> QED BY <3>1 DEF OnItsRoute
  <2>2. CASE handler.pc # "idle"
    <3>1. handler.gen \in 1 .. Newest
      BY <2>2, MetIsCurrent
    <3>2. Config(handler.gen)' = Config(handler.gen)
      BY <3>1
    <3> QED BY <3>2 DEF Inv, Requests
  <2> QED BY <2>1, <2>2
<1> QED BY <1>2, <1>3 DEF Requests

\* A move keeps what the request has.
LEMMA MoveKeepsRequest ==
  ASSUME Inv, NEW g \in handler.gen .. Newest, Moves(g), Undisturbed
  PROVE  Requests'
<1>1. Newest' = Newest /\ serving' = serving /\ \A k : Config(k)' = generations[k].config
  BY DEF Undisturbed, Newest, Config
<1>2. handler.pc \in {"health", "chain", "forwarded"}
  BY DEF Moves, TurnedDown, PassedOn, Missed, Forwarded, Answered
<1>3. /\ handler.gen \in 1 .. serving /\ handler.gen \in handler.met
      /\ handler.met \subseteq handler.gen .. Newest
      /\ DOMAIN handler = DOMAIN NoHandler /\ handler.passed \subseteq PluginNames
      /\ handler.pc \in {"chain", "forwarded"} => handler.service # None
      /\ OnItsRoute(handler, Config(handler.gen))
  BY <1>2 DEF Inv, Requests, Meeting
<1>4. /\ Continues(handler, handler', handler'.pc, g)
      /\ handler'.pc \in {"done", "chain", "missing", "forwarded"}
      /\ handler'.pc \in {"chain", "forwarded"} => handler.pc = "chain"
      /\ handler'.passed \subseteq PluginNames
  BY <1>3 DEF Moves, TurnedDown, PassedOn, Missed, Forwarded, Answered, Continues, Stays, Advances, TheSpec
<1>5. Meeting(handler', serving, Newest)
  BY <1>3, <1>4 DEF Meeting, Continues
<1> DEFINE route == Config(handler.gen).routes[handler.route]
<1>6. ASSUME handler.service # None
      PROVE  /\ handler'.chain \in Seq(ChainOf(route))
             /\ handler'.pc = "chain" =>
                  \A d \in DemandsOf(route) : d \in handler'.passed \/ CoveredBy(handler'.chain, d)
             /\ handler'.pc = "forwarded" => DemandsOf(route) \subseteq handler'.passed
  <2>1. handler.chain \in Seq(ChainOf(route))
    BY <1>3, <1>6 DEF OnItsRoute
  <2>2. handler.pc = "chain" => \A d \in DemandsOf(route) : d \in handler.passed \/ CoveredBy(handler.chain, d)
    BY <1>3, <1>6 DEF OnItsRoute
  <2> HIDE DEF route
  <2>3. CASE PassedOn(g)
    <3>1. /\ handler.chain # <<>> /\ Head(handler.chain).name \in PluginNames /\ handler.pc = "chain"
          /\ handler'.pc = "chain" /\ handler'.chain = Tail(handler.chain)
          /\ handler'.passed = handler.passed \cup {Head(handler.chain).name}
      BY <2>3 DEF PassedOn, Continues, Advances, TheSpec
    <3>2. \A d \in DemandsOf(route) : d \in handler'.passed \/ CoveredBy(handler'.chain, d)
      BY <2>1, <2>2, <3>1, RestCovers
    <3>3. handler'.chain \in Seq(ChainOf(route))
      BY <2>1, <3>1
    <3> QED BY <3>1, <3>2, <3>3
  <2>4. CASE Forwarded(g)
    <3>1. handler.pc = "chain" /\ handler.chain = <<>> /\ handler'.pc = "forwarded" /\ Stays(handler, handler')
      BY <2>4 DEF Forwarded, Continues
    <3>2. \A d : ~CoveredBy(<<>>, d)
      BY DEF CoveredBy
    <3> QED BY <2>1, <2>2, <3>1, <3>2 DEF Stays
  <2>5. CASE TurnedDown(g) \/ Missed(g) \/ Answered(g)
    <3>1. handler'.pc \in {"done", "missing"} /\ Stays(handler, handler')
      BY <2>5 DEF TurnedDown, Missed, Answered, Continues
    <3> QED BY <2>1, <3>1 DEF Stays
  <2> QED BY <2>3, <2>4, <2>5 DEF Moves
<1>7. OnItsRoute(handler', Config(handler.gen))
  BY <1>3, <1>4, <1>6 DEF OnItsRoute, Continues
<1>8. Config(handler.gen)' = Config(handler.gen) /\ handler'.gen = handler.gen
  BY <1>1, <1>4 DEF Continues, Config
<1> QED BY <1>1, <1>5, <1>7, <1>8 DEF Requests, Config

LEMMA ArrivalKeepsRequest ==
  ASSUME Inv, Arrived, Undisturbed
  PROVE  Requests'
<1>1. /\ Newest' = Newest /\ serving' = serving /\ generations' = generations
      /\ Newest \in Nat /\ serving \in 1 .. Newest
  BY NewestIsNumber DEF Undisturbed, Newest, Inv, Generations
<1>2. Meeting(handler', serving, Newest)
  <2>1. \A s \in DOMAIN Config(serving).services : s # None
    BY <1>1, KnownServiceOf
  <2> HIDE DEF Newest
  <2> QED BY <1>1, <2>1 DEF Arrived, Meeting
<1>3. OnItsRoute(handler', Config(serving))
  <2>1. CASE handler'.service = None
    BY <2>1 DEF OnItsRoute
  <2>2. CASE handler'.service # None
    <3>1. /\ handler'.pc = "chain" /\ handler'.passed = {}
          /\ handler'.route \in DOMAIN Config(serving).routes
          /\ handler'.service \in DOMAIN Config(serving).services
          /\ handler'.chain = PluginChain(Config(serving).routes[handler'.route])
      BY <2>2 DEF Arrived
    <3>2. KnownRoute(Config(serving).routes[handler'.route])
      BY <1>1, <3>1, KnownRouteOf
    <3> QED BY <3>1, <3>2, ChainCovers DEF OnItsRoute
  <2> QED BY <2>1, <2>2
<1>4. Config(handler.gen)' = Config(serving)
  BY <1>1 DEF Arrived, Config
<1> QED BY <1>1, <1>2, <1>3, <1>4 DEF Requests

LEMMA RequestsKept ==
  ASSUME Inv, Next
  PROVE  Requests'
<1>1. Newest \in Nat /\ serving \in 1 .. Newest
  BY NewestIsNumber DEF Inv, Generations
<1>2. CASE \E edit \in left.edits : Edit(edit)
  <2>1. PICK edit \in left.edits : Edit(edit)
    BY <1>2
  <2>2. handler' = handler /\ serving' = serving
    BY <2>1 DEF Edit
  <2> QED BY <1>1, <2>1, <2>2, EditAdds, RequestsStay DEF Inv
<1>3. CASE RefuseAuthPlugin \/ RegisterPlugin \/ SetBreaker \/ UpdateCircuitBreakerService
           \/ StoreSnapshot \/ ConfigureMonitor
  <2>1. handler' = handler /\ generations' = generations /\ serving' \in {serving, Newest}
    BY <1>3 DEF RefuseAuthPlugin, RegisterPlugin, SetBreaker, UpdateCircuitBreakerService,
       StoreSnapshot, ConfigureMonitor
  <2>2. Newest' = Newest /\ \A g \in 1 .. Newest : Config(g)' = Config(g)
    BY <2>1 DEF Newest, Config
  <2>3. serving' \in Int /\ serving <= serving' /\ Newest <= Newest'
    BY <1>1, <2>1, <2>2
  <2> QED BY <1>1, <2>1, <2>2, <2>3, RequestsStay
<1>4. CASE MonitorStep \/ Second
  <2>1. handler' = handler /\ generations' = generations /\ serving' = serving
    BY <1>4, MonitorLeaves, RequestLeaves DEF configVars, Second
  <2>2. Newest' = Newest /\ \A g \in 1 .. Newest : Config(g)' = Config(g)
    BY <2>1 DEF Newest, Config
  <2> QED BY <1>1, <2>1, <2>2, RequestsStay
<1>5. CASE RequestStep
  BY <1>5, RequestMoves, MoveKeepsRequest, ArrivalKeepsRequest
<1>6. CASE Finish
  <2>1. handler' = NoHandler
    BY <1>6 DEF Finish
  <2> QED BY <2>1 DEF Requests, Meeting, OnItsRoute, NoHandler
<1> QED BY <1>2, <1>3, <1>4, <1>5, <1>6, KindsOfSteps DEF ChangeStep

LEMMA BalancersKept ==
  ASSUME Inv, Next
  PROVE  Balancers'
<1>1. CASE \E edit \in left.edits : Edit(edit)
  <2>1. \E old, new : balancer' = Synced(old, new)
    BY <1>1 DEF Edit
  <2> QED BY <2>1 DEF Synced, Inv, Balancers
<1>2. CASE balancer' = balancer
  BY <1>2 DEF Inv, Balancers
<1>3. CASE RequestStep
  <2>1. balancer' = balancer \/ \E service : balancer' = Created(service)
    BY <1>3, RequestMoves DEF Missed, BalancerMissing, NotFilled
  <2> QED BY <1>2, <2>1 DEF Inv, Balancers, Created
<1> QED BY <1>1, <1>2, <1>3, KindsOfSteps, MonitorLeaves DEF ChangeStep, RefuseAuthPlugin, RegisterPlugin,
        SetBreaker, UpdateCircuitBreakerService, StoreSnapshot, ConfigureMonitor, Finish, Second, configVars

-----------------------------------------------------------------------------
(* Metrics                                                                 *)

Collector == [total : Nat, total4xx : Nat, total5xx : Nat, total429 : Nat,
              histogram : [Buckets -> Nat], sum : Nat, counts : [Slots -> Nat], epochs : [Slots -> Nat]]

LEMMA SlotIs ==
  ASSUME NEW m \in Collector, NEW sec \in Nat
  PROVE  /\ CountedInSlot(m, sec) \in Collector
         /\ CountedInSlot(m, sec).total = m.total
         /\ CountedInSlot(m, sec).histogram = m.histogram
         /\ CountedInSlot(m, sec).epochs = [m.epochs EXCEPT ![sec % RingSlots] = sec]
         /\ CountedInSlot(m, sec).counts =
              [m.counts EXCEPT ![sec % RingSlots] =
                 IF m.epochs[sec % RingSlots] # sec THEN 1 ELSE @ + 1]
<1> DEFINE s == sec % RingSlots
           count == IF m.epochs[s] # sec THEN 1 ELSE m.counts[s] + 1
<1>1. s \in Slots
  BY RingAssumption DEF Slots
<1>2. count \in Nat
  BY <1>1 DEF Collector
<1>3. [m.epochs EXCEPT ![s] = sec] \in [Slots -> Nat] /\ [m.counts EXCEPT ![s] = count] \in [Slots -> Nat]
  BY <1>1, <1>2 DEF Collector
<1>4. CountedInSlot(m, sec) = [m EXCEPT !.epochs = [m.epochs EXCEPT ![s] = sec],
                                        !.counts = [m.counts EXCEPT ![s] = count]]
  BY DEF CountedInSlot, Collector
<1>5. [m.counts EXCEPT ![s] = IF m.epochs[s] # sec THEN 1 ELSE @ + 1] = [m.counts EXCEPT ![s] = count]
  OBVIOUS
<1> HIDE DEF count
<1>6. DOMAIN m = {"total", "total4xx", "total5xx", "total429", "histogram", "sum", "counts", "epochs"}
  BY DEF Collector
<1> HIDE DEF s
<1> QED BY <1>3, <1>4, <1>5, <1>6 DEF Collector, s

\* What one request changes.
LEMMA ObserveIs ==
  ASSUME metrics \in Collector, now \in Nat, NEW status, NEW latency \in Nat, Observe(status, latency)
  PROVE  /\ metrics' \in Collector /\ now' = now
         /\ metrics'.total = metrics.total + 1
         /\ metrics'.histogram = [b \in Buckets |-> IF Within(latency, b) THEN metrics.histogram[b] + 1
                                                                        ELSE metrics.histogram[b]]
         /\ metrics'.epochs = [metrics.epochs EXCEPT ![now % RingSlots] = now]
         /\ metrics'.counts = [metrics.counts EXCEPT ![now % RingSlots] =
                                 IF metrics.epochs[now % RingSlots] # now THEN 1 ELSE @ + 1]
<1> DEFINE grown == [b \in Buckets |-> IF Within(latency, b) THEN metrics.histogram[b] + 1
                                                             ELSE metrics.histogram[b]]
           n4xx == IF status \in 400 .. 499 THEN metrics.total4xx + 1 ELSE metrics.total4xx
           n5xx == IF status >= 500 THEN metrics.total5xx + 1 ELSE metrics.total5xx
           n429 == IF status = 429 THEN metrics.total429 + 1 ELSE metrics.total429
           added == [metrics EXCEPT !.total = @ + 1, !.total4xx = n4xx, !.total5xx = n5xx,
                                    !.total429 = n429, !.sum = @ + latency, !.histogram = grown]
<1>1. metrics' = CountedInSlot(added, now) /\ now' = now
  BY DEF Observe
<1>2. grown \in [Buckets -> Nat]
  BY DEF Collector
<1>3. /\ added \in Collector /\ added.total = metrics.total + 1 /\ added.histogram = grown
      /\ added.epochs = metrics.epochs /\ added.counts = metrics.counts
  <2>1. n4xx \in Nat /\ n5xx \in Nat /\ n429 \in Nat
    BY DEF Collector
  <2> HIDE DEF grown, n4xx, n5xx, n429
  <2>2. metrics.total + 1 \in Nat /\ metrics.sum + latency \in Nat
    BY DEF Collector
  <2> QED BY <1>2, <2>1, <2>2 DEF Collector
<1> DEFINE k == CountedInSlot(added, now)
<1> HIDE DEF added
<1>4. /\ k \in Collector /\ k.total = added.total /\ k.histogram = added.histogram
      /\ k.epochs = [added.epochs EXCEPT ![now % RingSlots] = now]
      /\ k.counts = [added.counts EXCEPT ![now % RingSlots] =
                        IF added.epochs[now % RingSlots] # now THEN 1 ELSE @ + 1]
  <2> HIDE DEF grown
  <2> QED BY <1>3, SlotIs
<1>5. metrics' = k
  BY <1>1
<1> HIDE DEF k
<1> QED BY <1>1, <1>3, <1>4, <1>5

\* Only requests that end and seconds that pass reach the collector.
LEMMA MetricsLeft ==
  ASSUME Inv, ChangeStep \/ MonitorStep \/ RequestStep
  PROVE  UNCHANGED metricsVars
BY RequestMoves, MonitorLeaves DEF ChangeStep, Edit, RefuseAuthPlugin, RegisterPlugin, SetBreaker,
   UpdateCircuitBreakerService, StoreSnapshot, ConfigureMonitor, Undisturbed

LEMMA MetricsKept ==
  ASSUME Inv, Next
  PROVE  MetricsTypeOK'
<1>1. CASE UNCHANGED metricsVars
  BY <1>1 DEF metricsVars, Inv, MetricsTypeOK
<1>2. CASE Finish
  <2>1. PICK latency \in Latencies : Observe(handler.status, latency)
    BY <1>2 DEF Finish
  <2>2. latency \in Nat /\ now \in Nat /\ now' = now
    BY <2>1, LatencyAssumption DEF Observe, Inv, MetricsTypeOK
  <2>3. metrics \in Collector
    BY DEF Inv, MetricsTypeOK, Collector
  <2>4. metrics' \in Collector
    BY <2>1, <2>2, <2>3, ObserveIs
  <2> QED BY <2>2, <2>4 DEF MetricsTypeOK, Collector
<1>3. CASE Second
  BY <1>3 DEF Second, TickSecond, Inv, MetricsTypeOK
<1>4. CASE ChangeStep \/ MonitorStep \/ RequestStep
  BY <1>1, <1>4, MetricsLeft
<1> QED BY <1>2, <1>3, <1>4, KindsOfSteps

-----------------------------------------------------------------------------
(* The invariant holds                                                     *)

LEMMA InitInv == Init => Inv
<1> SUFFICES ASSUME Init PROVE Inv
  OBVIOUS
<1> DEFINE cfg == left.boot
           generation == [config |-> cfg, edit |-> NoEdit]
<1>1. left \in Scenarios /\ generations = <<generation>>
  BY DEF Init
<1>2. /\ DOMAIN left = {"boot", "edits", "requests", "seconds", "records"}
      /\ Sound(cfg) /\ \A edit \in left.edits : KnownEdit(edit)
  BY <1>1, ScenarioAssumption DEF Sound
<1>3. generations \in Seq({generation})
  BY <1>1
<1>4. IsList(generations) /\ Newest = 1 /\ Config(1) = cfg
  BY <1>1, <1>3, SequenceIsList DEF Newest, Config
<1>5. /\ applying = "idle" /\ serving = 1 /\ breaker = 1 /\ proxyBreaker = 1
      /\ plugins = [p \in PluginNames |-> 1] /\ records = {} /\ handler = NoHandler
      /\ monitors = <<IF cfg.monitor.enabled THEN NewMonitor ELSE NoMonitor>>
      /\ monitorCancel = Wanted(1) /\ monitorPath = PathFor(1)
  BY <1>4 DEF Init, Wanted, PathFor
<1>6. 1 .. 1 = {1}
  OBVIOUS
<1> HIDE DEF cfg, generation, Newest
<1>7. Configurations
  BY <1>2, <1>4, <1>6 DEF Configurations
<1>8. Generations
  BY <1>4, <1>5, <1>6 DEF Generations, PluginNames
<1>9. Monitoring
  <2>1. Wanted(1) \in {0, 1} /\ PathFor(1) \in {"", PathOf(Config(1))}
    BY DEF Wanted, PathFor
  <2>2. /\ monitors \in [1 .. 1 -> MonitorOf(1)] /\ monitors[1].pc \in {"off", "count"}
        /\ GoesOn(monitors[1]) <=> Wanted(1) = 1
    BY <1>4, <1>5, NewMonitors DEF Wanted
  <2>3. {0, 1} \subseteq 0 .. 1
    OBVIOUS
  <2>4. monitorPath \in {""} \cup {PathOf(Config(g)) : g \in 1 .. Newest}
    BY <1>4, <1>5, <1>6, <2>1
  <2>5. monitors \in [1 .. Newest -> MonitorOf(Newest)]
    BY <1>4, <2>2
  <2>6. records \subseteq RecordOf(Newest) /\ \A r \in records : r.by <= r.counted /\ r.counted <= r.circuits
    BY <1>5
  <2>7. monitorCancel \in 0 .. Newest
    BY <1>4, <1>5, <2>1, <2>3
  <2>8. ASSUME NEW g \in 1 .. Newest
        PROVE  /\ GoesOn(monitors[g]) <=> g = monitorCancel
               /\ monitors[g].pc # "off" => g <= serving
               /\ monitors[g].pc # "circuits" /\ monitors[g].pc # "append"
    <3>1. g = 1
      BY <1>4, <1>6
    <3>2. monitorCancel = 1 <=> Wanted(1) = 1
      BY <1>5
    <3> QED BY <1>5, <2>2, <3>1, <3>2
  <2>9. monitorCancel = Wanted(serving) /\ monitorPath = PathFor(serving)
    BY <1>5
  <2> QED BY <2>4, <2>5, <2>6, <2>7, <2>8, <2>9 DEF Monitoring
<1>10. Balancers
  BY DEF Init, Balancers
<1>11. Requests
  BY <1>5 DEF Requests, Meeting, OnItsRoute, NoHandler
<1>12. MetricsTypeOK
  BY StartAssumption DEF Init, MetricsInit, MetricsTypeOK
<1> QED BY <1>7, <1>8, <1>9, <1>10, <1>11, <1>12 DEF Inv

LEMMA NextKeepsInv == Inv /\ [Next]_vars => Inv'
<1> SUFFICES ASSUME Inv, [Next]_vars PROVE Inv'
  OBVIOUS
<1>1. CASE Next
  BY <1>1, ConfigurationsKept, GenerationsKept, MonitoringKept, BalancersKept, RequestsKept, MetricsKept DEF Inv
<1>2. CASE UNCHANGED vars
  <2>1. Newest' = Newest /\ \A g : Config(g)' = generations[g].config
    BY <1>2 DEF vars, configVars, Newest, Config
  <2>2. Configurations' /\ Generations'
    BY <1>2, <2>1 DEF vars, configVars, Inv, Configurations, Generations, Config
  <2>3. Monitoring'
    BY <1>2, <2>1 DEF vars, configVars, monitorVars, Inv, Monitoring, Wanted, PathFor, Config
  <2>4. Balancers' /\ MetricsTypeOK'
    BY <1>2 DEF vars, configVars, metricsVars, Inv, Balancers, MetricsTypeOK
  <2>5. Requests'
    BY <1>2, <2>1 DEF vars, configVars, Inv, Requests, Config
  <2> QED BY <2>2, <2>3, <2>4, <2>5 DEF Inv
<1> QED BY <1>1, <1>2

\* Inv holds: sound configurations, generations in their order, one monitor, and
\* requests that are owed what their routes demand.
THEOREM Invariance == Spec => []Inv
BY InitInv, NextKeepsInv, PTL DEF Spec

\* Every variable has its type: what a request meets is a generation there has been,
\* whatever changes are under way.
THEOREM TypeCorrect == Spec => []TypeOK
<1>1. Inv => TypeOK
  <2> SUFFICES ASSUME Inv PROVE TypeOK
    OBVIOUS
  <2>1. Newest \in Nat /\ serving \in 1 .. Newest
    BY NewestIsNumber DEF Inv, Generations
  <2>2. serving .. Newest \subseteq 1 .. Newest
    BY <2>1
  <2>3. /\ plugins \in [PluginNames -> 1 .. Newest] /\ {breaker, proxyBreaker, serving} \subseteq 1 .. Newest
        /\ applying \in PluginNames \cup {"idle", "breaker", "proxy", "snapshot", "monitor"}
    BY <2>1, <2>2 DEF Inv, Generations
  <2>4. /\ monitorCancel \in 0 .. Newest
        /\ monitorPath \in {""} \cup {PathOf(Config(g)) : g \in 1 .. Newest}
        /\ monitors \in [1 .. Newest -> MonitorOf(Newest)] /\ records \subseteq RecordOf(Newest)
    BY DEF Inv, Monitoring
  <2>5. handler.gen \in 0 .. Newest /\ handler.met \subseteq 1 .. Newest
    <3>1. CASE handler.pc = "idle"
      <4>1. handler.gen = 0 /\ handler.met = {}
        BY <3>1 DEF Inv, Requests, Meeting, NoHandler
      <4> QED BY <2>1, <4>1
    <3>2. CASE handler.pc # "idle"
      <4>1. handler.gen \in 1 .. Newest /\ handler.met \subseteq handler.gen .. Newest
        BY <3>2, MetIsCurrent DEF Inv, Requests, Meeting
      <4> HIDE DEF Newest
      <4> QED BY <2>1, <4>1
    <3> QED BY <3>1, <3>2
  <2>6. /\ handler.pc \in {"idle", "health", "chain", "forwarded", "missing", "done"}
        /\ handler.passed \subseteq PluginNames
    BY DEF Inv, Requests, Meeting
  <2> QED BY <2>3, <2>4, <2>5, <2>6 DEF TypeOK, Inv, Balancers, MonitorOf, RecordOf
<1> QED BY <1>1, Invariance, PTL

\* Between two changes the monitor that will go on is the running configuration's, and
\* the path shown is its; no record is made from breakers older than its monitor.
THEOREM OneMonitorGoesOn == Spec => []MonitorFollowsConfig
<1>1. Inv => MonitorFollowsConfig
  <2> SUFFICES ASSUME Inv PROVE MonitorFollowsConfig
    OBVIOUS
  <2>1. \A r \in records : r.by <= r.counted /\ r.counted <= r.circuits
    BY DEF Inv, Monitoring
  <2>2. ASSUME applying = "idle"
        PROVE  LET cfg == Config(serving)
                   on  == {g \in 1 .. Newest : monitors[g].pc \notin {"off", "ended"} /\ ~monitors[g].stop}
               IN /\ on = IF cfg.monitor.enabled THEN {serving} ELSE {}
                  /\ monitorPath = IF cfg.monitor.enabled THEN PathOf(cfg) ELSE ""
    <3>1. monitorCancel = Wanted(serving) /\ monitorPath = PathFor(serving)
      BY <2>2 DEF Inv, Monitoring
    <3>2. \A g \in 1 .. Newest : (monitors[g].pc \notin {"off", "ended"} /\ ~monitors[g].stop) <=> g = monitorCancel
      BY DEF Inv, Monitoring, GoesOn
    <3>3. serving \in 1 .. Newest /\ \A g \in 1 .. Newest : g # 0
      BY NewestIsNumber DEF Inv, Generations
    <3> QED BY <3>1, <3>2, <3>3 DEF Wanted, PathFor
  <2> QED BY <2>1, <2>2 DEF MonitorFollowsConfig
<1> QED BY <1>1, Invariance, PTL

-----------------------------------------------------------------------------
(* Edits of routes, and traffic                                            *)

LEMMA EditIsLocal ==
  ASSUME NEW cfg, Sound(cfg), NEW edit, KnownEdit(edit), Mutated(cfg, edit) # None, NEW path
  PROVE  LET old == RouteIn(cfg.routes, path)
             new == RouteIn(Mutated(cfg, edit).routes, path)
         IN /\ edit.op = "upsert route" =>
                 /\ path = edit.route.path /\ path # <<>> => new = edit.route
                 /\ \/ old = new \/ new = edit.route
                    \/ old # None /\ Concerns(edit, old)
            /\ edit.op = "delete route" =>
                 /\ new # None => ~Concerns(edit, new)
                 /\ old = new \/ (old # None /\ Concerns(edit, old))
<1>1. /\ RouteList(cfg.routes) /\ \A i \in DOMAIN cfg.routes : cfg.routes[i] # None
      /\ "routes" \in DOMAIN cfg
  BY DEF Sound, KnownConfig, KnownRoute, RouteList
<1> DEFINE old == RouteIn(cfg.routes, path)
           new == RouteIn(Mutated(cfg, edit).routes, path)
<1>2. ASSUME edit.op = "upsert route"
      PROVE  /\ path = edit.route.path /\ path # <<>> => new = edit.route
             /\ \/ old = new \/ new = edit.route
                \/ old # None /\ Concerns(edit, old)
  <2>1. KnownRoute(edit.route)
    BY <1>2 DEF KnownEdit
  <2>2. Mutated(cfg, edit) = UpsertRoute(cfg, edit.route)
    BY <1>2 DEF Mutated
  <2>3. UpsertRoute(cfg, edit.route).routes =
          Upsert(cfg.routes, edit.route, {i \in DOMAIN cfg.routes : SameRouteIdentity(cfg.routes[i], edit.route)})
    BY <1>1 DEF UpsertRoute
  <2>4. IsList(edit.route.prefix)
    BY <2>1 DEF KnownRoute
  <2>5. /\ path = edit.route.path /\ path # <<>> => new = edit.route
        /\ \/ old = new \/ new = edit.route
           \/ old # None /\ Identity(old) = Identity(edit.route)
    BY <1>1, <2>2, <2>3, <2>4, UpsertIsLocal
  <2>6. Concerns(edit, old) <=> Identity(old) = Identity(edit.route)
    BY <1>2 DEF Concerns
  <2> QED BY <2>5, <2>6
<1>3. ASSUME edit.op = "delete route"
      PROVE  /\ new # None => ~Concerns(edit, new)
             /\ old = new \/ (old # None /\ Concerns(edit, old))
  <2> DEFINE places == {i \in DOMAIN cfg.routes : ~Named(cfg.routes[i], edit.path, edit.prefix)}
             i == FindRouteByPathOnly(cfg.routes, path)
  <2>1. Mutated(cfg, edit) = DeleteRoute(cfg, edit.path, edit.prefix)
    BY <1>3 DEF Mutated
  <2>2. DeleteRoute(cfg, edit.path, edit.prefix).routes = Kept(cfg.routes, places)
    BY <1>1 DEF DeleteRoute
  <2>3. \A r : Concerns(edit, r) <=> Named(r, edit.path, edit.prefix)
    BY <1>3 DEF Concerns, Named
  <2>4. places \in SUBSET DOMAIN cfg.routes /\ \A k \in places : ~Concerns(edit, cfg.routes[k])
    BY <2>3
  <2>5. \A k \in DOMAIN cfg.routes : k \in places \/ Concerns(edit, cfg.routes[k])
    BY <2>3
  <2> HIDE DEF places
  <2>6. /\ new = None \/ \E k \in places : new = cfg.routes[k]
        /\ i = 0 \/ i \in places => new = old
    BY <1>1, <2>1, <2>2, <2>4, DeleteIsLocal
  <2>7. i # 0 => i \in DOMAIN cfg.routes /\ old = cfg.routes[i]
    BY <1>1, FoundIs DEF RouteIn
  <2> QED BY <1>1, <2>4, <2>5, <2>6, <2>7
<1> QED BY <1>2, <1>3

\* The change under way is the one its edit asks for, of the configuration that serves.
ChangeFollows ==
  applying \in PluginNames \cup {"breaker", "proxy", "snapshot"} =>
    /\ KnownEdit(generations[Newest].edit) /\ Config(Newest) # None
    /\ Config(Newest) = Mutated(Config(serving), generations[Newest].edit)

LEMMA ChangeFollowsKept ==
  ASSUME Inv, ChangeFollows, [Next]_vars
  PROVE  ChangeFollows'
<1>1. CASE \E edit \in left.edits : Edit(edit)
  <2>1. PICK edit \in left.edits : Edit(edit)
    BY <1>1
  <2>2. /\ Newest' = Newest + 1 /\ serving' = serving /\ serving \in 1 .. Newest
        /\ generations'[Newest + 1].config = Mutated(Config(serving), edit)
        /\ generations'[Newest + 1].edit = edit
        /\ Config(serving)' = Config(serving)
        /\ Mutated(Config(serving), edit) # None /\ KnownEdit(edit)
    <3>1. serving' = serving /\ serving \in 1 .. Newest /\ Mutated(Config(serving), edit) # None /\ KnownEdit(edit)
      BY <2>1 DEF Edit, Accepted, Inv, Generations, Configurations
    <3>2. \A g \in 1 .. Newest : Config(g)' = generations'[g].config
      BY DEF Config
    <3> QED BY <2>1, <3>1, <3>2, EditAdds DEF Inv, Config
  <2> QED BY <2>2 DEF ChangeFollows, Config
<1>2. CASE StoreSnapshot \/ ConfigureMonitor \/ RefuseAuthPlugin
  <2>1. applying' \in {"monitor", "idle"}
    BY <1>2, StepOrder DEF StoreSnapshot, ConfigureMonitor, RefuseAuthPlugin
  <2> QED BY <2>1 DEF ChangeFollows, PluginNames
<1>3. CASE RegisterPlugin \/ SetBreaker \/ UpdateCircuitBreakerService
  <2>1. UNCHANGED <<generations, serving>> /\ applying \in PluginNames \cup {"breaker", "proxy", "snapshot"}
    BY <1>3 DEF RegisterPlugin, SetBreaker, UpdateCircuitBreakerService
  <2> QED BY <2>1 DEF ChangeFollows, Newest, Config
<1>4. CASE UNCHANGED <<generations, serving, applying>>
  BY <1>4 DEF ChangeFollows, Newest, Config
<1>5. CASE MonitorStep \/ RequestStep \/ Finish \/ Second \/ UNCHANGED vars
  BY <1>4, <1>5, MonitorLeaves, RequestLeaves DEF configVars, vars
<1> QED BY <1>1, <1>2, <1>3, <1>5, KindsOfSteps DEF ChangeStep

\* Whatever else goes on: when an edited configuration begins to serve, an upserted route
\* has its path, a deleted one is found no more, and no other path finds another route.
THEOREM RouteEditsStayLocal == Spec => RouteEditsAreLocal
<1> DEFINE Local ==
      serving' # serving =>
        LET edit == generations[serving'].edit
        IN \A path \in Paths :
             LET old == RouteFor(serving, path)
                 new == RouteFor(serving, path)'
             IN /\ edit.op = "upsert route" =>
                     /\ path = edit.route.path /\ path # <<>> => new = edit.route
                     /\ \/ old = new \/ new = edit.route
                        \/ old # None /\ Concerns(edit, old)
                /\ edit.op = "delete route" =>
                     /\ new # None => ~Concerns(edit, new)
                     /\ old = new \/ (old # None /\ Concerns(edit, old))
<1>1. Init => ChangeFollows
  BY DEF Init, ChangeFollows, PluginNames
<1>2. Inv /\ ChangeFollows /\ [Next]_vars => Local
  <2> SUFFICES ASSUME Inv, ChangeFollows, [Next]_vars, serving' # serving PROVE Local
    OBVIOUS
  <2>1. StoreSnapshot
    <3>1. ~UNCHANGED vars /\ ~MonitorStep /\ ~(RequestStep \/ Finish \/ Second)
      BY MonitorLeaves, RequestLeaves DEF vars, configVars
    <3>2. ChangeStep
      BY <3>1, KindsOfSteps
    <3> QED BY <3>2 DEF ChangeStep, Edit, RefuseAuthPlugin, RegisterPlugin, SetBreaker,
            UpdateCircuitBreakerService, ConfigureMonitor
  <2>2. applying = "snapshot" /\ serving' = Newest /\ generations' = generations
    BY <2>1 DEF StoreSnapshot
  <2> DEFINE cfg  == Config(serving)
             edit == generations[Newest].edit
  <2>3. KnownEdit(edit) /\ Mutated(cfg, edit) # None /\ Config(Newest) = Mutated(cfg, edit) /\ Sound(cfg)
    BY <2>2 DEF ChangeFollows, Inv, Generations, Configurations
  <2>4. ASSUME NEW path \in Paths
        PROVE  /\ RouteFor(serving, path) = RouteIn(cfg.routes, path)
               /\ RouteFor(serving, path)' = RouteIn(Mutated(cfg, edit).routes, path)
    <3>1. RouteFor(serving, path) = RouteIn(Config(serving).routes, path)
      BY DEF RouteFor, RouteIn
    <3>2. RouteFor(serving, path)' = RouteIn(Config(Newest).routes, path)
      BY <2>2 DEF RouteFor, RouteIn, Config
    <3> QED BY <2>3, <3>1, <3>2
  <2> HIDE DEF cfg, edit
  <2>5. ASSUME NEW path \in Paths
        PROVE  LET old == RouteIn(cfg.routes, path)
                   new == RouteIn(Mutated(cfg, edit).routes, path)
               IN /\ edit.op = "upsert route" =>
                       /\ path = edit.route.path /\ path # <<>> => new = edit.route
                       /\ \/ old = new \/ new = edit.route
                          \/ old # None /\ Concerns(edit, old)
                  /\ edit.op = "delete route" =>
                       /\ new # None => ~Concerns(edit, new)
                       /\ old = new \/ (old # None /\ Concerns(edit, old))
    BY <2>3, EditIsLocal
  <2>6. generations[serving'].edit = edit
    BY <2>2 DEF edit
  <2> QED BY <2>4, <2>5, <2>6
<1>3. Inv /\ ChangeFollows /\ [Next]_vars => ChangeFollows'
  BY ChangeFollowsKept
<1> QED BY <1>1, <1>2, <1>3, Invariance, PTL DEF Spec, RouteEditsAreLocal

\* Whichever configuration serves: of the hash values each service gets as many as its
\* weight says, or fewer where the total was narrowed, and no hash finds no service
\* unless nothing of the total is left.
THEOREM TrafficIsSplit == Spec => []TrafficFollowsWeights
<1>1. Inv => TrafficFollowsWeights
  <2> SUFFICES ASSUME Inv PROVE TrafficFollowsWeights
    OBVIOUS
  <2>1. KnownConfig(Config(serving))
    BY DEF Inv, Generations, Configurations, Sound
  <2>2. \A i \in DOMAIN Config(serving).routes :
          \A s \in DOMAIN Config(serving).routes[i].weights : Config(serving).routes[i].weights[s] \in Int
    BY <2>1 DEF KnownConfig, KnownRoute
  <2> QED BY <2>2, SharesFollow DEF TrafficFollowsWeights
<1> QED BY <1>1, Invariance, PTL

-----------------------------------------------------------------------------
(* What the metrics say                                                    *)

\* The requests that ended in a second, and those within a bucket's bound.
EndedAt(obs, sec)   == {i \in DOMAIN obs : obs[i].sec = sec}
InBucket(obs, b)    == {i \in DOMAIN obs : Within(obs[i].latency, b)}

\* What the collector m says of the requests obs up to the second t. A slot counts a
\* single second, one of those that end up in it, and no request in that slot is later.
Counted(m, obs, t) ==
  /\ IsList(obs) /\ m.total = Len(obs) /\ t >= StartSecond
  /\ \A i \in DOMAIN obs : /\ obs[i].sec \in StartSecond .. t /\ obs[i].latency \in Nat
                           /\ obs[i].sec <= m.epochs[obs[i].sec % RingSlots]
  /\ \A s \in Slots : /\ m.epochs[s] <= t /\ (m.epochs[s] = 0 \/ m.epochs[s] % RingSlots = s)
                      /\ m.counts[s] = Cardinality(EndedAt(obs, m.epochs[s]))
  /\ \A b \in Buckets : m.histogram[b] = Cardinality(InBucket(obs, b))

LEMMA ListFinite ==
  ASSUME NEW obs, IsList(obs)
  PROVE  /\ IsFiniteSet(DOMAIN obs) /\ Cardinality(DOMAIN obs) = Len(obs) /\ Len(obs) \in Nat
         /\ \A T \in SUBSET DOMAIN obs : /\ IsFiniteSet(T) /\ Cardinality(T) \in Nat
                                         /\ Cardinality(T) <= Len(obs)
<1>1. Len(obs) \in Nat /\ DOMAIN obs = 1 .. Len(obs)
  BY ListFacts
<1>2. IsFiniteSet(DOMAIN obs) /\ Cardinality(DOMAIN obs) = Len(obs)
  <2> DEFINE n == Len(obs)
             one == 1
  <2>1. n \in Nat /\ one = 1 /\ DOMAIN obs = one .. n
    BY <1>1
  <2> HIDE DEF n, one
  <2>2. /\ IsFiniteSet(one .. n)
        /\ Cardinality(one .. n) = IF one > n THEN 0 ELSE n - one + 1
    BY <2>1, FS_Interval
  <2>3. Cardinality(one .. n) = n
    BY <2>1, <2>2
  <2> QED BY <2>1, <2>2, <2>3 DEF n
<1> QED BY <1>1, <1>2, FS_Subset, FS_CardinalityType

\* One more request: it is counted in the sets it belongs to.
LEMMA OneMoreEnded ==
  ASSUME NEW obs, IsList(obs), NEW o
  PROVE  LET more == Append(obs, o)
             n == Len(obs) + 1
         IN /\ \A sec : Cardinality(EndedAt(more, sec)) =
                          IF o.sec = sec THEN Cardinality(EndedAt(obs, sec)) + 1
                          ELSE Cardinality(EndedAt(obs, sec))
            /\ \A b : Cardinality(InBucket(more, b)) =
                        IF Within(o.latency, b) THEN Cardinality(InBucket(obs, b)) + 1
                        ELSE Cardinality(InBucket(obs, b))
<1> DEFINE more == Append(obs, o)
           n == Len(obs) + 1
<1>1. /\ DOMAIN more = (DOMAIN obs) \cup {n} /\ n \notin DOMAIN obs /\ more[n] = o
      /\ \A i \in DOMAIN obs : more[i] = obs[i]
  BY AppendIsList, ListFacts
<1> HIDE DEF more, n
<1>2. ASSUME NEW T \in SUBSET DOMAIN obs
      PROVE  Cardinality(T \cup {n}) = Cardinality(T) + 1
  BY <1>1, ListFinite, FS_AddElement
<1>3. ASSUME NEW sec
      PROVE  Cardinality(EndedAt(more, sec)) =
               IF o.sec = sec THEN Cardinality(EndedAt(obs, sec)) + 1
               ELSE Cardinality(EndedAt(obs, sec))
  <2>1. EndedAt(more, sec) = IF o.sec = sec THEN EndedAt(obs, sec) \cup {n} ELSE EndedAt(obs, sec)
    BY <1>1 DEF EndedAt
  <2>2. EndedAt(obs, sec) \in SUBSET DOMAIN obs
    BY DEF EndedAt
  <2> QED BY <1>2, <2>1, <2>2
<1>4. ASSUME NEW b
      PROVE  Cardinality(InBucket(more, b)) =
               IF Within(o.latency, b) THEN Cardinality(InBucket(obs, b)) + 1
               ELSE Cardinality(InBucket(obs, b))
  <2>1. InBucket(more, b) = IF Within(o.latency, b) THEN InBucket(obs, b) \cup {n}
                            ELSE InBucket(obs, b)
    BY <1>1 DEF InBucket
  <2>2. InBucket(obs, b) \in SUBSET DOMAIN obs
    BY DEF InBucket
  <2> QED BY <1>2, <2>1, <2>2
<1> QED BY <1>3, <1>4 DEF more

LEMMA ObserveCounts ==
  ASSUME metrics \in Collector, now \in Nat, Counted(metrics, observed, now),
         NEW status, NEW latency \in Nat, Observe(status, latency)
  PROVE  Counted(metrics', observed', now')
<1> DEFINE o == [sec |-> now, status |-> status, latency |-> latency]
           r == now % RingSlots
<1>1. /\ observed' = Append(observed, o) /\ now' = now /\ IsList(observed)
      /\ o.sec = now /\ o.latency = latency
  BY DEF Observe, Counted
<1>2. r \in Slots /\ \A sec \in Int : sec % RingSlots \in Slots
  <2>1. \A sec \in Int : sec % RingSlots \in Slots
    BY RingAssumption DEF Slots
  <2> QED BY <2>1
<1>3. now \in Int /\ StartSecond \in Nat /\ StartSecond # 0 /\ now >= StartSecond
  BY StartAssumption, RingAssumption DEF Counted
<1> HIDE DEF o, r
<1>4. /\ IsList(observed') /\ Len(observed') = Len(observed) + 1
      /\ \A i \in DOMAIN observed' : IF i = Len(observed) + 1 THEN observed'[i] = o
                                     ELSE i \in DOMAIN observed /\ observed'[i] = observed[i]
  <2>1. DOMAIN observed = 1 .. Len(observed) /\ Len(observed) \in Nat
    BY <1>1, ListFacts
  <2> QED BY <1>1, <2>1, AppendIsList
<1>5. /\ metrics'.total = metrics.total + 1
      /\ metrics'.epochs = [metrics.epochs EXCEPT ![r] = now]
      /\ metrics'.counts = [metrics.counts EXCEPT ![r] = IF metrics.epochs[r] # now THEN 1 ELSE @ + 1]
      /\ metrics'.histogram = [b \in Buckets |-> IF Within(latency, b) THEN metrics.histogram[b] + 1
                                                                      ELSE metrics.histogram[b]]
  BY ObserveIs DEF r
<1>6. /\ metrics.epochs \in [Slots -> Nat] /\ metrics.counts \in [Slots -> Nat]
  BY DEF Collector
<1>7. \A i \in DOMAIN observed : /\ observed[i].sec \in StartSecond .. now
                                 /\ observed[i].sec <= metrics.epochs[observed[i].sec % RingSlots]
                                 /\ observed[i].sec % RingSlots \in Slots
  BY <1>2, <1>3 DEF Counted
<1>8. ASSUME NEW i \in DOMAIN observed'
      PROVE  /\ observed'[i].sec \in StartSecond .. now' /\ observed'[i].latency \in Nat
             /\ observed'[i].sec <= metrics'.epochs[observed'[i].sec % RingSlots]
  <2>1. CASE i = Len(observed) + 1
    <3>1. observed'[i].sec = now /\ observed'[i].latency = latency
      BY <1>1, <1>4, <2>1
    <3>2. metrics'.epochs[r] = now
      BY <1>2, <1>5, <1>6
    <3> QED BY <1>1, <1>3, <3>1, <3>2 DEF r
  <2>2. CASE i # Len(observed) + 1
    <3>1. i \in DOMAIN observed /\ observed'[i] = observed[i]
      BY <1>4, <2>2
    <3> DEFINE sec == observed[i].sec
               s == sec % RingSlots
    <3>2. sec \in StartSecond .. now /\ s \in Slots /\ sec <= metrics.epochs[s]
      BY <1>7, <3>1
    <3> HIDE DEF s
    <3>3. metrics'.epochs[s] = IF s = r THEN now ELSE metrics.epochs[s]
      BY <1>5, <1>6, <3>2
    <3>4. sec <= metrics'.epochs[s]
      BY <1>3, <3>2, <3>3
    <3> QED BY <1>1, <3>1, <3>2, <3>4 DEF Counted, s
  <2> QED BY <2>1, <2>2
<1>9. ASSUME NEW s \in Slots
      PROVE  /\ metrics'.epochs[s] <= now'
             /\ metrics'.epochs[s] = 0 \/ metrics'.epochs[s] % RingSlots = s
             /\ metrics'.counts[s] = Cardinality(EndedAt(observed', metrics'.epochs[s]))
  <2> DEFINE e == metrics.epochs[s]
  <2>1. /\ e \in Nat /\ e <= now /\ (e = 0 \/ e % RingSlots = s)
        /\ metrics.counts[s] = Cardinality(EndedAt(observed, e))
    BY <1>6 DEF Counted
  <2>2. \A sec : Cardinality(EndedAt(observed', sec)) =
                   IF now = sec THEN Cardinality(EndedAt(observed, sec)) + 1
                   ELSE Cardinality(EndedAt(observed, sec))
    BY <1>1, OneMoreEnded
  <2>3. CASE s = r
    <3>1. metrics'.epochs[s] = now
          /\ metrics'.counts[s] = IF e # now THEN 1 ELSE metrics.counts[s] + 1
      BY <1>2, <1>5, <1>6, <2>3
    <3>2. e # now => EndedAt(observed, now) = {}
      <4> SUFFICES ASSUME NEW i \in DOMAIN observed, observed[i].sec = now PROVE e = now
        BY DEF EndedAt
      <4>1. now <= metrics.epochs[r]
        BY <1>7 DEF r
      <4> QED BY <1>3, <2>1, <2>3, <4>1
    <3>3. e # now => Cardinality(EndedAt(observed, now)) = 0
      BY <3>2, FS_EmptySet
    <3> HIDE DEF e
    <3> QED BY <1>1, <1>3, <2>1, <2>2, <2>3, <3>1, <3>3 DEF r
  <2>4. CASE s # r
    <3>1. metrics'.epochs[s] = e /\ metrics'.counts[s] = metrics.counts[s]
      BY <1>5, <1>6, <2>4
    <3>2. e # now
      BY <1>3, <2>1, <2>4 DEF r
    <3> HIDE DEF e
    <3> QED BY <1>1, <2>1, <2>2, <3>1, <3>2
  <2> QED BY <2>3, <2>4
<1>10. ASSUME NEW b \in Buckets
       PROVE  metrics'.histogram[b] = Cardinality(InBucket(observed', b))
  <2>1. Cardinality(InBucket(observed', b)) = IF Within(latency, b)
          THEN Cardinality(InBucket(observed, b)) + 1 ELSE Cardinality(InBucket(observed, b))
    BY <1>1, OneMoreEnded
  <2> QED BY <1>5, <2>1 DEF Counted
<1>11. metrics'.total = Len(observed') /\ now' >= StartSecond
  BY <1>1, <1>3, <1>4, <1>5 DEF Counted
<1> QED BY <1>4, <1>8, <1>9, <1>10, <1>11 DEF Counted

LEMMA SecondCounts ==
  ASSUME metrics \in Collector, now \in Nat, Counted(metrics, observed, now), TickSecond
  PROVE  Counted(metrics', observed', now')
<1>1. metrics' = metrics /\ observed' = observed /\ now' = now + 1
  BY DEF TickSecond
<1>2. /\ metrics.epochs \in [Slots -> Nat] /\ StartSecond \in Nat
  BY StartAssumption DEF Collector
<1>3. \A i \in DOMAIN observed : observed[i].sec \in StartSecond .. now + 1
  BY <1>2 DEF Counted
<1>4. \A s \in Slots : metrics.epochs[s] <= now + 1
  BY <1>2 DEF Counted
<1>5. now + 1 >= StartSecond
  BY <1>2 DEF Counted
<1> QED BY <1>1, <1>3, <1>4, <1>5 DEF Counted

\* What a window reports are the requests that ended in it.
LEMMA WindowIs ==
  ASSUME metrics \in Collector, now \in Nat, Counted(metrics, observed, now), NEW w \in 1 .. RingSlots
  PROVE  WindowTotal(w) = Cardinality({i \in DOMAIN observed : observed[i].sec > now - w})
<1> DEFINE O == {i \in DOMAIN observed : observed[i].sec > now - w}
           S == {s \in Slots : metrics.epochs[s] \in now - w + 1 .. now}
           f == [i \in DOMAIN observed |-> observed[i].sec % RingSlots]
<1>1. /\ metrics.epochs \in [Slots -> Nat] /\ StartSecond \in Nat /\ RingSlots \in Nat \ {0}
      /\ StartSecond >= RingSlots /\ now >= StartSecond /\ w \in Nat /\ w <= RingSlots
  BY StartAssumption, RingAssumption DEF Collector, Counted
<1>2. Min({w, RingSlots}) = w
  <2>1. {w, RingSlots} \in SUBSET Nat /\ {w, RingSlots} # {}
    BY <1>1
  <2>2. Min({w, RingSlots}) \in {w, RingSlots} /\ \A m \in {w, RingSlots} : Min({w, RingSlots}) <= m
    BY <2>1, MinIs
  <2> QED BY <1>1, <2>2
<1>3. WindowTotal(w) = SumOver(metrics.counts, S)
  BY <1>2 DEF WindowTotal, SumOver
<1>4. IsFiniteSet(O) /\ IsFiniteSet(S)
  <2>1. IsFiniteSet(Slots)
    <3>1. RingSlots - 1 \in Int
      BY <1>1
    <3> QED BY <3>1, FS_Interval DEF Slots
  <2>2. O \in SUBSET DOMAIN observed /\ S \in SUBSET Slots
    OBVIOUS
  <2> HIDE DEF O, S
  <2> QED BY <2>1, <2>2, ListFinite, FS_Subset DEF Counted
<1>5. ASSUME NEW i \in O
      PROVE  f[i] \in S /\ metrics.epochs[f[i]] = observed[i].sec
  <2> DEFINE sec == observed[i].sec
             s == sec % RingSlots
             e == metrics.epochs[s]
  <2>1. i \in DOMAIN observed /\ sec > now - w /\ sec \in StartSecond .. now /\ sec <= e
    BY DEF Counted
  <2>2. s \in Slots /\ sec \in Int
    <3>1. sec \in Int
      BY <1>1, <2>1
    <3> HIDE DEF sec
    <3> QED BY <1>1, <3>1 DEF Slots
  <2>3. e \in Nat /\ e <= now /\ (e = 0 \/ e % RingSlots = s)
    <3> HIDE DEF s
    <3> QED BY <1>1, <2>2 DEF Counted
  <2>4. f[i] = s
    BY <2>1
  <2> HIDE DEF e
  <2>5. e # 0 /\ e % RingSlots = sec % RingSlots
    BY <1>1, <2>1, <2>3
  <2> HIDE DEF s, sec
  <2>6. e - sec < RingSlots /\ sec - e < RingSlots /\ e \in Int
    BY <1>1, <2>1, <2>2, <2>3
  <2>7. e = sec
    BY <1>1, <2>2, <2>5, <2>6, CloseRemainders
  <2>8. e \in now - w + 1 .. now
    BY <1>1, <2>1, <2>2, <2>7
  <2>9. s \in S
    BY <2>2, <2>8 DEF e
  <2> QED BY <2>4, <2>7, <2>9 DEF e, sec
<1>6. ASSUME NEW s \in S
      PROVE  metrics.counts[s] = Cardinality({i \in O : f[i] = s})
  <2> DEFINE e == metrics.epochs[s]
  <2>1. s \in Slots /\ e \in now - w + 1 .. now
    OBVIOUS
  <2>2. e \in Nat /\ metrics.counts[s] = Cardinality(EndedAt(observed, e)) /\ (e = 0 \/ e % RingSlots = s)
    BY <1>1, <2>1 DEF Counted
  <2>3. e # 0 /\ e > now - w
    <3> HIDE DEF e
    <3> QED BY <1>1, <2>1, <2>2
  <2>4. EndedAt(observed, e) = {i \in O : f[i] = s}
    <3>1. ASSUME NEW i \in EndedAt(observed, e) PROVE i \in O /\ f[i] = s
      BY <2>2, <2>3 DEF EndedAt
    <3>2. ASSUME NEW i \in O, f[i] = s PROVE i \in EndedAt(observed, e)
      BY <1>5, <3>2 DEF EndedAt
    <3> HIDE DEF O, f, e
    <3> QED BY <3>1, <3>2 DEF O
  <2> QED BY <2>2, <2>4
<1> HIDE DEF O, S, f
<1>7. SumOver(metrics.counts, S) = Cardinality(O)
  BY <1>4, <1>5, <1>6, PartsCounted
<1> QED BY <1>3, <1>7 DEF O

\* One request in a hundred, at most, took longer than the latency reported.
LEMMA LatencyIs ==
  ASSUME metrics \in Collector, Counted(metrics, observed, now), P99Latency # Beyond
  PROVE  100 * Cardinality({i \in DOMAIN observed : observed[i].latency > P99Latency}) <= Len(observed)
<1> DEFINE L == Len(LatencyBounds)
           n == Len(observed)
           T == {c \in Buckets : 100 * metrics.histogram[c] >= 99 * metrics.total}
           b == Min(T)
           O == {i \in DOMAIN observed : observed[i].latency > P99Latency}
<1>1. /\ L \in Nat /\ LatencyBounds \in [1 .. L -> Nat] /\ n \in Nat /\ metrics.total = n
      /\ IsFiniteSet(DOMAIN observed) /\ Cardinality(DOMAIN observed) = n
      /\ metrics.histogram \in [Buckets -> Nat]
  BY LatencyAssumption, ListFinite DEF Counted, Collector
<1>2. P99Latency = IF n = 0 THEN 0 ELSE IF b <= L THEN LatencyBounds[b] ELSE Beyond
  BY <1>1 DEF P99Latency
<1>3. CASE n = 0
  <2>1. DOMAIN observed = {}
    BY <1>1, <1>3, FS_EmptySet
  <2>2. Cardinality(O) = 0
    BY <2>1, FS_EmptySet
  <2> HIDE DEF O
  <2> QED BY <1>3, <2>2 DEF O
<1>4. CASE n # 0
  <2>1. L + 1 \in T
    <3>1. InBucket(observed, L + 1) = DOMAIN observed /\ L + 1 \in Buckets
      <4>1. L + 1 \in 1 .. L + 1
        BY <1>1
      <4> QED BY <4>1 DEF InBucket, Within, Buckets
    <3>2. metrics.histogram[L + 1] = n
      BY <1>1, <3>1 DEF Counted
    <3> QED BY <1>1, <3>1, <3>2
  <2>2. T \in SUBSET Nat /\ T # {}
    BY <1>1, <2>1 DEF Buckets
  <2> HIDE DEF n
  <2>3. b \in T
    <3> HIDE DEF T
    <3> QED BY <2>2, MinIs
  <2> HIDE DEF b
  <2>4. b \in Buckets /\ 100 * metrics.histogram[b] >= 99 * n
    BY <1>1, <2>3
  <2>5. b <= L /\ P99Latency = LatencyBounds[b] /\ b \in 1 .. L /\ LatencyBounds[b] \in Nat
    BY <1>1, <1>2, <1>4, <2>4 DEF Buckets
  <2>6. O = (DOMAIN observed) \ InBucket(observed, b)
    <3>1. \A i \in DOMAIN observed : observed[i].latency \in Nat
      BY DEF Counted
    <3>2. b # L + 1
      BY <1>1, <2>5
    <3> QED BY <2>5, <3>1, <3>2 DEF InBucket, Within
  <2>7. /\ InBucket(observed, b) \in SUBSET DOMAIN observed
        /\ metrics.histogram[b] = Cardinality(InBucket(observed, b)) /\ metrics.histogram[b] \in Nat
    BY <1>1, <2>4 DEF InBucket, Counted
  <2> HIDE DEF O
  <2>8. Cardinality(O) = n - metrics.histogram[b]
    <3>1. (DOMAIN observed) \cap InBucket(observed, b) = InBucket(observed, b)
      BY <2>7
    <3> DEFINE D == DOMAIN observed
               I == InBucket(observed, b)
    <3>2. IsFiniteSet(D) /\ Cardinality(D) = n /\ O = D \ I /\ D \cap I = I
          /\ Cardinality(I) = metrics.histogram[b]
      BY <1>1, <2>6, <2>7, <3>1
    <3> HIDE DEF D, I
    <3>3. Cardinality(D \ I) = Cardinality(D) - Cardinality(D \cap I)
      BY <3>2, FS_Difference
    <3> QED BY <3>2, <3>3
  <2>9. 100 * Cardinality(O) <= n
    BY <1>1, <2>4, <2>7, <2>8
  <2> QED BY <2>9 DEF O, n
<1> QED BY <1>3, <1>4

LEMMA CountedKept ==
  ASSUME Inv, Counted(metrics, observed, now), [Next]_vars
  PROVE  Counted(metrics', observed', now')
<1>1. metrics \in Collector /\ now \in Nat
  BY DEF Inv, MetricsTypeOK, Collector
<1>2. CASE UNCHANGED metricsVars
  BY <1>2 DEF metricsVars
<1>3. CASE Finish
  <2>1. PICK latency \in Latencies : Observe(handler.status, latency)
    BY <1>3 DEF Finish
  <2>2. latency \in Nat
    BY LatencyAssumption
  <2> QED BY <1>1, <2>1, <2>2, ObserveCounts
<1>4. CASE Second
  <2>1. TickSecond
    BY <1>4 DEF Second
  <2> QED BY <1>1, <2>1, SecondCounts
<1>5. CASE UNCHANGED vars
  BY <1>2, <1>5 DEF vars
<1> QED BY <1>2, <1>3, <1>4, <1>5, MetricsLeft, KindsOfSteps

LEMMA InitCounted == Init => Counted(metrics, observed, now)
<1> SUFFICES ASSUME Init PROVE Counted(metrics, observed, now)
  OBVIOUS
<1>1. /\ now = StartSecond /\ observed = <<>> /\ metrics.total = 0
      /\ \A s \in Slots : metrics.epochs[s] = 0 /\ metrics.counts[s] = 0
      /\ \A b \in Buckets : metrics.histogram[b] = 0
  BY DEF Init, MetricsInit
<1>2. StartSecond \in Nat
  BY StartAssumption
<1>3. IsList(observed) /\ Len(observed) = 0 /\ DOMAIN observed = {}
  BY <1>1 DEF IsList
<1>4. Cardinality({}) = 0
  BY FS_EmptySet
<1>5. /\ \A sec : EndedAt(observed, sec) = {}
      /\ \A b : InBucket(observed, b) = {}
  BY <1>3 DEF EndedAt, InBucket
<1>6. IsList(observed) /\ metrics.total = Len(observed) /\ now >= StartSecond
  BY <1>1, <1>2, <1>3
<1>7. ASSUME NEW s \in Slots
      PROVE  /\ metrics.epochs[s] <= now /\ metrics.epochs[s] = 0
             /\ metrics.counts[s] = Cardinality(EndedAt(observed, metrics.epochs[s]))
  <2>1. metrics.epochs[s] = 0 /\ metrics.counts[s] = 0
    BY <1>1
  <2>2. Cardinality(EndedAt(observed, metrics.epochs[s])) = 0
    BY <1>4, <1>5
  <2>3. metrics.epochs[s] <= now
    BY <1>1, <1>2, <2>1
  <2> QED BY <2>1, <2>2, <2>3
<1>8. ASSUME NEW b \in Buckets
      PROVE  metrics.histogram[b] = Cardinality(InBucket(observed, b))
  BY <1>1, <1>4, <1>5
<1> QED BY <1>3, <1>6, <1>7, <1>8 DEF Counted

\* Whatever slots have been reused: what a window reports is the number of requests
\* that ended within it, and the latency reported is one that at most one request in a
\* hundred exceeded.
THEOREM ReportsAreExact == Spec => []WindowExact
<1>1. Inv /\ Counted(metrics, observed, now) => WindowExact
  <2> SUFFICES ASSUME Inv, Counted(metrics, observed, now) PROVE WindowExact
    OBVIOUS
  <2>1. metrics \in Collector /\ now \in Nat
    BY DEF Inv, MetricsTypeOK, Collector
  <2>2. ASSUME NEW w \in 1 .. RingSlots
        PROVE  WindowTotal(w) = Observations(LAMBDA o : o.sec > now - w)
    BY <2>1, WindowIs DEF Observations
  <2>3. P99Latency # Beyond => 100 * Observations(LAMBDA o : o.latency > P99Latency) <= Len(observed)
    BY <2>1, LatencyIs DEF Observations
  <2> QED BY <2>2, <2>3 DEF WindowExact
<1>2. Counted(metrics, observed, now) /\ Inv /\ [Next]_vars => Counted(metrics, observed, now)'
  BY CountedKept
<1> QED BY <1>1, <1>2, InitCounted, Invariance, PTL DEF Spec

-----------------------------------------------------------------------------
(* The contract: what it sees of a state                                   *)

OfferOf(cfg) == [rules |-> RuleNames(cfg), services |-> ServiceNames(cfg)]

PhaseOf(pc) == CASE pc = "idle"                -> "none"
                 [] pc \in {"health", "chain"} -> "checking"
                 [] pc = "forwarded"           -> "forwarded"
                 [] pc = "missing"             -> "failed"
                 [] pc = "done"                -> "answered"

RulesFor(route)         == {spec.rule : spec \in {s \in SpecsOf(route) : s.name = "ratelimit"}}
ServicesFor(route, def) == {def.name} \cup (IF "auth" \in DemandsOf(route) THEN {AuthService} ELSE {})

\* What a request asks that arrived under cfg.
OwedOf(h, cfg)     == IF h.service = None THEN {} ELSE DemandsOf(cfg.routes[h.route]) \ h.passed
RulesOf(h, cfg)    == IF h.service = None THEN {} ELSE RulesFor(cfg.routes[h.route])
ServicesOf(h, cfg) == IF h.service = None THEN {}
                      ELSE ServicesFor(cfg.routes[h.route], cfg.services[h.service])

AskedOf(h, cfg) ==
  [phase |-> PhaseOf(h.pc), gen |-> h.gen, owed |-> OwedOf(h, cfg), rules |-> RulesOf(h, cfg),
   services |-> ServicesOf(h, cfg), met |-> h.met]

\* What a request asks once it has been treated by g.
Treated(asked, phase, owed, g) == [asked EXCEPT !.phase = phase, !.owed = owed, !.met = @ \cup {g}]

AskedFields == {"phase", "gen", "owed", "rules", "services", "met"}
IsAsked(r)  == r = [f \in AskedFields |-> r[f]]

LEMMA TreatedIs ==
  ASSUME NEW old, IsAsked(old), NEW new, IsAsked(new), NEW g,
         new.gen = old.gen, new.rules = old.rules, new.services = old.services, new.met = old.met \cup {g}
  PROVE  new = Treated(old, new.phase, new.owed, g)
<1> DEFINE t == Treated(old, new.phase, new.owed, g)
<1>1. IsAsked(t)
  BY DEF IsAsked, Treated
<1>2. DOMAIN old = AskedFields
  BY DEF IsAsked
<1>3. /\ t.phase = new.phase /\ t.gen = new.gen /\ t.owed = new.owed /\ t.rules = new.rules
      /\ t.services = new.services /\ t.met = new.met
  BY <1>2 DEF Treated, AskedFields
<1> HIDE DEF t
<1>4. new = t
  BY <1>1, <1>3 DEF IsAsked, AskedFields
<1> QED BY <1>4 DEF t

LEMMA Phases ==
  /\ PhaseOf("idle") = "none" /\ PhaseOf("health") = "checking" /\ PhaseOf("chain") = "checking"
  /\ PhaseOf("forwarded") = "forwarded" /\ PhaseOf("missing") = "failed" /\ PhaseOf("done") = "answered"
BY DEF PhaseOf

LEMMA AskedIs ==
  /\ Asked = AskedOf(handler, Config(handler.gen))
  /\ Asked' = AskedOf(handler', generations'[handler'.gen].config)
<1>1. Asked = AskedOf(handler, Config(handler.gen))
  BY DEF Asked, AskedOf, OwedOf, RulesOf, ServicesOf, Phase, PhaseOf, Demanded, RulesNeeded, ServicesNeeded, ServiceName, Specs, Route,
         RulesFor, ServicesFor, DemandsOf, SpecsOf
<1>2. Asked' = AskedOf(handler', generations'[handler'.gen].config)
  BY DEF Asked, AskedOf, OwedOf, RulesOf, ServicesOf, Phase, PhaseOf, Demanded, RulesNeeded, ServicesNeeded, ServiceName, Specs, Route,
         RulesFor, ServicesFor, DemandsOf, SpecsOf, Config
<1> QED BY <1>1, <1>2

LEMMA OfferedIs ==
  ASSUME Configurations
  PROVE  /\ IsList(Offered) /\ Len(Offered) = Newest /\ DOMAIN Offered = 1 .. Newest
         /\ Offered = [g \in 1 .. Newest |-> OfferOf(Config(g))]
         /\ \A g \in 1 .. Newest : Offered[g] = OfferOf(Config(g)) /\ OfferOf(Config(g)) \in Contract!Offers
<1>1. Newest \in Nat
  BY ListFacts DEF Configurations, Newest
<1>2. Offered = [g \in 1 .. Newest |-> OfferOf(Config(g))]
  BY DEF Offered, OfferOf
<1> HIDE DEF Newest
<1>3. \A g \in 1 .. Newest : Offered[g] = OfferOf(Config(g))
  BY <1>2
<1>4. \A g \in 1 .. Newest : OfferOf(Config(g)) \in Contract!Offers
  BY NamesOfSound DEF Configurations, OfferOf, Contract!Offers
<1>5. Offered = [g \in 1 .. Newest |-> Offered[g]]
  BY <1>2, <1>3
<1>6. IsList(Offered) /\ Len(Offered) = Newest
  BY <1>1, <1>5, FunctionIsList
<1> QED BY <1>2, <1>3, <1>4, <1>6

-----------------------------------------------------------------------------
(* The contract: requests                                                  *)

\* A request that meets g and stays where it is, or goes on by one plugin.
LEMMA AskedFollows ==
  ASSUME NEW h, NEW k, NEW cfg, NEW pc, NEW g, Continues(h, k, pc, g)
  PROVE  /\ Stays(h, k) =>
              AskedOf(k, cfg) = Treated(AskedOf(h, cfg), PhaseOf(pc), OwedOf(h, cfg), g)
         /\ Advances(h, k) =>
              AskedOf(k, cfg) = Treated(AskedOf(h, cfg), PhaseOf(pc), OwedOf(h, cfg) \ {Head(h.chain).name}, g)
<1>1. Stays(h, k) => OwedOf(k, cfg) = OwedOf(h, cfg)
  BY DEF Continues, Stays, OwedOf
<1>2. Advances(h, k) => OwedOf(k, cfg) = OwedOf(h, cfg) \ {Head(h.chain).name}
  BY DEF Continues, Advances, OwedOf
<1>3. RulesOf(k, cfg) = RulesOf(h, cfg) /\ ServicesOf(k, cfg) = ServicesOf(h, cfg)
  BY DEF Continues, RulesOf, ServicesOf
<1>4. k.pc = pc /\ k.met = h.met \cup {g} /\ k.gen = h.gen
  BY DEF Continues
<1>5. IsAsked(AskedOf(h, cfg)) /\ IsAsked(AskedOf(k, cfg))
  BY DEF IsAsked, AskedFields, AskedOf
<1>6. /\ AskedOf(k, cfg).gen = AskedOf(h, cfg).gen /\ AskedOf(k, cfg).rules = AskedOf(h, cfg).rules
      /\ AskedOf(k, cfg).services = AskedOf(h, cfg).services
      /\ AskedOf(k, cfg).met = AskedOf(h, cfg).met \cup {g}
      /\ AskedOf(k, cfg).phase = PhaseOf(pc) /\ AskedOf(k, cfg).owed = OwedOf(k, cfg)
  BY <1>3, <1>4 DEF AskedOf
<1>7. AskedOf(k, cfg) = Treated(AskedOf(h, cfg), PhaseOf(pc), OwedOf(k, cfg), g)
  BY <1>5, <1>6, TreatedIs
<1> QED BY <1>1, <1>2, <1>7

\* While generations stand, what a move does to what is asked.
LEMMA AskedMoves ==
  ASSUME Inv, handler.pc # "idle", Undisturbed, NEW g \in handler.gen .. Newest, NEW pc,
         Continues(handler, handler', pc, g)
  PROVE  /\ Stays(handler, handler') => Contract!Treat(PhaseOf(pc), Asked.owed)
         /\ Advances(handler, handler') =>
              Contract!Treat(PhaseOf(pc), Asked.owed \ {Head(handler.chain).name})
<1> DEFINE cfg == Config(handler.gen)
<1>1. generations'[handler'.gen].config = cfg
  BY DEF Undisturbed, Continues, Config
<1>2. Asked = AskedOf(handler, cfg) /\ Asked' = AskedOf(handler', cfg)
  BY <1>1, AskedIs
<1>3. Asked.gen = handler.gen /\ Asked.owed = OwedOf(handler, cfg) /\ Len(Offered) = Newest
  BY <1>2, OfferedIs DEF AskedOf, Inv
<1>4. g \in Contract!Current
  BY <1>3 DEF Contract!Current, Contract!newest
<1> HIDE DEF cfg
<1>5. ASSUME NEW owed, Asked' = Treated(Asked, PhaseOf(pc), owed, g)
      PROVE  Contract!Treat(PhaseOf(pc), owed)
  BY <1>4, <1>5 DEF Treated, Contract!Treat
<1>6. /\ Stays(handler, handler') =>
           Asked' = Treated(Asked, PhaseOf(pc), Asked.owed, g)
      /\ Advances(handler, handler') =>
           Asked' = Treated(Asked, PhaseOf(pc), Asked.owed \ {Head(handler.chain).name}, g)
  <2>1. /\ Stays(handler, handler') =>
             AskedOf(handler', cfg) = Treated(AskedOf(handler, cfg), PhaseOf(pc), OwedOf(handler, cfg), g)
        /\ Advances(handler, handler') =>
             AskedOf(handler', cfg) = Treated(AskedOf(handler, cfg), PhaseOf(pc),
                                              OwedOf(handler, cfg) \ {Head(handler.chain).name}, g)
    BY AskedFollows
  <2> QED BY <1>2, <1>3, <2>1
<1> QED BY <1>5, <1>6

\* The plugin whose turn it is: what it needs is among what the route needs.
LEMMA NextPlugin ==
  ASSUME Inv, handler.pc = "chain"
  PROVE  LET route == Config(handler.gen).routes[handler.route]
         IN /\ handler.gen \in 1 .. Newest /\ handler.service # None
            /\ Asked.owed = DemandsOf(route) \ handler.passed /\ Asked.rules = RulesFor(route)
            /\ Asked.services = ServicesFor(route, Config(handler.gen).services[handler.service])
            /\ ServiceName \in Asked.services
            /\ Turn("ratelimit") => TheSpec.rule \in Asked.rules
            /\ Turn("auth") => AuthService \in Asked.services
<1> DEFINE route == Config(handler.gen).routes[handler.route]
<1>1. handler.gen \in 1 .. Newest /\ handler.service # None
  BY MetIsCurrent DEF Inv, Requests, Meeting
<1>2. /\ Asked.owed = DemandsOf(route) \ handler.passed /\ Asked.rules = RulesFor(route)
      /\ Asked.services = ServicesFor(route, Config(handler.gen).services[handler.service])
  BY <1>1, AskedIs DEF AskedOf, OwedOf, RulesOf, ServicesOf
<1>3. ServiceName \in Asked.services
  BY <1>2 DEF ServicesFor, ServiceName
<1>4. handler.chain \in Seq(ChainOf(route))
  BY <1>1 DEF Inv, Requests, OnItsRoute
<1> HIDE DEF route
<1>5. handler.chain # <<>> => TheSpec \in ChainOf(route)
  BY <1>4 DEF TheSpec
<1>6. ASSUME Turn("ratelimit") PROVE TheSpec.rule \in Asked.rules
  <2>1. TheSpec \in ChainOf(route) /\ TheSpec.name = "ratelimit"
    BY <1>5, <1>6 DEF Turn, TheSpec
  <2>2. TheSpec \in SpecsOf(route)
    BY <2>1 DEF ChainOf, AuthSpec
  <2> QED BY <1>2, <2>1, <2>2 DEF RulesFor
<1>7. ASSUME Turn("auth") PROVE AuthService \in Asked.services
  <2>1. TheSpec \in ChainOf(route) /\ TheSpec.name = "auth"
    BY <1>5, <1>7 DEF Turn, TheSpec
  <2>2. "auth" \in DemandsOf(route)
    BY <2>1 DEF ChainOf, DemandsOf
  <2> QED BY <1>2, <2>2 DEF ServicesFor
<1> QED BY <1>1, <1>2, <1>3, <1>6, <1>7 DEF route

\* What is offered by the newest generation has an instance.
Filled == \A s \in ServiceNames(Config(Newest)) : balancer[s] = "filled"

\* What a request is found to lack, one of the generations it may meet lacks.
LEMMA MissedIsFailed ==
  ASSUME Inv, Filled, NEW g \in handler.gen .. Newest, Missed(g), Undisturbed
  PROVE  Contract!Fail
<1>1. handler.pc = "chain" /\ Continues(handler, handler', "missing", g) /\ Stays(handler, handler')
  BY DEF Missed
<1>2. Contract!Treat("failed", Asked.owed) /\ Asked.phase = "checking"
  BY <1>1, AskedMoves, AskedIs, Phases DEF AskedOf
<1>3. Asked.gen = handler.gen /\ handler.gen \in 1 .. Newest /\ Newest \in handler.gen .. Newest
  BY <1>1, MetIsCurrent, AskedIs DEF AskedOf
<1>4. Contract!Current = handler.gen .. Newest
  BY <1>3, OfferedIs DEF Inv, Contract!Current, Contract!newest
<1>5. \A k \in handler.gen .. Newest : Offered[k] = OfferOf(Config(k))
  <2>1. Newest \in Nat
    BY NewestIsNumber
  <2>2. \A k \in 1 .. Newest : Offered[k] = OfferOf(Config(k))
    BY OfferedIs DEF Inv
  <2> HIDE DEF Newest
  <2> QED BY <1>3, <2>1, <2>2
<1>6. CASE RuleMissing(g)
  <2>1. TheSpec.rule \in Asked.rules /\ TheSpec.rule \notin Offered[g].rules
    <3>1. TheSpec.rule \in Asked.rules /\ TheSpec.rule \notin RuleNames(Config(g))
      BY <1>1, <1>6, NextPlugin DEF RuleMissing
    <3>2. Offered[g].rules = RuleNames(Config(g))
      <4>1. Offered[g] = OfferOf(Config(g))
        BY <1>5
      <4> QED BY <4>1 DEF OfferOf
    <3> QED BY <3>1, <3>2
  <2>2. g \in Contract!Current /\ ~ Asked.rules \subseteq Offered[g].rules
    BY <1>4, <2>1
  <2> QED BY <1>2, <2>2 DEF Contract!Fail
<1>7. CASE BalancerMissing
  <2>1. \E service \in Asked.services : balancer[service] # "filled"
    BY <1>1, <1>7, NextPlugin DEF BalancerMissing, NotFilled
  <2>2. PICK service \in Asked.services : service \notin ServiceNames(Config(Newest))
    BY <2>1 DEF Filled
  <2>3. service \notin Offered[Newest].services
    <3>1. Offered[Newest].services = ServiceNames(Config(Newest))
      <4>1. Offered[Newest] = OfferOf(Config(Newest))
        BY <1>3, <1>5
      <4> QED BY <4>1 DEF OfferOf
    <3> QED BY <2>2, <3>1
  <2>4. Newest \in Contract!Current /\ ~ Asked.services \subseteq Offered[Newest].services
    BY <1>3, <1>4, <2>3
  <2> QED BY <1>2, <2>4 DEF Contract!Fail
<1> QED BY <1>6, <1>7 DEF Missed

LEMMA MoveIsTreatment ==
  ASSUME Inv, Filled, NEW g \in handler.gen .. Newest, Moves(g), Undisturbed
  PROVE  Contract!Pass \/ Contract!TurnDown \/ Contract!Fail \/ Contract!Forward \/ Contract!Answer
<1>1. handler.pc \in {"health", "chain", "forwarded"}
  BY DEF Moves, TurnedDown, PassedOn, Missed, Forwarded, Answered
<1>2. Asked.phase = PhaseOf(handler.pc)
  BY AskedIs DEF AskedOf
<1>3. CASE TurnedDown(g)
  <2>1. Contract!Treat("answered", Asked.owed)
    BY <1>1, <1>3, AskedMoves, Phases DEF TurnedDown
  <2> QED BY <1>2, <1>3, <2>1, Phases DEF TurnedDown, Contract!TurnDown
<1>4. CASE PassedOn(g)
  <2>1. Contract!Treat("checking", Asked.owed \ {TheSpec.name})
    BY <1>1, <1>4, AskedMoves, Phases DEF PassedOn, TheSpec
  <2>2. TheSpec.name \in ChainNames
    BY <1>4, NamesAssumption DEF PassedOn
  <2> QED BY <1>2, <1>4, <2>1, <2>2, Phases DEF PassedOn, Contract!Pass
<1>5. CASE Missed(g)
  BY <1>5, MissedIsFailed
<1>6. CASE Forwarded(g)
  <2>1. Contract!Treat("forwarded", Asked.owed)
    BY <1>1, <1>6, AskedMoves, Phases DEF Forwarded
  <2>2. Asked.owed = {}
    <3>1. handler.pc = "chain" /\ handler.chain = <<>>
      BY <1>6 DEF Forwarded
    <3>2. \A d : ~CoveredBy(<<>>, d)
      BY DEF CoveredBy
    <3> QED BY <3>1, <3>2, NextPlugin DEF Inv, Requests, OnItsRoute
  <2> QED BY <1>2, <1>6, <2>1, <2>2, Phases DEF Forwarded, Contract!Forward
<1>7. CASE Answered(g)
  <2>1. Contract!Treat("answered", Asked.owed)
    BY <1>1, <1>7, AskedMoves, Phases DEF Answered
  <2>2. Asked.owed = {}
    BY <1>7, AskedIs DEF AskedOf, OwedOf, RulesOf, ServicesOf, Answered, Inv, Requests, OnItsRoute
  <2> QED BY <1>2, <1>7, <2>1, <2>2, Phases DEF Answered, Contract!Answer
<1> QED BY <1>3, <1>4, <1>5, <1>6, <1>7 DEF Moves

\* A request that arrives is asked for what its route demands, which has names.
LEMMA ArrivalIsArrival ==
  ASSUME Inv, Arrived, Undisturbed
  PROVE  Contract!Arrive
<1> DEFINE cfg == Config(serving)
           route == cfg.routes[handler'.route]
           def == cfg.services[handler'.service]
<1>1. Asked.phase = "none"
  BY AskedIs, Phases DEF Arrived, AskedOf
<1>2. Asked' = AskedOf(handler', cfg)
  BY AskedIs DEF Arrived, Undisturbed, Config
<1>3. serving \in 1 .. Newest /\ Sound(cfg)
  BY DEF Inv, Configurations, Generations
<1>4. CASE handler'.service = None
  <2>1. handler'.pc \in {"done", "health"}
    <3>1. \A s \in DOMAIN cfg.services : s # None
      BY <1>3, KnownServiceOf
    <3> QED BY <1>4, <3>1 DEF Arrived
  <2>2. Asked' = [phase |-> PhaseOf(handler'.pc), gen |-> serving, owed |-> {}, rules |-> {},
                  services |-> {}, met |-> {serving}]
    BY <1>2, <1>4 DEF AskedOf, OwedOf, RulesOf, ServicesOf, Arrived
  <2>3. PhaseOf(handler'.pc) \in {"checking", "answered"}
    BY <2>1, Phases
  <2> QED BY <1>1, <2>2, <2>3 DEF Contract!Arrive
<1>5. CASE handler'.service # None
  <2>1. /\ handler'.pc = "chain" /\ handler'.route \in DOMAIN cfg.routes
        /\ handler'.service \in DOMAIN cfg.services
    BY <1>5 DEF Arrived
  <2>2. KnownRoute(route) /\ def.name \in Services
    <3>1. KnownRoute(route)
      BY <1>3, <2>1, KnownRouteOf
    <3>2. def.name \in ServiceNames(cfg)
      BY <2>1 DEF ServiceNames
    <3> QED BY <1>3, <3>1, <3>2, NamesOfSound
  <2> HIDE DEF cfg
  <2>3. /\ Asked'.phase = "checking" /\ Asked'.gen = serving /\ Asked'.met = {serving}
        /\ Asked'.owed = DemandsOf(route) \ handler'.passed /\ Asked'.rules = RulesFor(route)
        /\ Asked'.services = ServicesFor(route, def)
    BY <1>2, <1>5, <2>1, Phases DEF AskedOf, OwedOf, RulesOf, ServicesOf, Arrived
  <2> HIDE DEF route, def
  <2>4. \A spec \in SpecsOf(route) : KnownSpec(spec)
    BY <2>2 DEF KnownRoute, SpecsOf
  <2>5. DemandsOf(route) \subseteq ChainNames
    BY <2>4, NamesAssumption DEF DemandsOf, KnownSpec, PluginNames
  <2>6. RulesFor(route) \subseteq Rules
    BY <2>4 DEF RulesFor, KnownSpec
  <2>7. ServicesFor(route, def) \subseteq Services
    BY <2>2, NamesAssumption DEF ServicesFor
  <2>8. Asked' = [phase |-> Asked'.phase, gen |-> Asked'.gen, owed |-> Asked'.owed, rules |-> Asked'.rules,
                  services |-> Asked'.services, met |-> Asked'.met]
    BY DEF Asked
  <2> QED BY <1>1, <2>3, <2>5, <2>6, <2>7, <2>8 DEF Contract!Arrive
<1> QED BY <1>4, <1>5

-----------------------------------------------------------------------------
(* The contract: services are where they are looked for                    *)

\* The services of a configuration are known by their names. The code registers them
\* under the one and removes them under the other, and does not ask for it.
KeysAreNames(cfg) == \A s \in DOMAIN cfg.services : cfg.services[s].name = s
ScenariosNamed ==
  \A s \in Scenarios : /\ KeysAreNames(s.boot)
                       /\ \A edit \in s.edits : edit.op = "apply" => KeysAreNames(edit.config)

ServicesNamed ==
  /\ \A g \in 1 .. Newest : KeysAreNames(Config(g))
  /\ \A edit \in left.edits : edit.op = "apply" => KeysAreNames(edit.config)

LEMMA MutatedIsNamed ==
  ASSUME NEW cfg, KnownConfig(cfg), KeysAreNames(cfg), NEW edit, KnownEdit(edit), Mutated(cfg, edit) # None,
         edit.op = "apply" => KeysAreNames(edit.config)
  PROVE  KeysAreNames(Mutated(cfg, edit))
<1>1. DOMAIN cfg = {"services", "routes", "rules", "validate", "monitor", "token"}
  BY DEF KnownConfig
<1>2. ASSUME NEW list PROVE [cfg EXCEPT !.rules = list].services = cfg.services
  BY <1>1
<1>3. ASSUME NEW list PROVE [cfg EXCEPT !.routes = list].services = cfg.services
  BY <1>1
<1>4. ASSUME NEW defs PROVE [cfg EXCEPT !.services = defs].services = defs
  BY <1>1
<1>5. CASE edit.op \in {"upsert rule", "delete rule"}
  <2>1. \E list : Mutated(cfg, edit) = [cfg EXCEPT !.rules = list]
    BY <1>5 DEF Mutated, UpsertRule, DeleteRule
  <2> QED BY <1>2, <2>1 DEF KeysAreNames
<1>6. CASE edit.op \in {"upsert route", "delete route"}
  <2>1. \E list : Mutated(cfg, edit) = [cfg EXCEPT !.routes = list]
    BY <1>6 DEF Mutated, UpsertRoute, DeleteRoute
  <2> QED BY <1>3, <2>1 DEF KeysAreNames
<1>7. CASE edit.op = "upsert service"
  <2> DEFINE name == edit.service.name
             defs == [s \in DOMAIN cfg.services \cup {name} |-> IF s = name THEN edit.service ELSE cfg.services[s]]
  <2>1. Mutated(cfg, edit) = [cfg EXCEPT !.services = defs]
    BY <1>7 DEF Mutated, UpsertService
  <2>2. \A s \in DOMAIN defs : defs[s].name = s
    BY DEF KeysAreNames
  <2> HIDE DEF defs
  <2> QED BY <1>4, <2>1, <2>2 DEF KeysAreNames
<1>8. CASE edit.op = "delete service"
  <2> DEFINE defs == [s \in DOMAIN cfg.services \ {edit.name} |-> cfg.services[s]]
  <2>1. Mutated(cfg, edit) = [cfg EXCEPT !.services = defs]
    BY <1>8 DEF Mutated, DeleteService
  <2>2. \A s \in DOMAIN defs : defs[s].name = s
    BY DEF KeysAreNames
  <2> HIDE DEF defs
  <2> QED BY <1>4, <2>1, <2>2 DEF KeysAreNames
<1>9. CASE edit.op = "apply"
  BY <1>9 DEF Mutated
<1> QED BY <1>5, <1>6, <1>7, <1>8, <1>9 DEF KnownEdit

LEMMA InitNamed == ScenariosNamed /\ Init => ServicesNamed /\ Filled
<1> SUFFICES ASSUME ScenariosNamed, Init PROVE ServicesNamed /\ Filled
  OBVIOUS
<1>1. Inv
  BY InitInv
<1>2. left \in Scenarios /\ generations = <<[config |-> left.boot, edit |-> NoEdit]>>
  BY DEF Init
<1>3. Newest = 1 /\ Config(1) = left.boot
  BY <1>2 DEF Newest, Config
<1>4. 1 .. 1 = {1}
  OBVIOUS
<1> HIDE DEF Newest
<1>5. ServicesNamed
  BY <1>2, <1>3, <1>4 DEF ServicesNamed, ScenariosNamed
<1>6. ServiceNames(left.boot) \subseteq Services
  BY <1>1, <1>3, <1>4, NamesOfSound DEF Inv, Configurations
<1>7. balancer = [s \in Services |-> IF s \in ServiceNames(left.boot) THEN "filled" ELSE "absent"]
  BY DEF Init
<1> QED BY <1>3, <1>5, <1>6, <1>7 DEF Filled

\* What an edit adds is registered, though what it removes is taken out after that.
LEMMA EditFills ==
  ASSUME Inv, ServicesNamed, NEW edit \in left.edits, Edit(edit)
  PROVE  ServicesNamed' /\ Filled'
<1> DEFINE old == Config(serving)
           new == Mutated(old, edit)
<1>1. serving \in 1 .. Newest /\ Newest \in Nat
  BY NewestIsNumber DEF Inv, Generations
<1>2. /\ Newest' = Newest + 1 /\ \A g \in 1 .. Newest : Config(g)' = Config(g)
      /\ generations'[Newest + 1].config = new /\ Sound(new)
  BY <1>1, EditAdds DEF Inv
<1>3. KnownConfig(old) /\ KnownEdit(edit) /\ new # None
  BY <1>1 DEF Inv, Configurations, Sound, Edit, Accepted
<1>4. KeysAreNames(old) /\ (edit.op = "apply" => KeysAreNames(edit.config))
  BY <1>1 DEF ServicesNamed
<1>5. KeysAreNames(new)
  BY <1>3, <1>4, MutatedIsNamed
<1>6. balancer' = Synced(old, new) /\ DOMAIN Synced(old, new) = Services
  BY DEF Edit, Synced
<1>7. ASSUME NEW s \in ServiceNames(new) PROVE balancer'[s] = "filled"
  <2>1. s \in DOMAIN new.services /\ s \in Services
    BY <1>2, <1>5, NamesOfSound DEF ServiceNames, KeysAreNames
  <2> HIDE DEF new, old
  <2> QED BY <1>6, <2>1 DEF Synced
<1>8. Filled'
  BY <1>2, <1>7 DEF Filled, Config
<1>9. ASSUME NEW g \in 1 .. Newest' PROVE KeysAreNames(Config(g)')
  <2>1. g \in 1 .. Newest \/ g = Newest + 1
    BY <1>1, <1>2
  <2>2. CASE g \in 1 .. Newest
    BY <1>2, <2>2 DEF ServicesNamed
  <2>3. CASE g = Newest + 1
    BY <1>2, <1>5, <2>3 DEF Config
  <2> QED BY <2>1, <2>2, <2>3
<1>10. left'.edits \subseteq left.edits
  BY LeftShrinks DEF Inv, Next
<1> QED BY <1>8, <1>9, <1>10 DEF ServicesNamed, KeysAreNames

LEMMA NamedKept ==
  ASSUME Inv, ServicesNamed, Filled, Next
  PROVE  ServicesNamed' /\ Filled'
<1>1. CASE \E edit \in left.edits : Edit(edit)
  BY <1>1, EditFills
<1>2. CASE ~\E edit \in left.edits : Edit(edit)
  <2>1. generations' = generations
    BY <1>2, KindsOfSteps, RequestLeaves, MonitorLeaves DEF ChangeStep, RefuseAuthPlugin,
       RegisterPlugin, SetBreaker, UpdateCircuitBreakerService, StoreSnapshot, ConfigureMonitor,
       configVars
  <2>2. balancer' = balancer \/ \E service : balancer' = Created(service)
    <3>1. CASE RequestStep
      BY <3>1, RequestMoves DEF Missed, BalancerMissing, NotFilled
    <3> QED BY <1>2, <3>1, KindsOfSteps, MonitorLeaves DEF ChangeStep, RefuseAuthPlugin, RegisterPlugin,
          SetBreaker, UpdateCircuitBreakerService, StoreSnapshot, ConfigureMonitor, Finish, Second, configVars
  <2>3. Newest' = Newest /\ \A g : Config(g)' = Config(g)
    BY <2>1 DEF Newest, Config
  <2>4. \A s : balancer[s] = "filled" /\ s \in Services => balancer'[s] = "filled"
    BY <2>2 DEF Created, Inv, Balancers
  <2>5. ServiceNames(Config(Newest)) \subseteq Services
    <3>1. Newest \in 1 .. Newest
      <4>1. Newest \in Nat /\ Newest # 0
        BY NewestIsNumber
      <4> HIDE DEF Newest
      <4> QED BY <4>1
    <3> QED BY <3>1, NamesOfSound DEF Inv, Configurations
  <2>6. Filled'
    BY <2>1, <2>4, <2>5 DEF Filled, Config, Newest
  <2>7. ServicesNamed'
    BY <2>1, LeftShrinks DEF ServicesNamed, Inv, Newest, Config
  <2> QED BY <2>6, <2>7
<1> QED BY <1>1, <1>2

-----------------------------------------------------------------------------
(* The contract is kept                                                    *)

LEMMA InitOfContract == Init => Contract!Init
<1> SUFFICES ASSUME Init PROVE Contract!Init
  OBVIOUS
<1>1. Inv
  BY InitInv
<1>2. Newest = 1
  BY DEF Init, Newest
<1>3. 1 .. 1 = {1}
  OBVIOUS
<1> HIDE DEF Newest
<1>4. \E o \in Contract!Offers : Offered = <<o>>
  <2>1. /\ Offered = [g \in {1} |-> OfferOf(Config(g))] /\ OfferOf(Config(1)) \in Contract!Offers
        /\ IsList(Offered) /\ Len(Offered) = 1
    BY <1>1, <1>2, <1>3, OfferedIs DEF Inv
  <2>2. Offered = <<OfferOf(Config(1))>>
    BY <1>3, <2>1
  <2> QED BY <2>1, <2>2
<1>5. Asked = Contract!NoRequest
  <2>1. handler = NoHandler
    BY DEF Init
  <2> QED BY <2>1, AskedIs, Phases DEF AskedOf, OwedOf, RulesOf, ServicesOf, NoHandler, Contract!NoRequest
<1>6. serving = 1 /\ (applying # "idle") = FALSE
  BY DEF Init
<1> QED BY <1>4, <1>5, <1>6 DEF Contract!Init

\* While a change goes on, a request is asked for the same.
LEMMA AskedStays ==
  ASSUME Inv, handler' = handler, \A g \in 1 .. Newest : Config(g)' = Config(g)
  PROVE  Asked' = Asked
<1>1. CASE handler.service = None
  BY <1>1, AskedIs DEF AskedOf, OwedOf, RulesOf, ServicesOf
<1>2. CASE handler.service # None
  <2>1. handler.pc # "idle"
    BY <1>2 DEF Inv, Requests, Meeting, NoHandler
  <2>2. handler.gen \in 1 .. Newest
    BY <2>1, MetIsCurrent
  <2>3. generations'[handler'.gen].config = Config(handler.gen)
    BY <2>2 DEF Config
  <2> QED BY <2>3, AskedIs
<1> QED BY <1>1, <1>2

LEMMA SameLists ==
  ASSUME NEW s, NEW t, IsList(s), IsList(t), Len(s) = Len(t), \A i \in 1 .. Len(s) : s[i] = t[i]
  PROVE  s = t
<1> DEFINE S == {s[i] : i \in DOMAIN s} \cup {t[i] : i \in DOMAIN t}
<1>1. s \in Seq(S) /\ t \in Seq(S)
  BY DEF IsList
<1>2. s = [i \in 1 .. Len(s) |-> s[i]] /\ t = [i \in 1 .. Len(t) |-> t[i]]
  BY <1>1
<1> HIDE DEF S
<1> QED BY <1>2

\* An edit begins a change: what there was offered stays, and the new offer is added.
LEMMA EditIsBegin ==
  ASSUME Inv, NEW edit \in left.edits, Edit(edit)
  PROVE  Contract!BeginChange
<1>1. /\ Newest' = Newest + 1 /\ Newest \in Nat /\ \A g \in 1 .. Newest : Config(g)' = Config(g)
      /\ Sound(generations'[Newest + 1].config)
  BY EditAdds DEF Inv, Generations
<1>2. handler' = handler /\ serving' = serving /\ applying = "idle" /\ applying' = "auth"
  BY StepOrder DEF Edit
<1> DEFINE o == OfferOf(generations'[Newest + 1].config)
<1>3. o \in Contract!Offers
  BY <1>1, NamesOfSound DEF OfferOf, Contract!Offers
<1>4. Offered' = [g \in 1 .. Newest + 1 |-> OfferOf(generations'[g].config)]
  BY <1>1 DEF Offered, OfferOf, Config
<1>5. /\ Offered'[Newest + 1] = o
      /\ \A g \in 1 .. Newest : Offered'[g] = OfferOf(Config(g))
  <2>1. Newest + 1 \in 1 .. Newest + 1 /\ \A g \in 1 .. Newest : g \in 1 .. Newest + 1
    <3> HIDE DEF Newest
    <3> QED BY <1>1
  <2>2. \A g \in 1 .. Newest : generations'[g].config = Config(g)
    BY <1>1 DEF Config
  <2> HIDE DEF Newest
  <2> QED BY <1>4, <2>1, <2>2
<1>6. IsList(Offered') /\ Len(Offered') = Newest + 1
  <2>1. Newest + 1 \in Nat
    BY <1>1
  <2>2. Offered' = [g \in 1 .. Newest + 1 |-> Offered'[g]]
    BY <1>4
  <2> HIDE DEF Newest
  <2> QED BY <2>1, <2>2, FunctionIsList
<1>7. /\ IsList(Offered) /\ Len(Offered) = Newest /\ DOMAIN Offered = 1 .. Newest
      /\ \A g \in 1 .. Newest : Offered[g] = OfferOf(Config(g))
  BY OfferedIs DEF Inv
<1> HIDE DEF o, Newest
<1>8. /\ IsList(Append(Offered, o)) /\ Len(Append(Offered, o)) = Newest + 1
      /\ Append(Offered, o)[Newest + 1] = o
      /\ \A g \in 1 .. Newest : Append(Offered, o)[g] = Offered[g]
  BY <1>7, AppendIsList
<1>9. Offered' = Append(Offered, o)
  <2>1. ASSUME NEW g \in 1 .. Newest + 1 PROVE Offered'[g] = Append(Offered, o)[g]
    <3>1. g \in 1 .. Newest \/ g = Newest + 1
      BY <1>1
    <3> QED BY <1>5, <1>7, <1>8, <3>1
  <2> QED BY <1>6, <1>8, <2>1, SameLists
<1>10. Asked' = Asked
  BY <1>1, <1>2, AskedStays
<1> QED BY <1>2, <1>3, <1>9, <1>10 DEF Contract!BeginChange

LEMMA NothingOffered ==
  ASSUME generations' = generations
  PROVE  Offered' = Offered
BY DEF Offered, Newest, Config

\* The rest of a change: one of its steps serves it and one ends it.
LEMMA ChangeIsContract ==
  ASSUME Inv, ChangeStep
  PROVE  \/ Contract!BeginChange \/ Contract!Serve \/ Contract!EndChange
         \/ UNCHANGED Contract!contractVars
<1>1. CASE \E edit \in left.edits : Edit(edit)
  BY <1>1, EditIsBegin
<1>2. CASE RefuseAuthPlugin \/ RegisterPlugin \/ SetBreaker \/ UpdateCircuitBreakerService
           \/ StoreSnapshot \/ ConfigureMonitor
  <2>1. generations' = generations /\ handler' = handler
    BY <1>2 DEF RefuseAuthPlugin, RegisterPlugin, SetBreaker, UpdateCircuitBreakerService,
       StoreSnapshot, ConfigureMonitor
  <2>2. Offered' = Offered
    BY <2>1, NothingOffered
  <2>3. Asked' = Asked
    BY <2>1, AskedStays DEF Config
  <2>4. CASE RefuseAuthPlugin \/ ConfigureMonitor
    <3>1. applying # "idle" /\ applying' = "idle" /\ serving' = serving
      BY <2>4, StepOrder DEF RefuseAuthPlugin, ConfigureMonitor
    <3> QED BY <2>2, <2>3, <3>1 DEF Contract!EndChange
  <2>5. CASE RegisterPlugin \/ SetBreaker \/ UpdateCircuitBreakerService
    <3>1. applying # "idle" /\ applying' # "idle" /\ serving' = serving
      BY <2>5, StepOrder DEF RegisterPlugin, SetBreaker, UpdateCircuitBreakerService, PluginNames
    <3> QED BY <2>2, <2>3, <3>1 DEF Contract!contractVars
  <2>6. CASE StoreSnapshot
    <3>1. applying # "idle" /\ applying' # "idle" /\ serving < Newest /\ serving' = Newest
      BY <2>6, StepOrder DEF StoreSnapshot, Inv, Generations
    <3>2. Contract!newest = Newest
      BY OfferedIs DEF Inv, Contract!newest
    <3> QED BY <2>2, <2>3, <3>1, <3>2 DEF Contract!Serve
  <2> QED BY <1>2, <2>4, <2>5, <2>6
<1> QED BY <1>1, <1>2 DEF ChangeStep

LEMMA RequestIsContract ==
  ASSUME Inv, Filled, RequestStep \/ Finish
  PROVE  /\ UNCHANGED <<Offered, serving, applying # "idle">>
         /\ \/ Contract!Arrive \/ Contract!Pass \/ Contract!TurnDown \/ Contract!Fail
            \/ Contract!Forward \/ Contract!Answer \/ Contract!Depart
<1>1. UNCHANGED <<Offered, serving, applying # "idle">>
  BY RequestLeaves, NothingOffered
<1>2. CASE RequestStep
  <2>1. Undisturbed /\ (Arrived \/ \E g \in handler.gen .. Newest : Moves(g))
    BY <1>2, RequestMoves
  <2>2. CASE Arrived
    BY <1>1, <2>1, <2>2, ArrivalIsArrival
  <2>3. CASE \E g \in handler.gen .. Newest : Moves(g)
    BY <1>1, <2>1, <2>3, MoveIsTreatment
  <2> QED BY <2>1, <2>2, <2>3
<1>3. CASE Finish
  <2>1. handler.pc \in {"done", "missing"} /\ handler' = NoHandler
    BY <1>3 DEF Finish
  <2>2. Asked.phase \in {"answered", "failed"}
    BY <2>1, AskedIs, Phases DEF AskedOf
  <2>3. Asked' = Contract!NoRequest
    BY <2>1, AskedIs, Phases DEF AskedOf, OwedOf, RulesOf, ServicesOf, NoHandler, Contract!NoRequest
  <2> QED BY <1>1, <2>2, <2>3 DEF Contract!Depart
<1> QED BY <1>2, <1>3

LEMMA StepKeepsContract ==
  ASSUME Inv, Filled, [Next]_vars
  PROVE  [Contract!Next]_Contract!contractVars
<1>1. ASSUME generations' = generations, handler' = handler, serving' = serving, applying' = applying
      PROVE  UNCHANGED Contract!contractVars
  <2>1. Offered' = Offered /\ Asked' = Asked
    BY <1>1, NothingOffered, AskedStays DEF Config
  <2> QED BY <1>1, <2>1 DEF Contract!contractVars
<1>2. CASE UNCHANGED vars
  BY <1>1, <1>2 DEF vars, configVars
<1>3. CASE MonitorStep \/ Second
  BY <1>1, <1>3, MonitorLeaves DEF Second, configVars
<1>4. CASE ChangeStep
  BY <1>4, ChangeIsContract DEF Contract!Next
<1>5. CASE RequestStep \/ Finish
  BY <1>5, RequestIsContract DEF Contract!Next
<1> QED BY <1>2, <1>3, <1>4, <1>5, KindsOfSteps

\* Where services go by their names, the code keeps RequestContract, whatever the order
\* in which changes and a request take their steps: a request is treated by what is at
\* least as new as itself, is forwarded only when all its route demands has let it pass,
\* and fails for want of a rule or a service only if a generation it may meet lacks it.
THEOREM ImplementsContract ==
  ASSUME ScenariosNamed
  PROVE  Spec => KeepsContract
<1>1. Init => ServicesNamed /\ Filled
  BY InitNamed
<1>2. Inv /\ ServicesNamed /\ Filled /\ [Next]_vars => ServicesNamed' /\ Filled'
  <2> SUFFICES ASSUME Inv, ServicesNamed, Filled, [Next]_vars PROVE ServicesNamed' /\ Filled'
    OBVIOUS
  <2>1. CASE Next
    BY <2>1, NamedKept
  <2>2. CASE UNCHANGED vars
    BY <2>2 DEF vars, configVars, ServicesNamed, Filled, Newest, Config
  <2> QED BY <2>1, <2>2
<1>3. Inv /\ Filled /\ [Next]_vars => [Contract!Next]_Contract!contractVars
  BY StepKeepsContract
<1> QED BY <1>1, <1>2, <1>3, Invariance, InitOfContract, PTL DEF Spec, KeepsContract, Contract!Spec
=============================================================================
