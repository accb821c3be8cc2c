------------------------------- MODULE Numbers ------------------------------
(***************************************************************************)
(* What the community modules' sum over a finite set amounts to, and what  *)
(* remainders are. The weights, turns and picks of balancers and traffic   *)
(* rules are such sums, cursors, hash values and slots such remainders     *)
(* (Balancing, InstanceSelection, RequestPath).                            *)
(*                                                                         *)
(* The library's induction theorems take a predicate, which the provers    *)
(* cannot instantiate; FiniteInduction takes the SET of the subsets that   *)
(* satisfy it instead.                                                     *)
(***************************************************************************)
EXTENDS Integers, FiniteSets, FiniteSetsExt, FiniteSetTheorems, NaturalsInduction, TLAPS

\* The sum of w over A, and the function the folds define it by.
SumOver(w, A) == MapThenSumSet(LAMBDA i : w[i], A)

Choice(s) == CHOOSE x \in s : TRUE

Rest(s)   == s \ {Choice(s)}

Unfolds(f, w, S) ==
  f = [s \in S |-> IF s = {} THEN 0 ELSE w[Choice(s)] + f[Rest(s)]]

Fold(w, A) == CHOOSE f : Unfolds(f, w, SUBSET A)

Ints(w, A) == \A i \in A : w[i] \in Int

LEMMA LeastNumber ==
  ASSUME NEW T \in SUBSET Nat, T # {}
  PROVE  \E n \in T : \A m \in T : n <= m
<1>1. PICK n \in T : \A m \in T : ~(<<m, n>> \in OpToRel(<, Nat))
  BY NatLessThanWellFounded, WFMin
<1>2. \A m \in T : ~(m < n)
  BY <1>1 DEF OpToRel
<1> QED BY <1>2

LEMMA MinIs ==
  ASSUME NEW T \in SUBSET Nat, T # {}
  PROVE  Min(T) \in T /\ \A m \in T : Min(T) <= m
BY LeastNumber DEF Min

\* Induction over the natural numbers, for a set of them.
LEMMA NaturalInduction ==
  ASSUME NEW G, 0 \in G, \A n \in Nat : n \in G => n + 1 \in G
  PROVE  \A n \in Nat : n \in G
<1>1. SUFFICES ASSUME Nat \ G # {} PROVE FALSE
  OBVIOUS
<1>2. PICK n \in Nat \ G : \A m \in Nat \ G : n <= m
  BY <1>1, LeastNumber
<1>3. n # 0
  BY <1>2
<1>4. n - 1 \in Nat /\ ~(n <= n - 1)
  BY <1>3
<1>5. n - 1 \in G
  BY <1>2, <1>4
<1> QED BY <1>2, <1>4, <1>5

LEMMA OneLess ==
  ASSUME NEW T, IsFiniteSet(T), NEW n \in Nat, Cardinality(T) = n + 1
  PROVE  T # {} /\ \A x \in T : Cardinality(T \ {x}) = n
<1>1. T # {}
  BY FS_EmptySet
<1>2. ASSUME NEW x \in T PROVE Cardinality(T \ {x}) = n
  <2>1. Cardinality(T \ {x}) = Cardinality(T) - 1
    BY FS_RemoveElement
  <2> QED BY <2>1
<1> QED BY <1>1, <1>2

\* Induction over the subsets of a finite set, for a set of them.
LEMMA FiniteInduction ==
  ASSUME NEW S, IsFiniteSet(S), NEW G, {} \in G,
         \A T \in SUBSET S : \A x \in S \ T : T \in G => T \cup {x} \in G
  PROVE  \A T \in SUBSET S : T \in G
<1> DEFINE H == {n \in Nat : \A T \in SUBSET S : Cardinality(T) = n => T \in G}
<1>1. \A T \in SUBSET S : IsFiniteSet(T) /\ Cardinality(T) \in Nat
  BY FS_Subset, FS_CardinalityType
<1>2. 0 \in H
  BY <1>1, FS_EmptySet
<1>3. ASSUME NEW n \in Nat, n \in H PROVE n + 1 \in H
  <2>1. SUFFICES ASSUME NEW T \in SUBSET S, Cardinality(T) = n + 1 PROVE T \in G
    OBVIOUS
  <2>2. PICK x : x \in T
    BY <1>1, <2>1, OneLess
  <2>3. Cardinality(T \ {x}) = n
    BY <1>1, <2>1, <2>2, OneLess
  <2>4. T \ {x} \in G
    BY <1>3, <2>3
  <2>5. (T \ {x}) \cup {x} = T /\ x \in S \ (T \ {x}) /\ T \ {x} \in SUBSET S
    BY <2>2
  <2> QED BY <2>4, <2>5
<1>4. \A n \in Nat : n \in H
  <2> HIDE DEF H
  <2> QED BY <1>2, <1>3, NaturalInduction
<1> QED BY <1>1, <1>4

-----------------------------------------------------------------------------
LEMMA SumIsFold ==
  ASSUME NEW w, NEW A
  PROVE  SumOver(w, A) = Fold(w, A)[A]
BY DEF SumOver, MapThenSumSet, MapThenFoldSet, Fold, Unfolds, Choice, Rest

LEMMA ChoiceIsMember ==
  ASSUME NEW s, s # {}
  PROVE  Choice(s) \in s
BY DEF Choice

\* The recursion has a solution: one for the sets of n members extends to those of n + 1.
LEMMA FoldExists ==
  ASSUME NEW w, NEW S, IsFiniteSet(S)
  PROVE  \E f : Unfolds(f, w, SUBSET S)
<1> DEFINE UpTo(n) == {T \in SUBSET S : Cardinality(T) <= n}
           H == {n \in Nat : \E f : Unfolds(f, w, UpTo(n))}
<1>1. \A T \in SUBSET S : IsFiniteSet(T) /\ Cardinality(T) \in Nat
  BY FS_Subset, FS_CardinalityType
<1>2. 0 \in H
  <2>1. UpTo(0) = {{}}
    BY <1>1, FS_EmptySet
  <2>2. Unfolds([s \in {{}} |-> 0], w, {{}})
    BY DEF Unfolds
  <2> QED BY <2>1, <2>2
<1>3. ASSUME NEW n \in Nat, n \in H PROVE n + 1 \in H
  <2>1. PICK f : Unfolds(f, w, UpTo(n))
    BY <1>3
  <2> DEFINE g == [s \in UpTo(n + 1) |->
                     IF s = {} THEN 0 ELSE w[Choice(s)] + f[Rest(s)]]
  <2>2. \A s \in UpTo(n + 1) : s # {} => Rest(s) \in UpTo(n)
    <3>1. SUFFICES ASSUME NEW s \in UpTo(n + 1), s # {} PROVE Rest(s) \in UpTo(n)
      OBVIOUS
    <3>2. Cardinality(Rest(s)) = Cardinality(s) - 1
      BY <1>1, <3>1, ChoiceIsMember, FS_RemoveElement DEF Rest
    <3>3. Cardinality(s) - 1 <= n
      BY <1>1
    <3>4. Rest(s) \in SUBSET S
      BY DEF Rest
    <3> QED BY <3>2, <3>3, <3>4
  <2>3. \A s \in UpTo(n) : s \in UpTo(n + 1) /\ g[s] = f[s]
    <3>1. UpTo(n) \subseteq UpTo(n + 1)
      BY <1>1
    <3>2. \A s \in UpTo(n) : f[s] = IF s = {} THEN 0 ELSE w[Choice(s)] + f[Rest(s)]
      BY <2>1 DEF Unfolds
    <3> HIDE DEF UpTo
    <3> QED BY <3>1, <3>2
  <2>4. Unfolds(g, w, UpTo(n + 1))
    <3> HIDE DEF UpTo
    <3> QED BY <2>2, <2>3 DEF Unfolds
  <2>5. \E e : Unfolds(e, w, UpTo(n + 1))
    <3> HIDE DEF UpTo, g
    <3> QED BY <2>4
  <2> HIDE DEF UpTo
  <2> QED BY <2>5
<1>4. \A n \in Nat : n \in H
  <2> HIDE DEF H
  <2> QED BY <1>2, <1>3, NaturalInduction
<1>5. UpTo(Cardinality(S)) = SUBSET S
  BY <1>1, FS_Subset
<1> QED BY <1>1, <1>4, <1>5

LEMMA FoldSolves ==
  ASSUME NEW w, NEW S, IsFiniteSet(S)
  PROVE  Unfolds(Fold(w, S), w, SUBSET S)
BY FoldExists DEF Fold

LEMMA FoldOfNone ==
  ASSUME NEW w, NEW S, IsFiniteSet(S)
  PROVE  Fold(w, S)[{}] = 0
<1> DEFINE f == Fold(w, S)
<1>1. Unfolds(f, w, SUBSET S)
  BY FoldSolves
<1> HIDE DEF f
<1>2. f[{}] = 0
  BY <1>1 DEF Unfolds
<1> QED BY <1>2 DEF f

LEMMA FoldUnfolds ==
  ASSUME NEW w, NEW S, IsFiniteSet(S), NEW s \in SUBSET S, s # {}
  PROVE  Fold(w, S)[s] = w[Choice(s)] + Fold(w, S)[Rest(s)]
<1> DEFINE f == Fold(w, S)
<1>1. Unfolds(f, w, SUBSET S)
  BY FoldSolves
<1> HIDE DEF f
<1>2. f[s] = w[Choice(s)] + f[Rest(s)]
  BY <1>1 DEF Unfolds
<1> QED BY <1>2 DEF f

\* A part's sum does not depend on the set it is a part of, nor on values outside it.
LEMMA FoldOfPart ==
  ASSUME NEW w, NEW v, NEW S, IsFiniteSet(S), NEW A \in SUBSET S, \A i \in A : w[i] = v[i]
  PROVE  Fold(w, S)[A] = Fold(v, A)[A]
<1> DEFINE H == {n \in Nat : \A T \in SUBSET A : Cardinality(T) = n =>
                              Fold(w, S)[T] = Fold(v, A)[T]}
<1>1. \A T \in SUBSET A : IsFiniteSet(T) /\ Cardinality(T) \in Nat /\ T \in SUBSET S
  BY FS_Subset, FS_CardinalityType
<1>2. 0 \in H
  <2>1. \A T \in SUBSET A : Cardinality(T) = 0 => T = {}
    BY <1>1, FS_EmptySet
  <2>2. Fold(w, S)[{}] = 0 /\ Fold(v, A)[{}] = 0
    BY <1>1, FoldOfNone
  <2> QED BY <2>1, <2>2
<1>3. ASSUME NEW n \in Nat, n \in H PROVE n + 1 \in H
  <2>1. SUFFICES ASSUME NEW T \in SUBSET A, Cardinality(T) = n + 1
                 PROVE  Fold(w, S)[T] = Fold(v, A)[T]
    OBVIOUS
  <2>2. T # {} /\ Choice(T) \in T /\ Rest(T) \in SUBSET A
    BY <1>1, <2>1, OneLess, ChoiceIsMember DEF Rest
  <2>3. Cardinality(Rest(T)) = n
    BY <1>1, <2>1, <2>2, OneLess DEF Rest
  <2>4. Fold(w, S)[Rest(T)] = Fold(v, A)[Rest(T)]
    BY <1>3, <2>2, <2>3
  <2>5. Fold(w, S)[T] = w[Choice(T)] + Fold(w, S)[Rest(T)]
    <3>1. T \in SUBSET S
      BY <1>1
    <3> QED BY <2>2, <3>1, FoldUnfolds
  <2>6. Fold(v, A)[T] = v[Choice(T)] + Fold(v, A)[Rest(T)]
    <3>1. IsFiniteSet(A)
      BY <1>1
    <3> QED BY <2>2, <3>1, FoldUnfolds
  <2>7. w[Choice(T)] = v[Choice(T)]
    BY <2>2
  <2> QED BY <2>4, <2>5, <2>6, <2>7
<1>4. \A n \in Nat : n \in H
  <2> HIDE DEF H
  <2> QED BY <1>2, <1>3, NaturalInduction
<1> QED BY <1>1, <1>4

LEMMA SumOfSame ==
  ASSUME NEW w, NEW v, NEW A, IsFiniteSet(A), \A i \in A : w[i] = v[i]
  PROVE  SumOver(w, A) = SumOver(v, A)
BY SumIsFold, FoldOfPart

LEMMA SumOfNone ==
  ASSUME NEW w
  PROVE  SumOver(w, {}) = 0
BY SumIsFold, FoldOfNone, FS_EmptySet

LEMMA SumUnfolds ==
  ASSUME NEW w, NEW A, IsFiniteSet(A), A # {}
  PROVE  SumOver(w, A) = w[Choice(A)] + SumOver(w, Rest(A))
<1>1. Rest(A) \in SUBSET A
  BY DEF Rest
<1>2. Fold(w, A)[Rest(A)] = Fold(w, Rest(A))[Rest(A)]
  BY <1>1, FoldOfPart
<1>3. Fold(w, A)[A] = w[Choice(A)] + Fold(w, A)[Rest(A)]
  BY FoldUnfolds
<1> QED BY <1>2, <1>3, SumIsFold

LEMMA SumIsInt ==
  ASSUME NEW w, NEW A, IsFiniteSet(A), Ints(w, A)
  PROVE  SumOver(w, A) \in Int
<1> DEFINE H == {n \in Nat : \A T \in SUBSET A : Cardinality(T) = n => SumOver(w, T) \in Int}
<1>1. \A T \in SUBSET A : IsFiniteSet(T) /\ Cardinality(T) \in Nat
  BY FS_Subset, FS_CardinalityType
<1>2. 0 \in H
  BY <1>1, FS_EmptySet, SumOfNone
<1>3. ASSUME NEW n \in Nat, n \in H PROVE n + 1 \in H
  <2>1. SUFFICES ASSUME NEW T \in SUBSET A, Cardinality(T) = n + 1
                 PROVE  SumOver(w, T) \in Int
    OBVIOUS
  <2>2. T # {} /\ Choice(T) \in T /\ Rest(T) \in SUBSET A
    BY <1>1, <2>1, OneLess, ChoiceIsMember DEF Rest
  <2>3. Cardinality(Rest(T)) = n
    BY <1>1, <2>1, <2>2, OneLess DEF Rest
  <2>4. SumOver(w, Rest(T)) \in Int
    BY <1>3, <2>2, <2>3
  <2>5. w[Choice(T)] \in Int
    BY <2>2 DEF Ints
  <2> QED BY <1>1, <2>2, <2>4, <2>5, SumUnfolds
<1>4. \A n \in Nat : n \in H
  <2> HIDE DEF H
  <2> QED BY <1>2, <1>3, NaturalInduction
<1> QED BY <1>1, <1>4

\* Whatever order the fold takes the members in: a member more is its value more.
LEMMA SumWithOneMore ==
  ASSUME NEW w, NEW A, IsFiniteSet(A), NEW x, x \notin A, Ints(w, A \cup {x})
  PROVE  SumOver(w, A \cup {x}) = SumOver(w, A) + w[x]
<1> DEFINE S == A \cup {x}
           H == {n \in Nat : \A T \in SUBSET S : \A y \in S \ T : Cardinality(T) = n =>
                              SumOver(w, T \cup {y}) = SumOver(w, T) + w[y]}
<1>0. IsFiniteSet(S)
  BY FS_AddElement
<1>1. \A T \in SUBSET S : /\ IsFiniteSet(T) /\ Cardinality(T) \in Nat
                          /\ SumOver(w, T) \in Int
  <2>1. TAKE T \in SUBSET S
  <2>2. IsFiniteSet(T) /\ Cardinality(T) \in Nat
    BY <1>0, FS_Subset, FS_CardinalityType
  <2>3. Ints(w, T)
    BY DEF Ints
  <2> QED BY <2>2, <2>3, SumIsInt
<1>2. \A y \in S : w[y] \in Int
  BY DEF Ints
<1> HIDE DEF S
<1>3. ASSUME NEW n \in Nat, \A m \in Nat : m < n => m \in H PROVE n \in H
  <2>1. SUFFICES ASSUME NEW T \in SUBSET S, NEW y \in S \ T, Cardinality(T) = n
                 PROVE  SumOver(w, T \cup {y}) = SumOver(w, T) + w[y]
    OBVIOUS
  <2> DEFINE B == T \cup {y}
             c == Choice(B)
  <2>2. B \in SUBSET S /\ B # {} /\ c \in B
    BY ChoiceIsMember
  <2>3. SumOver(w, B) = w[c] + SumOver(w, B \ {c})
    BY <1>1, <2>2, SumUnfolds DEF Rest
  <2>4. CASE c = y
    <3>1. B \ {c} = T
      BY <2>4
    <3> QED BY <1>1, <1>2, <2>3, <2>4, <3>1
  <2>5. CASE c # y
    <3> DEFINE U == T \ {c}
    <3>1. c \in T /\ U \in SUBSET S /\ y \in S \ U /\ c \in S \ U
      BY <2>2, <2>5
    <3>2. Cardinality(U) = n - 1 /\ n - 1 \in Nat /\ n - 1 < n
      <4>1. IsFiniteSet(T) /\ n # 0
        BY <1>1, <2>1, <3>1, FS_EmptySet
      <4>2. n - 1 \in Nat /\ Cardinality(T) = (n - 1) + 1
        BY <2>1, <4>1
      <4>3. Cardinality(U) = n - 1
        BY <3>1, <4>1, <4>2, OneLess
      <4> QED BY <4>2, <4>3
    <3>3. n - 1 \in H
      BY <1>3, <3>2
    <3>4. SumOver(w, U \cup {y}) = SumOver(w, U) + w[y]
      BY <3>1, <3>2, <3>3
    <3>5. SumOver(w, U \cup {c}) = SumOver(w, U) + w[c]
      BY <3>1, <3>2, <3>3
    <3>6. U \cup {c} = T /\ B \ {c} = U \cup {y}
      BY <2>5, <3>1
    <3>7. SumOver(w, U) \in Int /\ w[c] \in Int /\ w[y] \in Int
      BY <1>1, <1>2, <3>1
    <3>8. SumOver(w, B) = SumOver(w, T) + w[y]
      <4>1. SumOver(w, B \ {c}) = SumOver(w, U) + w[y]
        BY <3>4, <3>6
      <4>2. SumOver(w, T) = SumOver(w, U) + w[c]
        BY <3>5, <3>6
      <4> HIDE DEF B, U, c
      <4> QED BY <2>3, <4>1, <4>2, <3>7
    <3> QED BY <3>8
  <2> QED BY <2>4, <2>5
<1>4. \A n \in Nat : n \in H
  <2> DEFINE K == {n \in Nat : \A m \in Nat : m <= n => m \in H}
  <2> HIDE DEF H
  <2>1. 0 \in K
    BY <1>3
  <2>2. ASSUME NEW n \in Nat, n \in K PROVE n + 1 \in K
    <3>1. n + 1 \in H
      BY <1>3, <2>2
    <3> QED BY <2>2, <3>1
  <2>3. \A n \in Nat : n \in K
    <3> HIDE DEF K
    <3> QED BY <2>1, <2>2, NaturalInduction
  <2> QED BY <2>3
<1>5. A \in SUBSET S /\ x \in S \ A /\ Cardinality(A) \in Nat
  BY <1>1 DEF S
<1> QED BY <1>4, <1>5

LEMMA SumWithoutOne ==
  ASSUME NEW w, NEW A, IsFiniteSet(A), NEW x \in A, Ints(w, A)
  PROVE  /\ SumOver(w, A) = SumOver(w, A \ {x}) + w[x]
         /\ SumOver(w, A) \in Int /\ SumOver(w, A \ {x}) \in Int /\ w[x] \in Int
<1>1. IsFiniteSet(A \ {x}) /\ (A \ {x}) \cup {x} = A /\ x \notin A \ {x}
  BY FS_RemoveElement
<1>2. Ints(w, (A \ {x}) \cup {x}) /\ Ints(w, A \ {x}) /\ w[x] \in Int
  BY <1>1 DEF Ints
<1>3. SumOver(w, (A \ {x}) \cup {x}) = SumOver(w, A \ {x}) + w[x]
  BY <1>1, <1>2, SumWithOneMore
<1> QED BY <1>1, <1>2, <1>3, SumIsInt

LEMMA SumSplits ==
  ASSUME NEW w, NEW A, IsFiniteSet(A), NEW B \in SUBSET A, Ints(w, A)
  PROVE  /\ SumOver(w, A) = SumOver(w, B) + SumOver(w, A \ B)
         /\ SumOver(w, B) \in Int /\ SumOver(w, A \ B) \in Int
<1> DEFINE G == {T \in SUBSET (A \ B) : SumOver(w, B \cup T) = SumOver(w, B) + SumOver(w, T)}
<1>1. \A T \in SUBSET A : IsFiniteSet(T) /\ Ints(w, T) /\ SumOver(w, T) \in Int
  <2>1. TAKE T \in SUBSET A
  <2>2. IsFiniteSet(T) /\ Ints(w, T)
    BY FS_Subset DEF Ints
  <2> QED BY <2>2, SumIsInt
<1>2. {} \in G
  <2>1. B \cup {} = B /\ SumOver(w, B) \in Int
    BY <1>1
  <2> QED BY <2>1, SumOfNone
<1>3. \A T \in SUBSET (A \ B) : \A x \in (A \ B) \ T : T \in G => T \cup {x} \in G
  <2>1. SUFFICES ASSUME NEW T \in SUBSET (A \ B), NEW x \in (A \ B) \ T, T \in G
                 PROVE  SumOver(w, B \cup (T \cup {x})) = SumOver(w, B) + SumOver(w, T \cup {x})
    OBVIOUS
  <2>2. SumOver(w, T \cup {x}) = SumOver(w, T) + w[x]
    <3>1. T \in SUBSET A /\ T \cup {x} \in SUBSET A /\ x \notin T
      OBVIOUS
    <3> QED BY <1>1, <3>1, SumWithOneMore
  <2>3. SumOver(w, (B \cup T) \cup {x}) = SumOver(w, B \cup T) + w[x]
    <3>1. B \cup T \in SUBSET A /\ (B \cup T) \cup {x} \in SUBSET A /\ x \notin B \cup T
      OBVIOUS
    <3> QED BY <1>1, <3>1, SumWithOneMore
  <2>4. (B \cup T) \cup {x} = B \cup (T \cup {x})
    OBVIOUS
  <2>5. SumOver(w, B) \in Int /\ SumOver(w, T) \in Int /\ w[x] \in Int
    BY <1>1 DEF Ints
  <2>6. SumOver(w, B \cup T) = SumOver(w, B) + SumOver(w, T)
    BY <2>1
  <2>7. SumOver(w, B \cup (T \cup {x})) = SumOver(w, B \cup T) + w[x]
    BY <2>3, <2>4
  <2> QED BY <2>2, <2>5, <2>6, <2>7
<1>4. A \ B \in G
  <2>1. IsFiniteSet(A \ B)
    BY <1>1
  <2> HIDE DEF G
  <2>2. \A T \in SUBSET (A \ B) : T \in G
    BY <1>2, <1>3, <2>1, FiniteInduction
  <2> QED BY <2>2
<1>5. B \cup (A \ B) = A
  OBVIOUS
<1> QED BY <1>1, <1>4, <1>5

LEMMA SumIsNat ==
  ASSUME NEW w, NEW A, IsFiniteSet(A), \A i \in A : w[i] \in Nat
  PROVE  SumOver(w, A) \in Nat
<1> DEFINE G == {T \in SUBSET A : SumOver(w, T) \in Nat}
<1>1. {} \in G
  BY SumOfNone
<1>2. \A T \in SUBSET A : \A x \in A \ T : T \in G => T \cup {x} \in G
  <2>1. SUFFICES ASSUME NEW T \in SUBSET A, NEW x \in A \ T, SumOver(w, T) \in Nat
                 PROVE  SumOver(w, T \cup {x}) \in Nat
    OBVIOUS
  <2>2. IsFiniteSet(T) /\ x \notin T /\ Ints(w, T \cup {x})
    BY FS_Subset DEF Ints
  <2> QED BY <2>1, <2>2, SumWithOneMore
<1>3. \A T \in SUBSET A : T \in G
  <2> HIDE DEF G
  <2> QED BY <1>1, <1>2, FiniteInduction
<1> QED BY <1>3

\* A part's sum is at most the whole's, and one value at most the sum.
LEMMA SumOfPart ==
  ASSUME NEW w, NEW A, IsFiniteSet(A), \A i \in A : w[i] \in Nat, NEW B \in SUBSET A
  PROVE  SumOver(w, B) \in Nat /\ SumOver(w, A) \in Nat /\ SumOver(w, B) <= SumOver(w, A)
<1>1. IsFiniteSet(B) /\ IsFiniteSet(A \ B)
  BY FS_Subset
<1>2. Ints(w, A)
  BY DEF Ints
<1>3. SumOver(w, A) = SumOver(w, B) + SumOver(w, A \ B)
  BY <1>2, SumSplits
<1>4. SumOver(w, B) \in Nat /\ SumOver(w, A \ B) \in Nat /\ SumOver(w, A) \in Nat
  BY <1>1, SumIsNat
<1> QED BY <1>3, <1>4

LEMMA ValueInSum ==
  ASSUME NEW w, NEW A, IsFiniteSet(A), \A i \in A : w[i] \in Nat, NEW x \in A
  PROVE  SumOver(w, A) \in Nat /\ w[x] <= SumOver(w, A)
<1>1. SumOver(w, A) = SumOver(w, A \ {x}) + w[x]
  BY SumWithoutOne DEF Ints
<1>2. SumOver(w, A \ {x}) \in Nat /\ SumOver(w, A) \in Nat
  <2>1. A \ {x} \in SUBSET A
    OBVIOUS
  <2> QED BY <2>1, SumOfPart
<1> QED BY <1>1, <1>2

LEMMA SumOfOnes ==
  ASSUME NEW w, NEW A, IsFiniteSet(A), \A i \in A : w[i] = 1
  PROVE  SumOver(w, A) = Cardinality(A)
<1> DEFINE G == {T \in SUBSET A : SumOver(w, T) = Cardinality(T)}
<1>1. {} \in G
  BY SumOfNone, FS_EmptySet
<1>2. \A T \in SUBSET A : \A x \in A \ T : T \in G => T \cup {x} \in G
  <2>1. SUFFICES ASSUME NEW T \in SUBSET A, NEW x \in A \ T, SumOver(w, T) = Cardinality(T)
                 PROVE  SumOver(w, T \cup {x}) = Cardinality(T \cup {x})
    OBVIOUS
  <2>2. IsFiniteSet(T) /\ x \notin T /\ Ints(w, T \cup {x})
    BY FS_Subset DEF Ints
  <2>3. SumOver(w, T \cup {x}) = SumOver(w, T) + w[x]
    BY <2>2, SumWithOneMore
  <2>4. Cardinality(T \cup {x}) = Cardinality(T) + 1
    BY <2>2, FS_AddElement
  <2> QED BY <2>1, <2>3, <2>4
<1>3. \A T \in SUBSET A : T \in G
  <2> HIDE DEF G
  <2> QED BY <1>1, <1>2, FiniteInduction
<1> QED BY <1>3

\* Where one value changes the sum changes by as much.
LEMMA SumAfterChange ==
  ASSUME NEW w, NEW v, NEW A, IsFiniteSet(A), Ints(w, A), Ints(v, A), NEW x \in A,
         \A i \in A \ {x} : v[i] = w[i]
  PROVE  SumOver(v, A) = (SumOver(w, A) - w[x]) + v[x]
<1>1. SumOver(v, A \ {x}) = SumOver(w, A \ {x})
  BY FS_RemoveElement, SumOfSame
<1>2. /\ SumOver(v, A) = SumOver(v, A \ {x}) + v[x]
      /\ SumOver(v, A) \in Int /\ SumOver(v, A \ {x}) \in Int /\ v[x] \in Int
  BY SumWithoutOne
<1>3. /\ SumOver(w, A) = SumOver(w, A \ {x}) + w[x]
      /\ SumOver(w, A) \in Int /\ SumOver(w, A \ {x}) \in Int /\ w[x] \in Int
  BY SumWithoutOne
<1> QED BY <1>1, <1>2, <1>3

LEMMA SumOfDifferences ==
  ASSUME NEW w, NEW v, NEW u, NEW A, IsFiniteSet(A), Ints(w, A), Ints(v, A),
         \A i \in A : u[i] = w[i] - v[i]
  PROVE  SumOver(u, A) = SumOver(w, A) - SumOver(v, A)
<1> DEFINE G == {T \in SUBSET A : SumOver(u, T) = SumOver(w, T) - SumOver(v, T)}
<1>0. Ints(u, A)
  BY DEF Ints
<1>1. {} \in G
  BY SumOfNone
<1>2. \A T \in SUBSET A : \A x \in A \ T : T \in G => T \cup {x} \in G
  <2>1. SUFFICES ASSUME NEW T \in SUBSET A, NEW x \in A \ T,
                        SumOver(u, T) = SumOver(w, T) - SumOver(v, T)
                 PROVE  SumOver(u, T \cup {x}) = SumOver(w, T \cup {x}) - SumOver(v, T \cup {x})
    OBVIOUS
  <2>2. IsFiniteSet(T) /\ x \notin T
    BY FS_Subset
  <2>3. /\ Ints(w, T \cup {x}) /\ Ints(v, T \cup {x}) /\ Ints(u, T \cup {x})
        /\ Ints(w, T) /\ Ints(v, T)
    BY <1>0 DEF Ints
  <2>4. SumOver(w, T \cup {x}) = SumOver(w, T) + w[x]
    BY <2>2, <2>3, SumWithOneMore
  <2>5. SumOver(v, T \cup {x}) = SumOver(v, T) + v[x]
    BY <2>2, <2>3, SumWithOneMore
  <2>6. SumOver(u, T \cup {x}) = SumOver(u, T) + u[x]
    BY <2>2, <2>3, SumWithOneMore
  <2>7. SumOver(w, T) \in Int /\ SumOver(v, T) \in Int
    BY <2>2, <2>3, SumIsInt
  <2>8. w[x] \in Int /\ v[x] \in Int /\ u[x] = w[x] - v[x]
    BY DEF Ints
  <2> QED BY <2>1, <2>4, <2>5, <2>6, <2>7, <2>8
<1>3. \A T \in SUBSET A : T \in G
  <2> HIDE DEF G
  <2> QED BY <1>1, <1>2, FiniteInduction
<1> QED BY <1>3

LEMMA SumOfZeros ==
  ASSUME NEW w, NEW A, IsFiniteSet(A), \A i \in A : w[i] = 0
  PROVE  SumOver(w, A) = 0
<1> DEFINE one == [i \in A |-> 1]
<1>1. Ints(one, A)
  BY DEF Ints
<1>2. \A i \in A : w[i] = one[i] - one[i]
  OBVIOUS
<1> HIDE DEF one
<1>3. SumOver(w, A) = SumOver(one, A) - SumOver(one, A) /\ SumOver(one, A) \in Int
  BY <1>1, <1>2, SumOfDifferences, SumIsInt
<1> QED BY <1>3

\* What falls into parts is counted part by part; f says into which.
LEMMA PartsCounted ==
  ASSUME NEW O, IsFiniteSet(O), NEW S, IsFiniteSet(S), NEW f, \A i \in O : f[i] \in S,
         NEW w, \A s \in S : w[s] = Cardinality({i \in O : f[i] = s})
  PROVE  SumOver(w, S) = Cardinality(O)
<1> DEFINE Part(T) == {i \in O : f[i] \in T}
           G == {T \in SUBSET S : SumOver(w, T) = Cardinality(Part(T))}
<1>1. \A T : Part(T) \in SUBSET O /\ IsFiniteSet(Part(T)) /\ Cardinality(Part(T)) \in Nat
  BY FS_Subset, FS_CardinalityType
<1>2. \A s \in S : {i \in O : f[i] = s} = Part({s}) /\ w[s] = Cardinality(Part({s}))
  OBVIOUS
<1>3. {} \in G
  BY SumOfNone, FS_EmptySet
<1>4. ASSUME NEW T \in SUBSET S, NEW x \in S \ T, T \in G
      PROVE  T \cup {x} \in G
  <2>1. IsFiniteSet(T) /\ Ints(w, T \cup {x})
    <3>1. ASSUME NEW s \in S PROVE w[s] \in Int
      <4> DEFINE P == Part({s})
      <4>1. Cardinality(P) \in Nat
        BY <1>1
      <4>2. w[s] = Cardinality(P)
        BY <1>2
      <4> HIDE DEF P
      <4> QED BY <4>1, <4>2
    <3>2. IsFiniteSet(T) /\ T \cup {x} \in SUBSET S
      BY FS_Subset
    <3> QED BY <3>1, <3>2 DEF Ints
  <2>2. SumOver(w, T \cup {x}) = SumOver(w, T) + w[x]
    BY <2>1, SumWithOneMore
  <2>3. Part(T \cup {x}) = Part(T) \cup Part({x}) /\ Part(T) \cap Part({x}) = {}
    OBVIOUS
  <2>4. Cardinality(Part(T) \cup Part({x})) = Cardinality(Part(T)) + Cardinality(Part({x}))
    <3> HIDE DEF Part
    <3>1. /\ Cardinality(Part(T) \cup Part({x}))
               = Cardinality(Part(T)) + Cardinality(Part({x})) - Cardinality(Part(T) \cap Part({x}))
          /\ Cardinality(Part(T) \cap Part({x})) = 0
      BY <1>1, <2>3, FS_Union, FS_EmptySet
    <3> QED BY <1>1, <3>1
  <2> HIDE DEF Part
  <2> QED BY <1>2, <1>4, <2>2, <2>3, <2>4
<1> HIDE DEF Part
<1>5. \A T \in SUBSET S : T \in G
  <2> HIDE DEF G
  <2> QED BY <1>3, <1>4, FiniteInduction
<1>6. Part(S) = O
  BY DEF Part
<1> QED BY <1>5, <1>6

-----------------------------------------------------------------------------
(* Division.                                                               *)

LEMMA Division ==
  ASSUME NEW a \in Int, NEW n \in Nat \ {0}
  PROVE  a % n \in 0 .. n - 1 /\ a \div n \in Int /\ a = (a \div n) * n + (a % n)
OBVIOUS

LEMMA RemainderIs ==
  ASSUME NEW q \in Int, NEW n \in Nat \ {0}, NEW r \in 0 .. n - 1
  PROVE  (q * n + r) % n = r
OBVIOUS

LEMMA QuotientIs ==
  ASSUME NEW q \in Int, NEW n \in Nat \ {0}, NEW r \in 0 .. n - 1
  PROVE  (q * n + r) \div n = q
OBVIOUS

LEMMA SmallRemainder ==
  ASSUME NEW n \in Nat \ {0}, NEW a \in 0 .. n - 1
  PROVE  a % n = a
OBVIOUS

LEMMA RemainderOfSum ==
  ASSUME NEW n \in Nat \ {0}, NEW a \in Int, NEW b \in Int
  PROVE  ((a % n) + b) % n = (a + b) % n
<1> DEFINE q == a \div n
           c == (a % n) + b
           d == c \div n
           r == c % n
<1>1. q \in Int /\ a % n \in Int /\ a = q * n + (a % n)
  BY Division
<1>2. c \in Int
  BY <1>1
<1>3. d \in Int /\ r \in 0 .. n - 1 /\ c = d * n + r
  <2> HIDE DEF c
  <2> QED BY <1>2, Division
<1>4. a + b = q * n + c
  <2> HIDE DEF q
  <2> QED BY <1>1
<1>5. a + b = (q + d) * n + r
  <2> HIDE DEF q, c, d, r
  <2>1. q * n + (d * n + r) = (q + d) * n + r
    BY <1>1, <1>3
  <2> QED BY <1>3, <1>4, <2>1
<1>6. ((q + d) * n + r) % n = r
  <2>1. q + d \in Int
    BY <1>1, <1>3
  <2> HIDE DEF q, d, r
  <2> QED BY <1>3, <2>1, RemainderIs
<1> QED BY <1>5, <1>6

\* Two numbers less than n apart that leave the same remainder are one.
LEMMA CloseRemainders ==
  ASSUME NEW n \in Nat \ {0}, NEW a \in Int, NEW b \in Int,
         a % n = b % n, a - b < n, b - a < n
  PROVE  a = b
<1> DEFINE q == (a \div n) - (b \div n)
<1>1. q \in Int /\ a - b = q * n
  <2>1. a = (a \div n) * n + (a % n) /\ b = (b \div n) * n + (b % n)
    BY Division
  <2>2. a \div n \in Int /\ b \div n \in Int /\ a % n \in Int
    BY Division
  <2> QED BY <2>1, <2>2
<1> HIDE DEF q
<1>2. ~(q >= 1)
  <2>1. SUFFICES ASSUME q >= 1 PROVE FALSE
    OBVIOUS
  <2>2. (q - 1) * n >= 0 /\ q * n = (q - 1) * n + n
    BY <1>1, <2>1
  <2> QED BY <1>1, <2>2
<1>3. ~(q <= -1)
  <2>1. SUFFICES ASSUME q <= -1 PROVE FALSE
    OBVIOUS
  <2>2. (-1 - q) * n >= 0 /\ q * n = -((-1 - q) * n) - n
    BY <1>1, <2>1
  <2> QED BY <1>1, <2>2
<1>4. q = 0
  BY <1>1, <1>2, <1>3
<1> QED BY <1>1, <1>4

\* The cursor wraps after whole turns, so the wrap does not show in its remainder.
LEMMA WrapHidden ==
  ASSUME NEW n \in Nat \ {0}, NEW M \in Nat \ {0}, M % n = 0, NEW c \in Int, NEW k \in Int
  PROVE  ((c % M) + k) % n = (c + k) % n
<1> DEFINE q == c \div M
           t == M \div n
           r == (c % M) + k
<1>1. q \in Int /\ c % M \in Int /\ c = q * M + (c % M)
  BY Division
<1>2. t \in Int /\ M = t * n
  BY Division
<1>3. r \in Int /\ r \div n \in Int /\ r % n \in 0 .. n - 1 /\ r = (r \div n) * n + (r % n)
  <2>1. r \in Int
    BY <1>1
  <2> HIDE DEF r
  <2> QED BY <2>1, Division
<1>4. c + k = (q * t + (r \div n)) * n + (r % n)
  <2>1. c + k = q * M + r
    <3> HIDE DEF q
    <3> QED BY <1>1
  <2>2. q * M = (q * t) * n
    <3> HIDE DEF q, t
    <3> QED BY <1>1, <1>2
  <2> DEFINE u == q * t
             d == r \div n
             e == r % n
  <2>3. u \in Int
    <3> HIDE DEF q, t
    <3> QED BY <1>1, <1>2
  <2>4. c + k = u * n + r
    BY <2>1, <2>2
  <2>5. d \in Int /\ e \in Int /\ r = d * n + e
    <3> HIDE DEF r
    <3> QED BY <1>3
  <2> HIDE DEF u, d, e, r
  <2>6. c + k = (u + d) * n + e
    <3>1. u * n + (d * n + e) = (u + d) * n + e
      BY <2>3, <2>5
    <3> QED BY <2>4, <2>5, <3>1
  <2> QED BY <2>6 DEF u, d, e
<1>5. q * t + (r \div n) \in Int
  <2> HIDE DEF q, t, r
  <2> QED BY <1>1, <1>2, <1>3
<1> HIDE DEF q, t
<1>6. (c + k) % n = r % n
  <2> DEFINE u == q * t + (r \div n)
             e == r % n
  <2>1. u \in Int /\ e \in 0 .. n - 1 /\ c + k = u * n + e
    BY <1>3, <1>4, <1>5
  <2> HIDE DEF u, e
  <2>2. (c + k) % n = e
    BY <2>1, RemainderIs
  <2> QED BY <2>2 DEF e
<1> QED BY <1>6

LEMMA WrapOfTurns ==
  ASSUME NEW n \in Nat \ {0}, NEW M \in Nat \ {0}, M % n = 0, NEW c \in Int
  PROVE  (c % M) % n = c % n
<1> DEFINE zero == 0
<1>1. zero \in Int
  OBVIOUS
<1>2. c % M \in Int /\ \A a \in Int : a + zero = a
  BY Division
<1> HIDE DEF zero
<1>3. ((c % M) + zero) % n = (c + zero) % n
  BY <1>1, WrapHidden
<1> QED BY <1>2, <1>3

LEMMA NextRemainder ==
  ASSUME NEW n \in Nat \ {0}, NEW a \in Int, NEW b \in Int, a % n = b % n
  PROVE  (a + 1) % n = (b + 1) % n
<1> DEFINE one == 1
<1>1. one \in Int
  OBVIOUS
<1> HIDE DEF one
<1>2. (a + one) % n = (b + one) % n
  <2>1. ((a % n) + one) % n = (a + one) % n /\ ((b % n) + one) % n = (b + one) % n
    BY <1>1, RemainderOfSum
  <2> QED BY <2>1
<1> QED BY <1>2 DEF one

\* Of the n numbers before c, those that leave one of the w remainders from b.
InARow(n, c, b, w) == {s \in c - n .. c - 1 : b <= s % n /\ s % n < b + w}

\* Each remainder comes up once.
LEMMA RemaindersInARow ==
  ASSUME NEW n \in Nat \ {0}, NEW c \in Int, NEW b \in Nat, NEW w \in Nat, b + w <= n
  PROVE  IsFiniteSet(InARow(n, c, b, w)) /\ Cardinality(InARow(n, c, b, w)) = w
<1> DEFINE S == {s \in c - n .. c - 1 : b <= s % n /\ s % n < b + w}
           R == b .. b + w - 1
           f == [s \in S |-> s % n]
<1>1. /\ c - n \in Int /\ c - 1 \in Int /\ b + w - 1 \in Int
      /\ \A s \in S : s \in Int /\ s % n \in R
  <2>1. c - n \in Int /\ c - 1 \in Int /\ b + w - 1 \in Int
    OBVIOUS
  <2>2. ASSUME NEW s \in c - n .. c - 1, b <= s % n, s % n < b + w
        PROVE  s \in Int /\ s % n \in R
    <3>1. s \in Int
      OBVIOUS
    <3> DEFINE r == s % n
    <3>2. r \in Int
      BY <3>1, Division
    <3>3. b <= r /\ r < b + w
      BY <2>2
    <3> HIDE DEF r
    <3>4. r \in R
      BY <3>2, <3>3
    <3> QED BY <3>1, <3>4 DEF r
  <2> QED BY <2>1, <2>2
<1>2. IsFiniteSet(S) /\ IsFiniteSet(R) /\ Cardinality(R) = w
  <2>1. IsFiniteSet(c - n .. c - 1)
    BY <1>1, FS_Interval
  <2>2. S \in SUBSET (c - n .. c - 1)
    OBVIOUS
  <2>3. IsFiniteSet(R) /\ Cardinality(R) = IF b > b + w - 1 THEN 0 ELSE (b + w - 1) - b + 1
    BY <1>1, FS_Interval
  <2>4. Cardinality(R) = w
    <3> HIDE DEF R
    <3> QED BY <2>3
  <2> HIDE DEF S, R
  <2> QED BY <2>1, <2>2, <2>3, <2>4, FS_Subset
<1>3. \A s, t \in S : f[s] = f[t] => s = t
  <2> SUFFICES ASSUME NEW s \in S, NEW t \in S, s % n = t % n PROVE s = t
    OBVIOUS
  <2>1. s \in Int /\ t \in Int /\ s - t < n /\ t - s < n
    OBVIOUS
  <2> HIDE DEF S
  <2> QED BY <2>1, CloseRemainders
<1>4. ASSUME NEW m \in R PROVE \E s \in S : f[s] = m
  <2> DEFINE a == (c - 1) - m
             q == a \div n
             d == a % n
             s == (c - 1) - d
  <2>1. m \in Int /\ m \in 0 .. n - 1 /\ a \in Int
    OBVIOUS
  <2>2. q \in Int /\ d \in 0 .. n - 1 /\ a = q * n + d
    <3> HIDE DEF a
    <3> QED BY <2>1, Division
  <2>3. s = q * n + m /\ s \in c - n .. c - 1
    <3> HIDE DEF q, d
    <3> QED BY <2>1, <2>2
  <2> HIDE DEF q, d, s, a
  <2>4. s % n = m
    BY <2>1, <2>2, <2>3, RemainderIs
  <2>5. b <= m /\ m < b + w
    OBVIOUS
  <2>6. s \in S
    BY <2>3, <2>4, <2>5
  <2> QED BY <2>4, <2>6
<1>5. f \in Bijection(S, R)
  <2>1. f \in [S -> R]
    BY <1>1
  <2> HIDE DEF S, R
  <2> QED BY <1>3, <1>4, <2>1 DEF Bijection, Injection, Surjection, IsInjective
<1> HIDE DEF f, S, R
<1>6. Cardinality(S) = Cardinality(R)
  BY <1>2, <1>5, FS_Bijection DEF ExistsBijection
<1> QED BY <1>2, <1>6 DEF S, InARow

\* A bounded set of natural numbers has a greatest one.
LEMMA GreatestNumber ==
  ASSUME NEW n \in Nat, NEW T \in SUBSET (0 .. n), T # {}
  PROVE  \E m \in T : \A k \in T : k <= m
<1> DEFINE Rests == {n - k : k \in T}
<1>1. \A k \in T : k \in Nat /\ k <= n /\ n - k \in Nat
  OBVIOUS
<1>2. Rests \in SUBSET Nat /\ Rests # {}
  BY <1>1
<1> HIDE DEF Rests
<1>3. PICK r \in Rests : \A s \in Rests : r <= s
  BY <1>2, LeastNumber
<1>4. PICK m \in T : r = n - m
  BY DEF Rests
<1>5. \A k \in T : r <= n - k
  BY <1>3 DEF Rests
<1> QED BY <1>1, <1>4, <1>5

-----------------------------------------------------------------------------
(* Segments: the sums up to each element of a set of numbers.              *)

SumUpTo(w, W, i)  == SumOver(w, {j \in W : j <= i})
SumUnder(w, W, i) == SumOver(w, {j \in W : j < i})

LEMMA NextSegment ==
  ASSUME NEW n \in Nat, NEW W \in SUBSET (1 .. n), NEW w, \A j \in W : w[j] \in Nat, NEW i \in W
  PROVE  /\ SumUnder(w, W, i) \in Nat /\ SumUpTo(w, W, i) = SumUnder(w, W, i) + w[i]
         /\ SumUpTo(w, W, i) <= SumOver(w, W)
         /\ \A k \in W : i < k => SumUpTo(w, W, i) <= SumUnder(w, W, k)
<1> DEFINE upTo == {j \in W : j <= i}
           under(k) == {j \in W : j < k}
<1>1. \A j \in W : j \in Nat
  OBVIOUS
<1>2. IsFiniteSet(W) /\ \A T \in SUBSET W : IsFiniteSet(T)
  <2> DEFINE one == 1
  <2>1. one \in Int /\ n \in Int /\ W \in SUBSET (one .. n)
    OBVIOUS
  <2> HIDE DEF one
  <2>2. IsFiniteSet(one .. n)
    BY <2>1, FS_Interval
  <2> QED BY <2>1, <2>2, FS_Subset
<1>3. upTo \in SUBSET W /\ i \in upTo /\ upTo \ {i} = under(i) /\ \A k : under(k) \in SUBSET W
  <2>1. \A j \in W : j <= i /\ j # i <=> j < i
    BY <1>1
  <2>2. upTo \ {i} = under(i)
    BY <2>1
  <2>3. i \in upTo
    BY <1>1
  <2> QED BY <2>2, <2>3
<1>4. SumUpTo(w, W, i) = SumOver(w, upTo) /\ \A k : SumUnder(w, W, k) = SumOver(w, under(k))
  BY DEF SumUpTo, SumUnder
<1>5. ASSUME NEW k \in W, i < k PROVE upTo \in SUBSET under(k)
  <2>1. \A j \in W : j <= i => j < k
    BY <1>1, <1>5
  <2> QED BY <2>1
<1> HIDE DEF upTo, under
<1>6. SumOver(w, upTo) = SumOver(w, upTo \ {i}) + w[i]
  <2>1. IsFiniteSet(upTo) /\ Ints(w, upTo)
    BY <1>2, <1>3 DEF Ints
  <2> QED BY <1>3, <2>1, SumWithoutOne
<1>7. SumOver(w, under(i)) \in Nat /\ SumOver(w, upTo) <= SumOver(w, W)
  BY <1>2, <1>3, SumOfPart
<1>8. ASSUME NEW k \in W, i < k PROVE SumOver(w, upTo) <= SumOver(w, under(k))
  <2>1. upTo \in SUBSET under(k) /\ IsFiniteSet(under(k)) /\ \A j \in under(k) : w[j] \in Nat
    BY <1>2, <1>3, <1>5, <1>8
  <2> QED BY <2>1, SumOfPart
<1> QED BY <1>3, <1>4, <1>6, <1>7, <1>8

\* The first element whose sum exceeds h is the one into whose segment h falls.
Exceeding(w, W, h) == {k \in W : h < SumUpTo(w, W, k)}

LEMMA FirstExceeding ==
  ASSUME NEW n \in Nat, NEW W \in SUBSET (1 .. n), NEW w, \A j \in W : w[j] \in Nat,
         NEW h \in Nat, h < SumOver(w, W), NEW i \in W
  PROVE  Min(Exceeding(w, W, h)) = i <=> SumUnder(w, W, i) <= h /\ h < SumUpTo(w, W, i)
<1> DEFINE E == Exceeding(w, W, h)
           m == Min(E)
<1>1. \A j \in W : j \in Nat /\ j <= n
  OBVIOUS
<1>2. E \in SUBSET W /\ E \in SUBSET Nat
  BY <1>1 DEF Exceeding
<1>3. \A k \in W : k \in E <=> h < SumUpTo(w, W, k)
  BY DEF Exceeding
<1> HIDE DEF E
<1>4. /\ SumUnder(w, W, i) \in Nat /\ w[i] \in Nat /\ SumUpTo(w, W, i) = SumUnder(w, W, i) + w[i]
      /\ \A k \in W : SumUnder(w, W, k) \in Nat /\ SumUpTo(w, W, k) \in Nat
      /\ \A k \in W : k < i => SumUpTo(w, W, k) <= SumUnder(w, W, i)
  <2>1. \A k \in W : SumUnder(w, W, k) \in Nat /\ SumUpTo(w, W, k) = SumUnder(w, W, k) + w[k]
    BY NextSegment
  <2>2. \A k \in W : k < i => SumUpTo(w, W, k) <= SumUnder(w, W, i)
    BY NextSegment
  <2>3. \A k \in W : SumUpTo(w, W, k) \in Nat
    BY <2>1
  <2> QED BY <2>1, <2>2, <2>3
<1>5. ASSUME SumUnder(w, W, i) <= h, h < SumUpTo(w, W, i)
      PROVE  m = i
  <2>1. i \in E
    BY <1>3, <1>5
  <2>2. m \in E /\ \A k \in E : m <= k
    BY <1>2, <2>1, MinIs
  <2> HIDE DEF m
  <2>3. ~(m < i)
    <3>1. m \in W /\ h < SumUpTo(w, W, m)
      BY <1>2, <1>3, <2>2
    <3> QED BY <1>4, <1>5, <3>1
  <2>4. m \in Nat /\ i \in Nat /\ m <= i
    BY <1>1, <1>2, <2>1, <2>2
  <2> QED BY <2>3, <2>4
<1>6. E # {}
  <2>1. W \in SUBSET (0 .. n) /\ W # {}
    OBVIOUS
  <2>2. PICK g \in W : \A k \in W : k <= g
    BY <2>1, GreatestNumber
  <2>3. {j \in W : j <= g} = W
    BY <2>2
  <2>4. g \in E
    BY <1>3, <2>3 DEF SumUpTo
  <2> QED BY <2>4
<1>7. ASSUME m = i
      PROVE  SumUnder(w, W, i) <= h /\ h < SumUpTo(w, W, i)
  <2>1. i \in E /\ \A k \in E : i <= k
    BY <1>2, <1>6, <1>7, MinIs
  <2> DEFINE under == {j \in W : j < i}
  <2>2. CASE under = {}
    <3>1. SumUnder(w, W, i) = 0
      BY <2>2, SumOfNone DEF SumUnder
    <3> QED BY <1>3, <2>1, <3>1
  <2>3. CASE under # {}
    <3>1. under \in SUBSET (0 .. n)
      <4>1. W \in SUBSET (0 .. n)
        OBVIOUS
      <4> QED BY <4>1
    <3>2. PICK p \in under : \A k \in under : k <= p
      BY <2>3, <3>1, GreatestNumber
    <3>3. p \in W /\ p < i /\ p \in Nat /\ i \in Nat
      BY <1>1, <3>2
    <3>4. p \notin E
      BY <2>1, <3>3
    <3>5. {j \in W : j <= p} = under
      <4>1. \A j \in W : j <= p => j < i
        BY <1>1, <3>3
      <4> QED BY <3>2, <4>1
    <3>6. SumUpTo(w, W, p) = SumUnder(w, W, i)
      BY <3>5 DEF SumUpTo, SumUnder
    <3>7. SumUnder(w, W, i) <= h
      BY <1>3, <1>4, <3>3, <3>4, <3>6
    <3> QED BY <1>3, <2>1, <3>7
  <2> QED BY <2>2, <2>3
<1> QED BY <1>5, <1>7 DEF E

=============================================================================
