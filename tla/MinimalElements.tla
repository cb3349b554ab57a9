-------------------------- MODULE MinimalElements --------------------------
(***************************************************************************)
(* Minimal elements: the form of induction the provers can use, since the  *)
(* library's induction theorems take the statement to be proved as an      *)
(* operator.  To prove a statement of every number, or of every finite     *)
(* set, take the set of those it fails for and look at its least one.      *)
(***************************************************************************)
EXTENDS Integers, FiniteSets, TLAPS, FiniteSetTheorems, WellFoundedInduction

\* Among finite sets there is one that has no other of them as a subset.
LEMMA SmallestSet ==
  ASSUME NEW T, T # {}, \A X \in T : IsFiniteSet(X)
  PROVE  \E X \in T : \A Y \in T : Y \subseteq X => Y = X
<1> DEFINE S == UNION T
<1>1. T \subseteq FiniteSubsetsOf(S)
  BY DEF FiniteSubsetsOf
<1>2. PICK X \in T : \A Y \in T : ~(<<Y, X>> \in StrictSubsetOrdering(S))
  BY <1>1, FS_StrictSubsetOrderingWellFounded, WFMin
<1>3. ASSUME NEW Y \in T, Y \subseteq X, Y # X PROVE FALSE
  <2>1. <<Y, X>> \in (SUBSET S) \X (SUBSET S)
    OBVIOUS
  <2>2. <<Y, X>> \in StrictSubsetOrdering(S)
    BY <1>3, <2>1 DEF StrictSubsetOrdering
  <2>3. QED
    BY <1>2, <2>2
<1>4. QED
  BY <1>3

\* Among natural numbers there is a least one.
LEMMA LeastNatural ==
  ASSUME NEW T \in SUBSET Nat, T # {}
  PROVE  \E m \in T : \A n \in T : m <= n
<1> DEFINE I == {0..n : n \in T}
<1>1. \A X \in I : IsFiniteSet(X)
  <2>1. \A n \in T : IsFiniteSet(0..n)
    BY FS_Interval
  <2>2. QED
    BY <2>1
<1>2. I # {}
  OBVIOUS
<1>3. PICK X \in I : \A Y \in I : Y \subseteq X => Y = X
  <2> HIDE DEF I
  <2>1. QED
    BY <1>1, <1>2, SmallestSet
<1>4. PICK m \in T : X = 0..m
  OBVIOUS
<1>5. ASSUME NEW n \in T, n < m PROVE FALSE
  <2>1. 0..n \in I
    OBVIOUS
  <2>2. 0..n \subseteq 0..m /\ 0..n # 0..m
    BY <1>5
  <2>3. QED
    BY <1>3, <1>4, <2>1, <2>2
<1>6. QED
  BY <1>5

(***************************************************************************)
(* Sums.  SumFunctionOnSet adds up the values of a function over a finite  *)
(* set, one chosen element after the other.  That such a sum exists, that  *)
(* it does not depend on the order, and what else one knows of sums comes  *)
(* from smallest counterexamples.                                          *)
(***************************************************************************)

PartialSums(w, f, S) ==
    [s \in SUBSET S |->
        IF s = {} THEN 0
        ELSE w[CHOOSE x \in s : TRUE] + f[s \ {CHOOSE x \in s : TRUE}]]
SumsOf(w, S) == CHOOSE f : f = PartialSums(w, f, S)

\* Two functions of partial sums agree where both are defined.
LEMMA SumsAgree ==
  ASSUME NEW w, NEW A, NEW B, IsFiniteSet(A),
         NEW f, NEW g, f = PartialSums(w, f, A), g = PartialSums(w, g, B),
         NEW s, s \subseteq A, s \subseteq B
  PROVE  f[s] = g[s]
<1> DEFINE T == {X \in SUBSET A : X \subseteq B /\ f[X] # g[X]}
<1>1. CASE T = {}
  BY <1>1
<1>2. CASE T # {}
  <2>1. \A X \in T : IsFiniteSet(X)
    BY FS_Subset
  <2>2. PICK X \in T : \A Y \in T : Y \subseteq X => Y = X
    <3> HIDE DEF T
    <3>1. QED
      BY <1>2, <2>1, SmallestSet
  <2> DEFINE x == CHOOSE y \in X : TRUE
             Y == X \ {x}
  <2>3. X \in SUBSET A /\ X \in SUBSET B /\ f[X] # g[X]
    OBVIOUS
  <2>4. f[X] = IF X = {} THEN 0 ELSE w[x] + f[Y]
    <3>1. f[X] = PartialSums(w, f, A)[X]
      OBVIOUS
    <3>2. QED
      BY <2>3, <3>1 DEF PartialSums
  <2>5. g[X] = IF X = {} THEN 0 ELSE w[x] + g[Y]
    <3>1. g[X] = PartialSums(w, g, B)[X]
      OBVIOUS
    <3>2. QED
      BY <2>3, <3>1 DEF PartialSums
  <2>6. X # {} /\ x \in X
    BY <2>3, <2>4, <2>5
  <2>7. Y \notin T
    BY <2>2, <2>6
  <2>8. f[Y] = g[Y]
    BY <2>3, <2>7
  <2>9. QED
    BY <2>3, <2>4, <2>5, <2>8
<1>3. QED
  BY <1>1, <1>2

\* Over a finite set there are partial sums.
LEMMA SumsExist ==
  ASSUME NEW w, NEW S, IsFiniteSet(S)
  PROVE  SumsOf(w, S) = PartialSums(w, SumsOf(w, S), S)
<1> DEFINE Has(X) == \E f : f = PartialSums(w, f, X)
           T == {X \in SUBSET S : ~Has(X)}
<1>1. CASE S \in T
  <2>1. \A X \in T : IsFiniteSet(X)
    BY FS_Subset
  <2>2. PICK X \in T : \A Y \in T : Y \subseteq X => Y = X
    <3> HIDE DEF T
    <3>1. QED
      BY <1>1, <2>1, SmallestSet
  <2>3. ASSUME NEW Y \in SUBSET X, Y # X
        PROVE  SumsOf(w, Y) = PartialSums(w, SumsOf(w, Y), Y) /\ IsFiniteSet(Y)
    <3>1. Y \in SUBSET S /\ Y \notin T
      BY <2>2, <2>3
    <3>2. Has(Y)
      BY <3>1
    <3>3. IsFiniteSet(Y)
      BY <3>1, FS_Subset
    <3>4. QED
      BY <3>2, <3>3 DEF SumsOf
  <2> DEFINE c(s) == CHOOSE x \in s : TRUE
             rest(s) == s \ {c(s)}
             f == [s \in SUBSET X |->
                      IF s = {} THEN 0 ELSE w[c(s)] + SumsOf(w, rest(s))[rest(s)]]
  <2>4. ASSUME NEW s \in SUBSET X, s # {}
        PROVE  f[rest(s)] = SumsOf(w, rest(s))[rest(s)]
    <3> DEFINE Y == rest(s)
    <3>1. Y \in SUBSET X /\ Y # X /\ c(s) \in s
      BY <2>4
    <3>2. SumsOf(w, Y) = PartialSums(w, SumsOf(w, Y), Y) /\ IsFiniteSet(Y)
      <4> HIDE DEF Y
      <4>1. QED
        BY <2>3, <3>1
    <3> HIDE DEF Y
    <3>3. SumsOf(w, Y)[Y] = IF Y = {} THEN 0 ELSE w[c(Y)] + SumsOf(w, Y)[rest(Y)]
      <4>1. SumsOf(w, Y)[Y] = PartialSums(w, SumsOf(w, Y), Y)[Y]
        BY <3>2
      <4>2. QED
        BY <4>1 DEF PartialSums
    <3>4. f[Y] = IF Y = {} THEN 0 ELSE w[c(Y)] + SumsOf(w, rest(Y))[rest(Y)]
      BY <3>1
    <3>5. CASE Y = {}
      BY <3>3, <3>4, <3>5 DEF Y
    <3>6. CASE Y # {}
      <4> DEFINE Z == rest(Y)
      <4>1. Z \in SUBSET X /\ Z # X /\ Z \subseteq Y
        BY <3>1, <3>6
      <4>2. SumsOf(w, Z) = PartialSums(w, SumsOf(w, Z), Z)
        <5> HIDE DEF Z
        <5>1. QED
          BY <2>3, <4>1
      <4>3. SumsOf(w, Y)[Z] = SumsOf(w, Z)[Z]
        <5> HIDE DEF Z
        <5>1. QED
          BY <3>2, <4>1, <4>2, SumsAgree
      <4>4. QED
        BY <3>3, <3>4, <3>6, <4>3 DEF Y
    <3>7. QED
      BY <3>5, <3>6
  <2>5. f = PartialSums(w, f, X)
    <3> DEFINE g == PartialSums(w, f, X)
    <3>1. ASSUME NEW s \in SUBSET X PROVE f[s] = g[s]
      <4>1. CASE s = {}
        BY <4>1 DEF PartialSums
      <4>2. CASE s # {}
        <5>1. f[s] = w[c(s)] + SumsOf(w, rest(s))[rest(s)]
          BY <4>2
        <5>2. g[s] = w[c(s)] + f[rest(s)]
          BY <4>2 DEF PartialSums
        <5>3. QED
          BY <2>4, <4>2, <5>1, <5>2
      <4>3. QED
        BY <4>1, <4>2
    <3>2. f = [s \in SUBSET X |-> f[s]]
      OBVIOUS
    <3>3. g = [s \in SUBSET X |-> g[s]]
      BY DEF PartialSums
    <3>4. [s \in SUBSET X |-> f[s]] = [s \in SUBSET X |-> g[s]]
      <4> HIDE DEF f, g
      <4>1. QED
        BY <3>1, Zenon
    <3>5. QED
      BY <3>2, <3>3, <3>4, Zenon
  <2>6. Has(X)
    <3> HIDE DEF f
    <3>1. QED
      BY <2>5
  <2>7. QED
    BY <2>6
<1>2. CASE S \notin T
  <2>1. Has(S)
    BY <1>2
  <2>2. QED
    BY <2>1 DEF SumsOf
<1>3. QED
  BY <1>1, <1>2

\* Nothing adds up to nought, and one element after the other to the sum.
LEMMA SumByChoice ==
  ASSUME NEW w, NEW S, IsFiniteSet(S)
  PROVE  LET x == CHOOSE y \in S : TRUE
         IN SumFunctionOnSet(w, S) =
              IF S = {} THEN 0 ELSE w[x] + SumFunctionOnSet(w, S \ {x})
<1> DEFINE x == CHOOSE y \in S : TRUE
           R == S \ {x}
<1>1. SumFunctionOnSet(w, S) = SumsOf(w, S)[S]
  BY DEF SumFunctionOnSet, FoldFunctionOnSet, MapThenFoldSet, SumsOf, PartialSums
<1>2. SumFunctionOnSet(w, R) = SumsOf(w, R)[R]
  BY DEF SumFunctionOnSet, FoldFunctionOnSet, MapThenFoldSet, SumsOf, PartialSums
<1>3. IsFiniteSet(R) /\ R \subseteq S
  BY FS_Subset
<1>4. /\ SumsOf(w, S) = PartialSums(w, SumsOf(w, S), S)
      /\ SumsOf(w, R) = PartialSums(w, SumsOf(w, R), R)
  <2> HIDE DEF R
  <2>1. QED
    BY <1>3, SumsExist
<1>5. SumsOf(w, S)[R] = SumsOf(w, R)[R]
  <2> HIDE DEF R
  <2>1. QED
    BY <1>3, <1>4, SumsAgree
<1>6. SumsOf(w, S)[S] = IF S = {} THEN 0 ELSE w[x] + SumsOf(w, S)[R]
  <2>1. SumsOf(w, S)[S] = PartialSums(w, SumsOf(w, S), S)[S]
    BY <1>4
  <2>2. QED
    BY <2>1 DEF PartialSums
<1>7. QED
  BY <1>1, <1>2, <1>5, <1>6

\* A sum of integers is one, and of natural numbers is one.
LEMMA SumType ==
  ASSUME NEW w, NEW S, IsFiniteSet(S), \A x \in S : w[x] \in Int
  PROVE  /\ SumFunctionOnSet(w, S) \in Int
         /\ (\A x \in S : w[x] >= 0) => SumFunctionOnSet(w, S) >= 0
<1> DEFINE Right(X) == /\ SumFunctionOnSet(w, X) \in Int
                       /\ (\A x \in X : w[x] >= 0) => SumFunctionOnSet(w, X) >= 0
           T == {X \in SUBSET S : ~Right(X)}
<1>1. CASE S \in T
  <2>1. \A X \in T : IsFiniteSet(X)
    BY FS_Subset
  <2>2. PICK X \in T : \A Y \in T : Y \subseteq X => Y = X
    <3> HIDE DEF T
    <3>1. QED
      BY <1>1, <2>1, SmallestSet
  <2> DEFINE x == CHOOSE y \in X : TRUE
             Y == X \ {x}
  <2>3. SumFunctionOnSet(w, X) =
           IF X = {} THEN 0 ELSE w[x] + SumFunctionOnSet(w, Y)
    BY <2>1, SumByChoice
  <2>4. X # {}
    BY <2>3
  <2>5. x \in X /\ w[x] \in Int
    BY <2>4
  <2>6. Right(Y)
    BY <2>2, <2>5
  <2>7. Right(X)
    <3> HIDE DEF x
    <3>1. QED
      BY <2>3, <2>4, <2>5, <2>6
  <2>8. QED
    BY <2>7
<1>2. CASE S \notin T
  BY <1>2
<1>3. QED
  BY <1>1, <1>2

\* Any element can be taken out of a sum.
LEMMA SumWithout ==
  ASSUME NEW w, NEW S, IsFiniteSet(S), \A x \in S : w[x] \in Int, NEW e \in S
  PROVE  SumFunctionOnSet(w, S) = w[e] + SumFunctionOnSet(w, S \ {e})
<1> DEFINE Sum(X) == SumFunctionOnSet(w, X)
           Right(X) == \A z \in X : Sum(X) = w[z] + Sum(X \ {z})
           T == {X \in SUBSET S : ~Right(X)}
<1>1. CASE S \in T
  <2>1. \A X \in T : IsFiniteSet(X)
    BY FS_Subset
  <2>2. PICK X \in T : \A Y \in T : Y \subseteq X => Y = X
    <3> HIDE DEF T
    <3>1. QED
      BY <1>1, <2>1, SmallestSet
  <2>3. PICK z \in X : Sum(X) # w[z] + Sum(X \ {z})
    BY <2>2
  <2> DEFINE x == CHOOSE y \in X : TRUE
             Y == X \ {x}
             Z == X \ {z}
             V == X \ {x, z}
  <2>4. x \in X
    BY <2>3
  <2>5. Sum(X) = w[x] + Sum(Y)
    BY <2>1, <2>3, SumByChoice
  <2>6. x # z
    BY <2>3, <2>5
  <2>7. Y \notin T /\ Z \notin T
    BY <2>2, <2>4
  <2>8. Sum(Y) = w[z] + Sum(V)
    <3>1. z \in Y /\ Y \ {z} = V
      BY <2>6
    <3>2. Right(Y)
      BY <2>7
    <3>3. QED
      BY <3>1, <3>2
  <2>9. Sum(Z) = w[x] + Sum(V)
    <3>1. x \in Z /\ Z \ {x} = V
      BY <2>4, <2>6
    <3>2. Right(Z)
      BY <2>7
    <3>3. QED
      BY <3>1, <3>2
  <2>10. w[x] \in Int /\ w[z] \in Int /\ Sum(V) \in Int
    <3>1. V \subseteq S /\ IsFiniteSet(V)
      BY FS_Subset
    <3>2. Sum(V) \in Int
      <4> HIDE DEF V
      <4>1. QED
        BY <3>1, SumType
    <3>3. QED
      BY <2>4, <3>2
  <2>11. QED
    <3> HIDE DEF x, Y, Z, V, Sum
    <3>1. Sum(X) = w[z] + Sum(Z)
      BY <2>5, <2>8, <2>9, <2>10
    <3>2. QED
      BY <2>3, <3>1 DEF Z
<1>2. CASE S \notin T
  BY <1>2
<1>3. QED
  BY <1>1, <1>2

\* A sum grows with its parts.
LEMMA SumOrder ==
  ASSUME NEW v, NEW w, NEW S, IsFiniteSet(S),
         \A x \in S : v[x] \in Int /\ w[x] \in Int /\ v[x] <= w[x]
  PROVE  SumFunctionOnSet(v, S) <= SumFunctionOnSet(w, S)
<1> DEFINE Right(X) == SumFunctionOnSet(v, X) <= SumFunctionOnSet(w, X)
           T == {X \in SUBSET S : ~Right(X)}
<1>1. CASE S \in T
  <2>1. \A X \in T : IsFiniteSet(X)
    BY FS_Subset
  <2>2. PICK X \in T : \A Y \in T : Y \subseteq X => Y = X
    <3> HIDE DEF T
    <3>1. QED
      BY <1>1, <2>1, SmallestSet
  <2> DEFINE x == CHOOSE y \in X : TRUE
             Y == X \ {x}
  <2>3. /\ SumFunctionOnSet(v, X) =
              IF X = {} THEN 0 ELSE v[x] + SumFunctionOnSet(v, Y)
        /\ SumFunctionOnSet(w, X) =
              IF X = {} THEN 0 ELSE w[x] + SumFunctionOnSet(w, Y)
    BY <2>1, SumByChoice
  <2>4. X # {}
    BY <2>3
  <2>5. x \in X /\ v[x] \in Int /\ w[x] \in Int /\ v[x] <= w[x]
    BY <2>4
  <2>6. Right(Y)
    BY <2>2, <2>5
  <2>7. SumFunctionOnSet(v, Y) \in Int /\ SumFunctionOnSet(w, Y) \in Int
    <3>1. IsFiniteSet(Y) /\ Y \subseteq S
      BY FS_Subset
    <3> HIDE DEF Y
    <3>2. QED
      BY <3>1, SumType
  <2>8. Right(X)
    <3> HIDE DEF x, Y
    <3>1. QED
      BY <2>3, <2>4, <2>5, <2>6, <2>7
  <2>9. QED
    BY <2>8
<1>2. CASE S \notin T
  BY <1>2
<1>3. QED
  BY <1>1, <1>2

\* The sum depends on nothing but the values over the set.
LEMMA SumSame ==
  ASSUME NEW v, NEW w, NEW S, IsFiniteSet(S),
         \A x \in S : v[x] \in Int /\ v[x] = w[x]
  PROVE  SumFunctionOnSet(v, S) = SumFunctionOnSet(w, S)
<1>1. SumFunctionOnSet(v, S) <= SumFunctionOnSet(w, S)
  BY SumOrder
<1>2. SumFunctionOnSet(w, S) <= SumFunctionOnSet(v, S)
  BY SumOrder
<1>3. SumFunctionOnSet(v, S) \in Int
  BY SumType
<1>4. SumFunctionOnSet(w, S) \in Int
  BY SumType
<1>5. QED
  BY <1>1, <1>2, <1>3, <1>4

\* Values that are nought count for nothing.
LEMMA SumWithin ==
  ASSUME NEW w, NEW S, IsFiniteSet(S), \A x \in S : w[x] \in Int,
         NEW U \in SUBSET S, \A x \in S \ U : w[x] = 0
  PROVE  SumFunctionOnSet(w, S) = SumFunctionOnSet(w, U)
<1> DEFINE Right(X) == SumFunctionOnSet(w, X) = SumFunctionOnSet(w, U)
           T == {X \in SUBSET S : U \subseteq X /\ ~Right(X)}
<1>1. CASE S \in T
  <2>1. \A X \in T : IsFiniteSet(X)
    BY FS_Subset
  <2>2. PICK X \in T : \A Y \in T : Y \subseteq X => Y = X
    <3> HIDE DEF T
    <3>1. QED
      BY <1>1, <2>1, SmallestSet
  <2>3. PICK x \in X : x \notin U
    BY <2>2
  <2> DEFINE Y == X \ {x}
  <2>4. w[x] = 0
    BY <2>3
  <2>5. SumFunctionOnSet(w, X) = w[x] + SumFunctionOnSet(w, Y)
    BY <2>1, SumWithout
  <2>6. SumFunctionOnSet(w, Y) \in Int
    <3>1. IsFiniteSet(Y) /\ Y \subseteq S
      BY FS_Subset
    <3> HIDE DEF Y
    <3>2. QED
      BY <3>1, SumType
  <2>7. Right(Y)
    BY <2>2, <2>3
  <2>8. SumFunctionOnSet(w, X) = SumFunctionOnSet(w, Y)
    <3> HIDE DEF Y
    <3>1. QED
      BY <2>4, <2>5, <2>6
  <2>9. QED
    BY <2>7, <2>8
<1>2. CASE S \notin T
  BY <1>2
<1>3. QED
  BY <1>1, <1>2

\* Two sums over the same set add up.
LEMMA SumPlus ==
  ASSUME NEW u, NEW v, NEW w, NEW S, IsFiniteSet(S),
         \A x \in S : v[x] \in Int /\ w[x] \in Int /\ u[x] = v[x] + w[x]
  PROVE  SumFunctionOnSet(u, S) = SumFunctionOnSet(v, S) + SumFunctionOnSet(w, S)
<1> DEFINE Right(X) == SumFunctionOnSet(u, X)
                          = SumFunctionOnSet(v, X) + SumFunctionOnSet(w, X)
           T == {X \in SUBSET S : ~Right(X)}
<1>1. CASE S \in T
  <2>1. \A X \in T : IsFiniteSet(X)
    BY FS_Subset
  <2>2. PICK X \in T : \A Y \in T : Y \subseteq X => Y = X
    <3> HIDE DEF T
    <3>1. QED
      BY <1>1, <2>1, SmallestSet
  <2> DEFINE x == CHOOSE y \in X : TRUE
             Y == X \ {x}
  <2>3. /\ SumFunctionOnSet(u, X) =
              IF X = {} THEN 0 ELSE u[x] + SumFunctionOnSet(u, Y)
        /\ SumFunctionOnSet(v, X) =
              IF X = {} THEN 0 ELSE v[x] + SumFunctionOnSet(v, Y)
        /\ SumFunctionOnSet(w, X) =
              IF X = {} THEN 0 ELSE w[x] + SumFunctionOnSet(w, Y)
    BY <2>1, SumByChoice
  <2>4. X # {}
    BY <2>3
  <2>5. x \in X /\ v[x] \in Int /\ w[x] \in Int /\ u[x] = v[x] + w[x]
    BY <2>4
  <2>6. Right(Y)
    BY <2>2, <2>5
  <2>7. SumFunctionOnSet(v, Y) \in Int /\ SumFunctionOnSet(w, Y) \in Int
    <3>1. IsFiniteSet(Y) /\ Y \subseteq S
      BY FS_Subset
    <3> HIDE DEF Y
    <3>2. QED
      BY <3>1, SumType
  <2>8. Right(X)
    <3> HIDE DEF x, Y
    <3>1. QED
      BY <2>3, <2>4, <2>5, <2>6, <2>7
  <2>9. QED
    BY <2>8
<1>2. CASE S \notin T
  BY <1>2
<1>3. QED
  BY <1>1, <1>2

\* A natural number is no more than a sum of natural numbers it is part of.
LEMMA SumPart ==
  ASSUME NEW w, NEW S, IsFiniteSet(S), \A x \in S : w[x] \in Nat, NEW e \in S
  PROVE  w[e] <= SumFunctionOnSet(w, S)
<1> DEFINE Y == S \ {e}
<1>1. SumFunctionOnSet(w, S) = w[e] + SumFunctionOnSet(w, Y)
  BY SumWithout
<1>2. SumFunctionOnSet(w, Y) \in Int /\ SumFunctionOnSet(w, Y) >= 0
  <2>1. IsFiniteSet(Y) /\ Y \subseteq S
    BY FS_Subset
  <2> HIDE DEF Y
  <2>2. QED
    BY <2>1, SumType
<1>3. QED
  BY <1>1, <1>2

\* Where one value changes, the sum changes by as much.
LEMMA SumChanged ==
  ASSUME NEW v, NEW w, NEW S, IsFiniteSet(S), NEW e \in S,
         \A x \in S : v[x] \in Int /\ w[x] \in Int,
         \A x \in S \ {e} : v[x] = w[x]
  PROVE  SumFunctionOnSet(w, S) = SumFunctionOnSet(v, S) - v[e] + w[e]
<1> DEFINE Y == S \ {e}
<1>1. /\ SumFunctionOnSet(w, S) = w[e] + SumFunctionOnSet(w, Y)
      /\ SumFunctionOnSet(v, S) = v[e] + SumFunctionOnSet(v, Y)
  BY SumWithout
<1>2. IsFiniteSet(Y) /\ Y \subseteq S
  BY FS_Subset
<1>3. \A x \in Y : v[x] \in Int /\ v[x] = w[x]
  OBVIOUS
<1> HIDE DEF Y
<1>4. SumFunctionOnSet(v, Y) \in Int
  BY <1>2, <1>3, SumType
<1>5. SumFunctionOnSet(v, Y) = SumFunctionOnSet(w, Y)
  BY <1>2, <1>3, SumSame
<1>6. v[e] \in Int /\ w[e] \in Int
  OBVIOUS
<1>7. QED
  BY <1>1, <1>4, <1>5, <1>6
============================================================================
