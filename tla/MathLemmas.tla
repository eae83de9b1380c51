------------------------------- MODULE MathLemmas -------------------------------
(***************************************************************************)
(* Facts that the proofs about Training and DriftMath share: the least and *)
(* the largest number of a set, products and divisions, and sums over      *)
(* finite sets.  The induction theorems of the library take an operator,   *)
(* which the provers here cannot instantiate, so that induction is by a    *)
(* least counterexample.                                                   *)
(***************************************************************************)
EXTENDS Integers, FiniteSets, SequencesExt, FiniteSetTheorems, TLAPS

LEMMA LeastMember ==
    ASSUME NEW S \in SUBSET Nat, S # {}
    PROVE  \E m \in S : \A y \in S : m <= y
<1>1. PICK m \in S : \A y \in S : ~ (<<y, m>> \in OpToRel(<, Nat))
  BY WFMin, NatLessThanWellFounded
<1>2. \A y \in S : ~ (y < m)
  BY <1>1 DEF OpToRel
<1> QED BY <1>2

LEMMA MinIsLeast ==
    ASSUME NEW S \in SUBSET Nat, S # {}
    PROVE  Min(S) \in S /\ \A y \in S : Min(S) <= y
BY LeastMember DEF Min

LEMMA MaxIsLargest ==
    ASSUME NEW b \in Nat, NEW S \in SUBSET (0 .. b), S # {}
    PROVE  Max(S) \in S /\ \A y \in S : y <= Max(S)
<1> DEFINE Gaps == {b - x : x \in S}
<1>1. Gaps \in SUBSET Nat /\ Gaps # {}
  <2>1. \A x \in S : b - x \in Nat
    OBVIOUS
  <2>2. PICK x \in S : TRUE
    OBVIOUS
  <2>3. b - x \in Gaps
    OBVIOUS
  <2> QED BY <2>1, <2>3
<1> HIDE DEF Gaps
<1>2. PICK g \in Gaps : \A h \in Gaps : g <= h
  BY <1>1, LeastMember
<1>3. PICK m \in S : g = b - m
  BY DEF Gaps
<1>4. ASSUME NEW y \in S PROVE m >= y
  <2>1. b - y \in Gaps
    BY DEF Gaps
  <2> QED BY <2>1, <1>2, <1>3
<1> QED BY <1>4 DEF Max

-----------------------------------------------------------------------------
(* Products and quotients.                                                 *)

LEMMA ProductIsMonotonic ==
    ASSUME NEW a \in Int, NEW b \in Int, NEW c \in Nat, a <= b
    PROVE  a * c <= b * c
<1>1. (b - a) * c >= 0
  OBVIOUS
<1> QED BY <1>1

LEMMA ProductIsCancelled ==
    ASSUME NEW a \in Int, NEW b \in Int, NEW c \in Nat \ {0}, a * c <= b * c
    PROVE  a <= b
<1>1. SUFFICES ASSUME a > b PROVE FALSE
  OBVIOUS
<1>2. (a - b) * c > 0
  BY <1>1
<1> QED BY <1>2

LEMMA Division ==
    ASSUME NEW a \in Nat, NEW m \in Nat \ {0}
    PROVE  /\ a \div m \in Nat
           /\ a % m \in 0 .. m - 1
           /\ a = m * (a \div m) + (a % m)
OBVIOUS

LEMMA QuotientIsAtLeast ==
    ASSUME NEW a \in Nat, NEW m \in Nat \ {0}, NEW c \in Nat \ {0}, c * m <= a
    PROVE  a \div m >= c
<1> DEFINE q == a \div m  e == a % m
<1>1. q \in Nat /\ e \in 0 .. m - 1 /\ a = m * q + e
  BY Division
<1> HIDE DEF q, e
<1>2. SUFFICES ASSUME q <= c - 1 PROVE FALSE
  BY <1>1 DEF q
<1>3. q * m <= (c - 1) * m
  BY <1>1, <1>2, ProductIsMonotonic
<1>4. (c - 1) * m = c * m - m /\ m * q = q * m /\ c * m \in Int
  BY <1>1
<1> QED BY <1>1, <1>3, <1>4

-----------------------------------------------------------------------------
(* A finite set of which some subset is bad has a bad subset of which no   *)
(* smaller one is: induction on the subsets of a finite set.               *)

LEMMA SmallestBadSubset ==
    ASSUME NEW S, IsFiniteSet(S), NEW bad \in SUBSET (SUBSET S), bad # {}
    PROVE  \E s \in bad : \A r \in bad : Cardinality(s) <= Cardinality(r)
<1> DEFINE sizes == {Cardinality(s) : s \in bad}
<1>1. \A s \in bad : Cardinality(s) \in Nat
  BY FS_Subset, FS_CardinalityType
<1>2. sizes \in SUBSET Nat /\ sizes # {}
  BY <1>1
<1> HIDE DEF sizes
<1>3. PICK n \in sizes : \A k \in sizes : n <= k
  BY <1>2, LeastMember
<1> QED BY <1>3 DEF sizes

LEMMA SubsetWithout ==
    ASSUME NEW S, IsFiniteSet(S), NEW s \in SUBSET S, NEW x \in s
    PROVE  /\ s \ {x} \in SUBSET S
           /\ Cardinality(s) \in Nat /\ Cardinality(s \ {x}) \in Nat
           /\ Cardinality(s \ {x}) = Cardinality(s) - 1
<1>1. IsFiniteSet(s)
  BY FS_Subset
<1>2. Cardinality(s) \in Nat /\ Cardinality(s \ {x}) = Cardinality(s) - 1
  BY <1>1, FS_RemoveElement, FS_CardinalityType
<1>3. Cardinality(s \ {x}) \in Nat
  BY <1>1, FS_RemoveElement, FS_CardinalityType
<1> QED BY <1>2, <1>3

-----------------------------------------------------------------------------
(* Sums and products.  The folds take the members of a set one by one.     *)

Unit(op) == IF op = "sum" THEN 0 ELSE 1
Combine(op, a, b) == IF op = "sum" THEN a + b ELSE a * b

Chosen(s) == CHOOSE x \in s : TRUE
Extend(op, iter, fun, s) ==
    IF s = {} THEN Unit(op) ELSE Combine(op, fun[Chosen(s)], iter[s \ {Chosen(s)}])
IsIter(op, iter, fun, S) == iter = [s \in SUBSET S |-> Extend(op, iter, fun, s)]

\* The recursion has a solution: a smallest size of subsets for which it has none
\* would have one, which extends that of the subsets with a member less.
LEMMA IterExists ==
    ASSUME NEW S, IsFiniteSet(S), NEW fun, NEW op
    PROVE  \E iter : IsIter(op, iter, fun, S)
<1> DEFINE Small(m) == {s \in SUBSET S : Cardinality(s) <= m}
           Has(m) == \E f : f = [s \in Small(m) |-> Extend(op, f, fun, s)]
           lacking == {m \in Nat : ~Has(m)}
<1>1. \A s \in SUBSET S : Cardinality(s) \in Nat
  BY FS_Subset, FS_CardinalityType
<1>2. Has(0)
  <2> DEFINE f == [s \in Small(0) |-> Unit(op)]
  <2>1. ASSUME NEW s \in Small(0) PROVE s = {}
    <3>1. IsFiniteSet(s) /\ Cardinality(s) = 0
      BY <1>1, FS_Subset
    <3> QED BY <3>1, FS_EmptySet
  <2>2. f = [s \in Small(0) |-> Extend(op, f, fun, s)]
    BY <2>1 DEF Extend
  <2> QED BY <2>2
<1>3. ASSUME NEW m \in Nat, Has(m) PROVE Has(m + 1)
  <2>1. PICK f : f = [s \in Small(m) |-> Extend(op, f, fun, s)]
    BY <1>3
  <2> DEFINE g == [s \in Small(m + 1) |-> Extend(op, f, fun, s)]
  <2>2. ASSUME NEW s \in Small(m + 1), s # {}
        PROVE  s \ {Chosen(s)} \in Small(m) /\ s \ {Chosen(s)} \in Small(m + 1)
    <3>1. Chosen(s) \in s
      BY <2>2 DEF Chosen
    <3> QED BY <3>1, SubsetWithout
  <2>3. \A s \in Small(m) : s \in Small(m + 1)
    BY <1>1
  <2> HIDE DEF Small
  <2>4. \A s \in Small(m) : g[s] = f[s]
    BY <2>1, <2>3
  <2>5. ASSUME NEW s \in Small(m + 1) PROVE g[s] = Extend(op, g, fun, s)
    <3>1. CASE s = {}
      BY <3>1 DEF Extend
    <3>2. CASE s # {}
      <4>1. g[s \ {Chosen(s)}] = f[s \ {Chosen(s)}]
        BY <2>2, <2>4, <3>2
      <4> QED BY <3>2, <4>1 DEF Extend
    <3> QED BY <3>1, <3>2
  <2>6. g = [s \in Small(m + 1) |-> Extend(op, g, fun, s)]
    BY <2>5
  <2> QED BY <2>6
<1>4. \A m \in Nat : Has(m)
  <2> HIDE DEF Has
  <2>1. SUFFICES ASSUME lacking # {} PROVE FALSE
    OBVIOUS
  <2>2. PICK m \in lacking : \A k \in lacking : m <= k
    BY <2>1, LeastMember
  <2>3. m - 1 \in Nat /\ m - 1 \notin lacking
    BY <1>2, <2>2
  <2>4. Has((m - 1) + 1)
    BY <1>3, <2>3
  <2> QED BY <2>4
<1>5. Cardinality(S) \in Nat /\ Small(Cardinality(S)) = SUBSET S
  BY FS_CardinalityType, FS_Subset
<1>6. PICK f : f = [s \in Small(Cardinality(S)) |-> Extend(op, f, fun, s)]
  BY <1>4, <1>5
<1> QED BY <1>5, <1>6 DEF IsIter

\* A fold over S is the last of the folds over its subsets, each of which is a
\* term and the fold without it.
Unfolds(op, iter, fun, S) ==
    /\ iter \in [SUBSET S -> Int]
    /\ iter[{}] = Unit(op)
    /\ \A s \in SUBSET S : s # {} =>
          /\ Chosen(s) \in s
          /\ iter[s] = Combine(op, fun[Chosen(s)], iter[s \ {Chosen(s)}])

LEMMA IterUnfolds ==
    ASSUME NEW S, IsFiniteSet(S), NEW fun \in [S -> Int], NEW op,
           NEW iter, IsIter(op, iter, fun, S)
    PROVE  Unfolds(op, iter, fun, S)
<1>1. iter = [s \in SUBSET S |-> Extend(op, iter, fun, s)]
  BY DEF IsIter
<1>2. \A s \in SUBSET S : iter[s] = Extend(op, iter, fun, s)
  BY <1>1
<1>3. iter[{}] = Unit(op)
  BY <1>2 DEF Extend
<1>4. ASSUME NEW s \in SUBSET S, s # {}
      PROVE  /\ Chosen(s) \in s
             /\ iter[s] = Combine(op, fun[Chosen(s)], iter[s \ {Chosen(s)}])
  <2>1. Chosen(s) \in s
    BY <1>4 DEF Chosen
  <2> QED BY <1>2, <1>4, <2>1 DEF Extend
<1>5. ASSUME NEW s \in SUBSET S PROVE iter[s] \in Int
  <2> DEFINE bad == {r \in SUBSET S : iter[r] \notin Int}
  <2>1. SUFFICES ASSUME bad # {} PROVE FALSE
    OBVIOUS
  <2>2. PICK r \in bad : \A q \in bad : Cardinality(r) <= Cardinality(q)
    BY <2>1, SmallestBadSubset
  <2>3. r # {}
    <3>1. iter[{}] \in Int
      BY <1>3 DEF Unit
    <3> QED BY <2>2, <3>1
  <2>4. PICK x \in r : iter[r] = Combine(op, fun[x], iter[r \ {x}])
    BY <1>4, <2>2, <2>3
  <2>5. r \ {x} \in SUBSET S /\ r \ {x} \notin bad
    BY <2>2, SubsetWithout
  <2>6. fun[x] \in Int /\ iter[r \ {x}] \in Int
    BY <2>2, <2>5
  <2>7. Combine(op, fun[x], iter[r \ {x}]) \in Int
    BY <2>6 DEF Combine
  <2> QED BY <2>2, <2>4, <2>7
<1>6. iter \in [SUBSET S -> Int]
  BY <1>1, <1>5
<1> QED BY <1>3, <1>4, <1>6 DEF Unfolds

LEMMA SumUnfolds ==
    ASSUME NEW S, IsFiniteSet(S), NEW fun \in [S -> Int]
    PROVE  \E iter : Unfolds("sum", iter, fun, S) /\ SumFunctionOnSet(fun, S) = iter[S]
<1> DEFINE Is(iter) == iter = [s \in SUBSET S |->
                                IF s = {} THEN 0
                                ELSE fun[Chosen(s)] + iter[s \ {Chosen(s)}]]
           sums == CHOOSE iter : Is(iter)
<1>1. SumFunctionOnSet(fun, S) = sums[S]
  BY DEF SumFunctionOnSet, FoldFunctionOnSet, MapThenFoldSet, Chosen
<1>2. \A iter : Is(iter) <=> IsIter("sum", iter, fun, S)
  BY DEF IsIter, Extend, Unit, Combine
<1> HIDE DEF Is
<1>3. Is(sums)
  BY <1>2, IterExists
<1> QED BY <1>1, <1>2, <1>3, IterUnfolds

Multiplied(fun, S) == FoldFunctionOnSet(LAMBDA a, b : a * b, 1, fun, S)

LEMMA ProductUnfolds ==
    ASSUME NEW S, IsFiniteSet(S), NEW fun \in [S -> Int]
    PROVE  \E iter : Unfolds("product", iter, fun, S) /\ Multiplied(fun, S) = iter[S]
<1> DEFINE Is(iter) == iter = [s \in SUBSET S |->
                                IF s = {} THEN 1
                                ELSE fun[Chosen(s)] * iter[s \ {Chosen(s)}]]
           products == CHOOSE iter : Is(iter)
<1>1. Multiplied(fun, S) = products[S]
  BY DEF Multiplied, FoldFunctionOnSet, MapThenFoldSet, Chosen
<1>2. \A iter : Is(iter) <=> IsIter("product", iter, fun, S)
  BY DEF IsIter, Extend, Unit, Combine
<1> HIDE DEF Is
<1>3. Is(products)
  BY <1>2, IterExists
<1> QED BY <1>1, <1>2, <1>3, IterUnfolds

\* A sum of terms that are not negative is at least any of them.
LEMMA SumIsAtLeast ==
    ASSUME NEW S, IsFiniteSet(S), NEW fun \in [S -> Nat]
    PROVE  /\ SumFunctionOnSet(fun, S) \in Nat
           /\ \A b \in S : fun[b] <= SumFunctionOnSet(fun, S)
<1>0. fun \in [S -> Int] /\ \A b \in S : fun[b] \in Nat
  OBVIOUS
<1>1. PICK iter : Unfolds("sum", iter, fun, S) /\ SumFunctionOnSet(fun, S) = iter[S]
  BY <1>0, SumUnfolds
<1> DEFINE bad == {s \in SUBSET S : ~(iter[s] >= 0 /\ \A b \in s : fun[b] <= iter[s])}
<1>2. SUFFICES ASSUME bad # {} PROVE FALSE
  BY <1>1 DEF Unfolds, Unit, Combine
<1>3. PICK s \in bad : \A r \in bad : Cardinality(s) <= Cardinality(r)
  BY <1>2, SmallestBadSubset
<1>4. s # {}
  <2>1. {} \notin bad
    BY <1>1 DEF Unfolds, Unit, Combine
  <2> QED BY <1>3, <2>1
<1>5. PICK x \in s : iter[s] = fun[x] + iter[s \ {x}]
  BY <1>1, <1>3, <1>4 DEF Unfolds, Unit, Combine
<1>6. s \ {x} \in SUBSET S /\ s \ {x} \notin bad
  BY <1>3, SubsetWithout
<1>7. iter[s \ {x}] \in Nat /\ \A b \in s \ {x} : fun[b] <= iter[s \ {x}]
  <2>1. iter[s \ {x}] \in Int
    BY <1>1, <1>6 DEF Unfolds, Unit, Combine
  <2> QED BY <1>6, <2>1
<1>8. \A b \in s : fun[b] \in Nat
  BY <1>0
<1>9. iter[s] >= 0 /\ \A b \in s : fun[b] <= iter[s]
  <2>1. iter[s] >= 0 /\ fun[x] <= iter[s]
    BY <1>5, <1>7, <1>8
  <2>2. ASSUME NEW b \in s \ {x} PROVE fun[b] <= iter[s]
    BY <1>5, <1>7, <1>8
  <2> QED BY <2>1, <2>2
<1> QED BY <1>3, <1>9

\* Counting the members of D by what f makes of them loses none.
CountsOf(f, D, S) == [b \in S |-> Cardinality({i \in D : f[i] = b})]

LEMMA SumOfCounts ==
    ASSUME NEW D, IsFiniteSet(D), NEW S, IsFiniteSet(S), NEW f \in [D -> S]
    PROVE  /\ CountsOf(f, D, S) \in [S -> Nat]
           /\ SumFunctionOnSet(CountsOf(f, D, S), S) = Cardinality(D)
<1> DEFINE fun == CountsOf(f, D, S)
           In(s) == {i \in D : f[i] \in s}
<1>1. \A s : IsFiniteSet(In(s)) /\ Cardinality(In(s)) \in Nat
  BY FS_Subset, FS_CardinalityType
<1>2. \A b \in S : fun[b] = Cardinality(In({b}))
  <2>1. \A b : {i \in D : f[i] = b} = In({b})
    OBVIOUS
  <2> HIDE DEF In
  <2> QED BY <2>1 DEF CountsOf
<1>0. DOMAIN fun = S /\ fun = [b \in S |-> fun[b]]
  BY DEF CountsOf
<1> HIDE DEF fun
<1>3. fun \in [S -> Nat]
  <2>1. \A b \in S : fun[b] \in Nat
    <3> HIDE DEF In
    <3> QED BY <1>1, <1>2
  <2> QED BY <2>1, <1>0
<1>4. PICK iter : Unfolds("sum", iter, fun, S) /\ SumFunctionOnSet(fun, S) = iter[S]
  <2>1. fun \in [S -> Int]
    BY <1>3
  <2> QED BY <2>1, SumUnfolds
<1> DEFINE bad == {s \in SUBSET S : iter[s] # Cardinality(In(s))}
<1>5. bad = {}
  <2>1. SUFFICES ASSUME bad # {} PROVE FALSE
    OBVIOUS
  <2>2. PICK s \in bad : \A r \in bad : Cardinality(s) <= Cardinality(r)
    <3>1. bad \in SUBSET (SUBSET S)
      OBVIOUS
    <3> HIDE DEF bad
    <3> QED BY <2>1, <3>1, SmallestBadSubset
  <2>3. s # {}
    <3>1. In({}) = {}
      OBVIOUS
    <3>2. {} \notin bad
      BY <1>4, <3>1, FS_EmptySet DEF Unfolds, Unit, Combine
    <3> QED BY <2>2, <3>2
  <2>4. PICK x \in s : iter[s] = fun[x] + iter[s \ {x}]
    BY <1>4, <2>2, <2>3 DEF Unfolds, Unit, Combine
  <2>5. s \ {x} \in SUBSET S /\ s \ {x} \notin bad
    <3>1. s \in SUBSET S
      BY <2>2
    <3>2. s \ {x} \in SUBSET S /\ ~(Cardinality(s) <= Cardinality(s \ {x}))
      BY <3>1, SubsetWithout
    <3> HIDE DEF bad
    <3> QED BY <2>2, <3>2
  <2>6. In(s) = In(s \ {x}) \cup In({x}) /\ In(s \ {x}) \cap In({x}) = {}
    OBVIOUS
  <2> HIDE DEF In
  <2>7. Cardinality(In(s)) = Cardinality(In(s \ {x})) + Cardinality(In({x}))
    <3>1. Cardinality(In(s \ {x}) \cap In({x})) = 0
      BY <2>6, FS_EmptySet
    <3>2. Cardinality(In(s \ {x}) \cup In({x}))
            = Cardinality(In(s \ {x})) + Cardinality(In({x}))
                - Cardinality(In(s \ {x}) \cap In({x}))
      BY <1>1, FS_Union
    <3>3. Cardinality(In(s \ {x})) \in Nat /\ Cardinality(In({x})) \in Nat
      BY <1>1
    <3>4. Cardinality(In(s)) = Cardinality(In(s \ {x}) \cup In({x}))
      BY <2>6
    <3> QED BY <3>1, <3>2, <3>3, <3>4
  <2>8. fun[x] = Cardinality(In({x})) /\ iter[s \ {x}] = Cardinality(In(s \ {x}))
    BY <1>2, <2>2, <2>5
  <2>9. iter[s] = Cardinality(In(s))
    <3>1. Cardinality(In(s \ {x})) \in Nat /\ Cardinality(In({x})) \in Nat
      BY <1>1
    <3> QED BY <2>4, <2>7, <2>8, <3>1
  <2> QED BY <2>2, <2>9
<1>6. In(S) = D
  OBVIOUS
<1> HIDE DEF In
<1> QED BY <1>3, <1>4, <1>5, <1>6 DEF fun

\* A sum of terms that are at least a combination of two others is at least that
\* combination of their sums.
LEMMA SumIsLinear ==
    ASSUME NEW S, IsFiniteSet(S), NEW f \in [S -> Int], NEW g \in [S -> Int],
           NEW h \in [S -> Int], NEW a \in Int, NEW b \in Int,
           \A x \in S : f[x] >= a * g[x] + b * h[x]
    PROVE  /\ SumFunctionOnSet(f, S) \in Int
           /\ SumFunctionOnSet(g, S) \in Int
           /\ SumFunctionOnSet(h, S) \in Int
           /\ SumFunctionOnSet(f, S) >= a * SumFunctionOnSet(g, S) + b * SumFunctionOnSet(h, S)
<1>1. PICK F : Unfolds("sum", F, f, S) /\ SumFunctionOnSet(f, S) = F[S]
  BY SumUnfolds
<1>2. PICK G : Unfolds("sum", G, g, S) /\ SumFunctionOnSet(g, S) = G[S]
  BY SumUnfolds
<1>3. PICK H : Unfolds("sum", H, h, S) /\ SumFunctionOnSet(h, S) = H[S]
  BY SumUnfolds
<1>4. \A s \in SUBSET S : F[s] \in Int /\ G[s] \in Int /\ H[s] \in Int
  BY <1>1, <1>2, <1>3 DEF Unfolds
<1> DEFINE bad == {s \in SUBSET S : ~(F[s] >= a * G[s] + b * H[s])}
<1>5. ASSUME bad # {} PROVE FALSE
  <2>1. PICK s \in bad : \A r \in bad : Cardinality(s) <= Cardinality(r)
    BY <1>5, SmallestBadSubset
  <2>2. s # {}
    <3>1. F[{}] = 0 /\ G[{}] = 0 /\ H[{}] = 0
      BY <1>1, <1>2, <1>3 DEF Unfolds, Unit
    <3>2. {} \notin bad
      BY <3>1
    <3> QED BY <2>1, <3>2
  <2> DEFINE x == Chosen(s)  r == s \ {x}
  <2>3. /\ x \in s
        /\ F[s] = f[x] + F[r] /\ G[s] = g[x] + G[r] /\ H[s] = h[x] + H[r]
    BY <1>1, <1>2, <1>3, <2>1, <2>2 DEF Unfolds, Combine
  <2> HIDE DEF x
  <2>4. r \in SUBSET S /\ r \notin bad
    BY <2>1, <2>3, SubsetWithout
  <2>5. /\ F[r] >= a * G[r] + b * H[r]
        /\ f[x] >= a * g[x] + b * h[x]
    BY <2>1, <2>3, <2>4
  <2>6. /\ F[r] \in Int /\ G[r] \in Int /\ H[r] \in Int
        /\ f[x] \in Int /\ g[x] \in Int /\ h[x] \in Int
    BY <1>4, <2>1, <2>3, <2>4
  <2> HIDE DEF r
  <2>7. /\ a * (g[x] + G[r]) = a * g[x] + a * G[r]
        /\ b * (h[x] + H[r]) = b * h[x] + b * H[r]
    BY <2>6
  <2>8. F[s] >= a * G[s] + b * H[s]
    <3> DEFINE p == a * g[x]  q == a * G[r]  t == b * h[x]  v == b * H[r]
    <3>1. p \in Int /\ q \in Int /\ t \in Int /\ v \in Int
      BY <2>6
    <3>2. a * G[s] = p + q /\ b * H[s] = t + v
      BY <2>3, <2>7
    <3>3. F[r] >= q + v /\ f[x] >= p + t
      BY <2>5
    <3> HIDE DEF p, q, t, v
    <3> QED BY <2>3, <2>6, <3>1, <3>2, <3>3
  <2> QED BY <2>1, <2>8
<1>6. S \in SUBSET S
  OBVIOUS
<1>7. F[S] >= a * G[S] + b * H[S]
  BY <1>5, <1>6
<1> QED BY <1>1, <1>2, <1>3, <1>4, <1>6, <1>7

LEMMA ExactDivision ==
    ASSUME NEW f \in Nat \ {0}, NEW q \in Nat
    PROVE  (f * q) \div f = q
<1> DEFINE a == f * q  d == a \div f  e == a % f
<1>1. a \in Nat
  OBVIOUS
<1>2. d \in Nat /\ e \in 0 .. f - 1 /\ a = f * d + e
  BY <1>1, Division
<1> HIDE DEF d, e
<1>3. d * f <= q * f
  BY <1>2
<1>4. d <= q
  BY <1>2, <1>3, ProductIsCancelled
<1>5. ~(d + 1 <= q)
  <2>1. SUFFICES ASSUME d + 1 <= q PROVE FALSE
    OBVIOUS
  <2>2. (d + 1) * f <= q * f
    BY <1>2, <2>1, ProductIsMonotonic
  <2> QED BY <1>2, <2>2
<1>6. d = q
  BY <1>2, <1>4, <1>5
<1> QED BY <1>6 DEF d

\* A product of positive numbers is positive, and each divides it.
LEMMA ProductOfFactors ==
    ASSUME NEW S, IsFiniteSet(S), NEW fun \in [S -> Nat \ {0}]
    PROVE  /\ Multiplied(fun, S) \in Nat \ {0}
           /\ \A x \in S : /\ Multiplied(fun, S) \div fun[x] \in Nat \ {0}
                           /\ fun[x] * (Multiplied(fun, S) \div fun[x]) = Multiplied(fun, S)
<1>1. PICK iter : Unfolds("product", iter, fun, S) /\ Multiplied(fun, S) = iter[S]
  <2>1. fun \in [S -> Int]
    OBVIOUS
  <2> QED BY <2>1, ProductUnfolds
<1> DEFINE Good(s) == /\ iter[s] \in Nat \ {0}
                      /\ \A x \in s : \E q \in Nat \ {0} : iter[s] = fun[x] * q
           bad == {s \in SUBSET S : ~Good(s)}
<1>2. ASSUME bad # {} PROVE FALSE
  <2>1. PICK s \in bad : \A r \in bad : Cardinality(s) <= Cardinality(r)
    <3>1. bad \in SUBSET (SUBSET S)
      OBVIOUS
    <3> HIDE DEF bad
    <3> QED BY <1>2, <3>1, SmallestBadSubset
  <2>2. s # {}
    <3>1. iter[{}] = 1
      BY <1>1 DEF Unfolds, Unit
    <3>2. {} \notin bad
      BY <3>1
    <3> QED BY <2>1, <3>2
  <2> DEFINE x == Chosen(s)  r == s \ {x}
  <2>3. x \in s /\ iter[s] = fun[x] * iter[r]
    BY <1>1, <2>1, <2>2 DEF Unfolds, Combine
  <2> HIDE DEF x
  <2>4. r \in SUBSET S /\ r \notin bad
    <3>1. s \in SUBSET S
      BY <2>1
    <3>2. r \in SUBSET S /\ ~(Cardinality(s) <= Cardinality(r))
      BY <2>3, <3>1, SubsetWithout
    <3> HIDE DEF bad
    <3> QED BY <2>1, <3>2
  <2>5. Good(r)
    BY <2>4
  <2>6. \A y \in s : fun[y] \in Nat \ {0}
    BY <2>1
  <2>7. iter[s] \in Nat \ {0}
    BY <2>3, <2>5, <2>6
  <2>8. ASSUME NEW y \in s PROVE \E q \in Nat \ {0} : iter[s] = fun[y] * q
    <3>1. CASE y = x
      BY <2>3, <2>5, <3>1
    <3>2. CASE y # x
      <4>1. PICK q \in Nat \ {0} : iter[r] = fun[y] * q
        BY <2>5, <3>2
      <4>2. fun[x] * q \in Nat \ {0} /\ fun[x] * (fun[y] * q) = fun[y] * (fun[x] * q)
        BY <2>3, <2>6
      <4> QED BY <2>3, <4>1, <4>2
    <3> QED BY <3>1, <3>2
  <2> QED BY <2>1, <2>7, <2>8
<1>3. Good(S)
  BY <1>2
<1>4. ASSUME NEW x \in S
      PROVE  /\ iter[S] \div fun[x] \in Nat \ {0}
             /\ fun[x] * (iter[S] \div fun[x]) = iter[S]
  <2>1. PICK q \in Nat \ {0} : iter[S] = fun[x] * q
    BY <1>3
  <2>2. iter[S] \div fun[x] = q
    BY <2>1, ExactDivision
  <2> QED BY <2>1, <2>2
<1> QED BY <1>1, <1>3, <1>4
===============================================================================
