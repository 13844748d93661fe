---------------------------- MODULE SortingProofs ----------------------------
(***************************************************************************)
(* Facts about the stable sort of Sorting, and about the sums of the       *)
(* community modules: a sum of integers is the difference of two numbers   *)
(* of units.                                                               *)
(***************************************************************************)
EXTENDS Sorting, Functions, FiniteSetTheorems, WellFoundedInduction, TLAPS

\* As many numbers as the last of them says.
LEMMA CountTo ==
    ASSUME NEW n \in Nat
    PROVE  IsFiniteSet(1 .. n) /\ Cardinality(1 .. n) = n
<1>1. 1 \in Int /\ n \in Int
  OBVIOUS
<1>2. IsFiniteSet(1 .. n) /\ Cardinality(1 .. n) = IF 1 > n THEN 0 ELSE n - 1 + 1
  BY <1>1, FS_Interval
<1> QED BY <1>2

\* What can be sorted: finitely many positions with numbers for keys.
Sortable(I, key) == IsFiniteSet(I) /\ I \subseteq Int /\ key \in [I -> Int]

LEMMA EarlierOrders ==
    ASSUME NEW I, NEW key, Sortable(I, key)
    PROVE  /\ \A i, j \in I : i # j => Earlier(key, i, j) \/ Earlier(key, j, i)
           /\ \A i, j \in I : ~(Earlier(key, i, j) /\ Earlier(key, j, i))
           /\ \A i \in I : ~Earlier(key, i, i)
           /\ \A i, j, k \in I : Earlier(key, i, j) /\ Earlier(key, j, k) => Earlier(key, i, k)
BY DEF Sortable, Earlier

\* Whoever comes earlier has fewer ahead of it.
LEMMA FewerAhead ==
    ASSUME NEW I, NEW key, Sortable(I, key)
    PROVE  /\ \A i \in I : /\ Cardinality(Ahead(I, key, i)) \in 0 .. Cardinality(I) - 1
                           /\ IsFiniteSet(Ahead(I, key, i))
           /\ \A i, j \in I : Earlier(key, i, j) =>
                  Cardinality(Ahead(I, key, i)) < Cardinality(Ahead(I, key, j))
<1>1. IsFiniteSet(I) /\ Cardinality(I) \in Nat
  BY FS_CardinalityType DEF Sortable
<1>2. ASSUME NEW i \in I
      PROVE  /\ Cardinality(Ahead(I, key, i)) \in 0 .. Cardinality(I) - 1
             /\ IsFiniteSet(Ahead(I, key, i))
  <2>1. Ahead(I, key, i) \in SUBSET (I \ {i})
    BY EarlierOrders DEF Ahead
  <2>2. IsFiniteSet(I \ {i}) /\ Cardinality(I \ {i}) = Cardinality(I) - 1
    BY <1>1, FS_RemoveElement
  <2>3. IsFiniteSet(Ahead(I, key, i)) /\ Cardinality(Ahead(I, key, i)) <= Cardinality(I \ {i})
    BY <2>1, <2>2, FS_Subset
  <2>4. Cardinality(Ahead(I, key, i)) \in Nat
    BY <2>3, FS_CardinalityType
  <2> QED BY <1>1, <2>2, <2>3, <2>4
<1>3. ASSUME NEW i \in I, NEW j \in I, Earlier(key, i, j)
      PROVE  Cardinality(Ahead(I, key, i)) < Cardinality(Ahead(I, key, j))
  <2>1. Ahead(I, key, i) \in SUBSET Ahead(I, key, j)
    BY <1>3, EarlierOrders DEF Ahead
  <2>2. i \in Ahead(I, key, j) /\ i \notin Ahead(I, key, i)
    BY <1>3, EarlierOrders DEF Ahead
  <2>3. IsFiniteSet(Ahead(I, key, j))
    BY <1>2
  <2>4. /\ Cardinality(Ahead(I, key, i)) <= Cardinality(Ahead(I, key, j))
        /\ Cardinality(Ahead(I, key, i)) # Cardinality(Ahead(I, key, j))
    BY <2>1, <2>2, <2>3, FS_Subset
  <2>5. Cardinality(Ahead(I, key, i)) \in Nat /\ Cardinality(Ahead(I, key, j)) \in Nat
    BY <1>2
  <2> QED BY <2>4, <2>5
<1> QED BY <1>2, <1>3

\* The place of a position in the sorted sequence.
RankOf(I, key) == [i \in I |-> Cardinality(Ahead(I, key, i)) + 1]

LEMMA RankIsBijective ==
    ASSUME NEW I, NEW key, Sortable(I, key)
    PROVE  /\ Cardinality(I) \in Nat
           /\ RankOf(I, key) \in [I -> 1 .. Cardinality(I)]
           /\ \A i, j \in I : RankOf(I, key)[i] = RankOf(I, key)[j] => i = j
           /\ \A k \in 1 .. Cardinality(I) : \E i \in I : RankOf(I, key)[i] = k
<1> DEFINE n == Cardinality(I)
           r == RankOf(I, key)
<1>1. IsFiniteSet(I) /\ n \in Nat
  BY FS_CardinalityType DEF Sortable
<1>2. r \in [I -> 1 .. n]
  <2>1. \A i \in I : Cardinality(Ahead(I, key, i)) \in 0 .. n - 1
    BY FewerAhead
  <2> HIDE DEF n
  <2>2. \A i \in I : Cardinality(Ahead(I, key, i)) + 1 \in 1 .. n
    BY <1>1, <2>1
  <2> QED BY <2>2 DEF RankOf
<1>3. \A i, j \in I : r[i] = r[j] => i = j
  <2> SUFFICES ASSUME NEW i \in I, NEW j \in I, i # j PROVE r[i] # r[j]
    OBVIOUS
  <2>1. Cardinality(Ahead(I, key, i)) \in Int /\ Cardinality(Ahead(I, key, j)) \in Int
    BY FewerAhead
  <2>2. Cardinality(Ahead(I, key, i)) # Cardinality(Ahead(I, key, j))
    <3>1. Earlier(key, i, j) \/ Earlier(key, j, i)
      BY EarlierOrders
    <3>2. CASE Earlier(key, i, j)
      <4>1. Cardinality(Ahead(I, key, i)) < Cardinality(Ahead(I, key, j))
        BY <3>2, FewerAhead
      <4> QED BY <4>1, <2>1
    <3>3. CASE Earlier(key, j, i)
      <4>1. Cardinality(Ahead(I, key, j)) < Cardinality(Ahead(I, key, i))
        BY <3>3, FewerAhead
      <4> QED BY <4>1, <2>1
    <3> QED BY <3>1, <3>2, <3>3
  <2>3. r[i] = Cardinality(Ahead(I, key, i)) + 1 /\ r[j] = Cardinality(Ahead(I, key, j)) + 1
    BY DEF RankOf
  <2> HIDE DEF r
  <2> QED BY <2>1, <2>2, <2>3
<1>4. r \in Surjection(I, 1 .. n)
  <2>1. IsFiniteSet(1 .. n) /\ Cardinality(1 .. n) = n
    BY <1>1, CountTo
  <2> HIDE DEF r
  <2>2. r \in Injection(I, 1 .. n)
    BY <1>2, <1>3 DEF Injection, IsInjective
  <2> QED BY <2>1, <2>2, FS_Injection
<1>5. \A k \in 1 .. n : \E i \in I : r[i] = k
  <2> HIDE DEF n, r
  <2> QED BY <1>4 DEF Surjection
<1> QED BY <1>1, <1>2, <1>3, <1>5

\* A stable sort arranges every position, once, and in the order of the keys.
LEMMA Sorted ==
    ASSUME NEW I, NEW key, Sortable(I, key)
    PROVE  /\ Cardinality(I) \in Nat
           /\ StableSort(I, key) \in [1 .. Cardinality(I) -> I]
           /\ \A k \in 1 .. Cardinality(I) : RankOf(I, key)[StableSort(I, key)[k]] = k
           /\ \A i \in I : StableSort(I, key)[RankOf(I, key)[i]] = i
<1> DEFINE n == Cardinality(I)
           r == RankOf(I, key)
           s == StableSort(I, key)
<1>1. n \in Nat /\ r \in [I -> 1 .. n]
  BY RankIsBijective
<1>2. \A k \in 1 .. n : s[k] \in I /\ r[s[k]] = k
  <2> SUFFICES ASSUME NEW k \in 1 .. n PROVE s[k] \in I /\ r[s[k]] = k
    OBVIOUS
  <2>1. PICK i \in I : r[i] = k
    BY RankIsBijective
  <2>2. \A x \in I : r[x] = k <=> Cardinality(Ahead(I, key, x)) = k - 1
    <3> SUFFICES ASSUME NEW x \in I PROVE r[x] = k <=> Cardinality(Ahead(I, key, x)) = k - 1
      OBVIOUS
    <3>1. r[x] = Cardinality(Ahead(I, key, x)) + 1
      BY DEF RankOf
    <3>2. Cardinality(Ahead(I, key, x)) \in Int
      BY FewerAhead
    <3> HIDE DEF r, n
    <3>3. k \in Int
      BY <1>1
    <3> QED BY <3>1, <3>2, <3>3
  <2>3. s[k] = CHOOSE x \in I : Cardinality(Ahead(I, key, x)) = k - 1
    BY DEF StableSort
  <2> HIDE DEF r, s, n
  <2>4. s[k] \in I /\ Cardinality(Ahead(I, key, s[k])) = k - 1
    BY <2>1, <2>2, <2>3
  <2> QED BY <2>2, <2>4
<1>3. s \in [1 .. n -> I]
  <2>1. DOMAIN s = 1 .. n /\ s = [k \in 1 .. n |-> s[k]]
    BY DEF StableSort
  <2> HIDE DEF s, n, r
  <2> QED BY <1>2, <2>1
<1>4. \A i \in I : s[r[i]] = i
  <2> SUFFICES ASSUME NEW i \in I PROVE s[r[i]] = i
    OBVIOUS
  <2> HIDE DEF s, n, r
  <2>1. r[i] \in 1 .. n
    BY <1>1
  <2>2. s[r[i]] \in I /\ r[s[r[i]]] = r[i]
    BY <1>2, <2>1
  <2> QED BY <2>2, RankIsBijective DEF r
<1> QED BY <1>1, <1>2, <1>3, <1>4

\* The keys of a sorted sequence do not fall.
LEMMA SortedAscends ==
    ASSUME NEW I, NEW key, Sortable(I, key), NEW a \in 1 .. Cardinality(I), NEW b \in 1 .. Cardinality(I)
    PROVE  a < b <=> Earlier(key, StableSort(I, key)[a], StableSort(I, key)[b])
<1> DEFINE s == StableSort(I, key)
           x == s[a]
           y == s[b]
<1>1. Cardinality(I) \in Nat /\ x \in I /\ y \in I /\ RankOf(I, key)[x] = a /\ RankOf(I, key)[y] = b
  BY Sorted
<1> HIDE DEF s, x, y
<1>2. a = Cardinality(Ahead(I, key, x)) + 1 /\ b = Cardinality(Ahead(I, key, y)) + 1
  BY <1>1 DEF RankOf
<1>3. Cardinality(Ahead(I, key, x)) \in Int /\ Cardinality(Ahead(I, key, y)) \in Int
  BY <1>1, FewerAhead
<1>4. Earlier(key, x, y) => a < b
  <2>1. Earlier(key, x, y) => Cardinality(Ahead(I, key, x)) < Cardinality(Ahead(I, key, y))
    BY <1>1, FewerAhead
  <2> QED BY <1>2, <1>3, <2>1
<1>5. Earlier(key, y, x) => b < a
  <2>1. Earlier(key, y, x) => Cardinality(Ahead(I, key, y)) < Cardinality(Ahead(I, key, x))
    BY <1>1, FewerAhead
  <2> QED BY <1>2, <1>3, <2>1
<1>6. a \in Int /\ b \in Int
  BY <1>1
<1>7. x # y => Earlier(key, x, y) \/ Earlier(key, y, x)
  BY <1>1, EarlierOrders
<1>8. x = y => a = b
  BY <1>2
<1>9. a < b <=> Earlier(key, x, y)
  BY <1>4, <1>5, <1>6, <1>7, <1>8
<1> QED BY <1>9 DEF x, y, s

\* A numbering 1 .. n of the positions that follows the order is their rank.
LEMMA NumberingIsRank ==
    ASSUME NEW I, NEW key, Sortable(I, key), NEW n \in Nat, NEW g \in [I -> 1 .. n],
           \A m \in 1 .. n : \E i \in I : g[i] = m,
           \A i, j \in I : Earlier(key, i, j) => g[i] < g[j]
    PROVE  /\ Cardinality(I) = n
           /\ \A k \in 1 .. n : g[StableSort(I, key)[k]] = k
<1> DEFINE s == StableSort(I, key)
<1>1. \A i, j \in I : g[i] = g[j] => i = j
  <2> SUFFICES ASSUME NEW i \in I, NEW j \in I, i # j PROVE g[i] # g[j]
    OBVIOUS
  <2>1. g[i] < g[j] \/ g[j] < g[i]
    BY EarlierOrders
  <2>2. g[i] \in Int /\ g[j] \in Int
    OBVIOUS
  <2> QED BY <2>1, <2>2
<1>2. IsFiniteSet(1 .. n) /\ Cardinality(1 .. n) = n
  BY CountTo
<1>3. Cardinality(I) = n
  <2>1. g \in Surjection(I, 1 .. n)
    BY DEF Surjection
  <2>2. g \in Injection(I, 1 .. n)
    BY <1>1 DEF Injection, IsInjective
  <2>3. IsFiniteSet(I)
    BY DEF Sortable
  <2>4. Cardinality(1 .. n) = Cardinality(I)
    BY <2>1, <2>2, <2>3, FS_Surjection
  <2> QED BY <1>2, <2>4
<1>4. ASSUME NEW k \in 1 .. n
      PROVE  g[s[k]] = k
  <2>1. PICK i \in I : i = s[k] /\ RankOf(I, key)[i] = k
    BY <1>3, Sorted
  <2>2. k = Cardinality(Ahead(I, key, i)) + 1 /\ g[i] \in 1 .. n
    BY <2>1 DEF RankOf
  <2> DEFINE A == Ahead(I, key, i)
             N == 1 .. g[i] - 1
             h == [j \in A |-> g[j]]
  <2>3. \A j \in A : j \in I /\ g[j] \in N
    <3> SUFFICES ASSUME NEW j \in A PROVE j \in I /\ g[j] \in N
      OBVIOUS
    <3>1. j \in I /\ Earlier(key, j, i)
      BY DEF Ahead
    <3>2. g[j] < g[i] /\ g[j] \in 1 .. n
      BY <3>1
    <3> QED BY <2>2, <3>1, <3>2
  <2>4. \A m \in N : \E j \in A : g[j] = m
    <3> SUFFICES ASSUME NEW m \in N PROVE \E j \in A : g[j] = m
      OBVIOUS
    <3>1. m \in 1 .. n /\ m < g[i] /\ m \in Int /\ g[i] \in Int
      BY <2>2
    <3>2. PICK j \in I : g[j] = m
      BY <3>1
    <3>3. ~Earlier(key, i, j) /\ i # j
      BY <3>1, <3>2
    <3>4. Earlier(key, j, i)
      BY <3>3, EarlierOrders
    <3> QED BY <3>2, <3>4 DEF Ahead
  <2>5. IsFiniteSet(A) /\ Cardinality(A) \in Int
    BY FewerAhead
  <2>6. IsFiniteSet(N) /\ Cardinality(N) = g[i] - 1
    <3>1. PICK top \in Nat : top = g[i] - 1
      BY <2>2
    <3> QED BY <3>1, CountTo
  <2> HIDE DEF A, N
  <2>7. h \in Surjection(A, N) /\ h \in Injection(A, N)
    <3>1. h \in [A -> N]
      BY <2>3
    <3>2. \A x, y \in A : h[x] = h[y] => x = y
      BY <1>1, <2>3
    <3>3. \A m \in N : \E j \in A : h[j] = m
      BY <2>4
    <3> HIDE DEF h
    <3> QED BY <3>1, <3>2, <3>3 DEF Surjection, Injection, IsInjective
  <2>8. Cardinality(N) = Cardinality(A)
    <3> HIDE DEF h
    <3> QED BY <2>5, <2>7, FS_Surjection
  <2>9. g[i] = k
    BY <2>2, <2>5, <2>6, <2>8 DEF A
  <2> QED BY <2>1, <2>9
<1> QED BY <1>3, <1>4

-----------------------------------------------------------------------------
(* Sums. *)

\* The sum of natural numbers, unit by unit.
Units(f, S) == UNION {{x} \X (1 .. f[x]) : x \in S}

\* Finitely many natural numbers.
Summable(f, S) == IsFiniteSet(S) /\ \A x \in S : f[x] \in Nat

LEMMA UnitsOfOne ==
    ASSUME NEW x, NEW n \in Nat
    PROVE  IsFiniteSet({x} \X (1 .. n)) /\ Cardinality({x} \X (1 .. n)) = n
<1>1. IsFiniteSet({x}) /\ Cardinality({x}) = 1
  BY FS_Singleton
<1>2. IsFiniteSet(1 .. n) /\ Cardinality(1 .. n) = n
  BY CountTo
<1>3. IsFiniteSet({x} \X (1 .. n)) /\ Cardinality({x} \X (1 .. n)) = Cardinality({x}) * Cardinality(1 .. n)
  BY <1>1, <1>2, FS_Product
<1>4. Cardinality({x} \X (1 .. n)) = 1 * n
  BY <1>1, <1>2, <1>3
<1> QED BY <1>3, <1>4

\* One more element brings its own units.
LEMMA UnitsGrow ==
    ASSUME NEW f, NEW T, IsFiniteSet(Units(f, T)), NEW x, x \notin T, f[x] \in Nat
    PROVE  /\ IsFiniteSet(Units(f, T \cup {x}))
           /\ Cardinality(Units(f, T \cup {x})) = f[x] + Cardinality(Units(f, T))
<1> DEFINE A == Units(f, T)
           B == {x} \X (1 .. f[x])
<1>1. IsFiniteSet(B) /\ Cardinality(B) = f[x]
  BY UnitsOfOne
<1>2. Units(f, T \cup {x}) = A \cup B
  BY DEF Units
<1>3. A \cap B = {}
  BY DEF Units
<1>4. IsFiniteSet(A) /\ Cardinality(A) \in Nat
  BY FS_CardinalityType
<1> HIDE DEF A, B
<1>5. IsFiniteSet(A \cup B) /\ Cardinality(A \cup B) = Cardinality(A) + Cardinality(B) - Cardinality(A \cap B)
  BY <1>1, <1>4, FS_Union
<1>6. Cardinality(A \cap B) = 0
  BY <1>3, FS_EmptySet
<1>7. Cardinality(A \cup B) = f[x] + Cardinality(A)
  BY <1>1, <1>4, <1>5, <1>6
<1> QED BY <1>2, <1>5, <1>7 DEF A

\* A smallest counterexample among the subsets of a finite set.
LEMMA SmallestSubset ==
    ASSUME NEW S, IsFiniteSet(S), NEW W, W \subseteq SUBSET S, W # {}
    PROVE  \E T \in W : \A U \in W : U \subseteq T => U = T
<1>1. IsWellFoundedOn(StrictSubsetOrdering(S), FiniteSubsetsOf(S))
  BY FS_StrictSubsetOrderingWellFounded
<1>2. W \subseteq FiniteSubsetsOf(S)
  BY FS_Subset DEF FiniteSubsetsOf
<1>3. PICK T \in W : \A U \in W : ~(<<U, T>> \in StrictSubsetOrdering(S))
  BY <1>1, <1>2, WFMin
<1> SUFFICES ASSUME NEW U \in W, U \subseteq T PROVE U = T
  BY <1>3
<1>4. U \in SUBSET S /\ T \in SUBSET S
  OBVIOUS
<1> QED BY <1>3, <1>4 DEF StrictSubsetOrdering

LEMMA UnitsFinite ==
    ASSUME NEW f, NEW S, Summable(f, S)
    PROVE  IsFiniteSet(Units(f, S))
<1>1. IsFiniteSet({{x} \X (1 .. f[x]) : x \in S})
  <2> DEFINE F == {{x} \X (1 .. f[x]) : x \in S}
             g == [x \in S |-> {x} \X (1 .. f[x])]
  <2>1. g \in [S -> F] /\ \A t \in F : \E x \in S : g[x] = t
    OBVIOUS
  <2> HIDE DEF g, F
  <2>2. g \in Surjection(S, F)
    BY <2>1 DEF Surjection
  <2>3. IsFiniteSet(F)
    BY <2>2, FS_Surjection DEF Summable
  <2> QED BY <2>3 DEF F
<1>2. \A T \in {{x} \X (1 .. f[x]) : x \in S} : IsFiniteSet(T)
  <2> SUFFICES ASSUME NEW x \in S PROVE IsFiniteSet({x} \X (1 .. f[x]))
    OBVIOUS
  <2> QED BY UnitsOfOne DEF Summable
<1> HIDE DEF Units
<1> QED BY <1>1, <1>2, FS_UNION DEF Units

\* What the recursion of a sum over S must satisfy.
Sums(f, S, it) ==
    it = [s \in SUBSET S |-> IF s = {} THEN 0 ELSE f[CHOOSE y \in s : TRUE] + it[s \ {CHOOSE y \in s : TRUE}]]

LEMMA SumUnfolds ==
    ASSUME NEW f, NEW S
    PROVE  SumFunctionOnSet(f, S) = (CHOOSE it : Sums(f, S, it))[S]
BY Zenon DEF SumFunctionOnSet, FoldFunctionOnSet, MapThenFoldSet, Sums

Obeys(f, S, w) ==
    /\ w = [s \in SUBSET S |-> w[s]] /\ w[{}] = 0
    /\ \A s \in SUBSET S : s # {} => w[s] = f[CHOOSE y \in s : TRUE] + w[s \ {CHOOSE y \in s : TRUE}]

\* What obeys the recursion of a sum on all subsets is the sum.
LEMMA SumIsTheOne ==
    ASSUME NEW f, NEW S, IsFiniteSet(S), NEW w, Obeys(f, S, w)
    PROVE  SumFunctionOnSet(f, S) = w[S]
<1> DEFINE of(s) == CHOOSE y \in s : TRUE
<1>1. \A s : s # {} => of(s) \in s
  OBVIOUS
<1>2. /\ \A s \in SUBSET S : s # {} => w[s] = f[of(s)] + w[s \ {of(s)}]
      /\ w = [s \in SUBSET S |-> w[s]] /\ w[{}] = 0
  BY DEF Obeys
<1> HIDE DEF of
<1>3. Sums(f, S, w)
  <2>1. \A s \in SUBSET S : w[s] = IF s = {} THEN 0 ELSE f[of(s)] + w[s \ {of(s)}]
    BY <1>2
  <2>2. w = [s \in SUBSET S |-> IF s = {} THEN 0 ELSE f[of(s)] + w[s \ {of(s)}]]
    BY <1>2, <2>1
  <2> QED BY <2>2 DEF Sums, of
<1>4. PICK v : v = CHOOSE it : Sums(f, S, it)
  OBVIOUS
<1>5. Sums(f, S, v)
  BY <1>3, <1>4
<1>6. \A s \in SUBSET S : v[s] = IF s = {} THEN 0 ELSE f[of(s)] + v[s \ {of(s)}]
  BY <1>5 DEF Sums, of
<1> DEFINE W == {s \in SUBSET S : v[s] # w[s]}
<1>7. W = {}
  <2> SUFFICES ASSUME W # {} PROVE FALSE
    OBVIOUS
  <2>1. W \subseteq SUBSET S
    OBVIOUS
  <2> HIDE DEF W
  <2>2. PICK T \in W : \A U \in W : U \subseteq T => U = T
    BY <2>1, SmallestSubset
  <2>3. T \in SUBSET S /\ v[T] # w[T]
    BY <2>2 DEF W
  <2>4. CASE T = {}
    BY <1>2, <1>6, <2>3, <2>4
  <2>5. CASE T # {}
    <3>1. of(T) \in T /\ T \ {of(T)} \in SUBSET S /\ T \ {of(T)} # T
      BY <1>1, <2>3, <2>5
    <3>2. T \ {of(T)} \notin W
      BY <2>2, <3>1
    <3>3. v[T \ {of(T)}] = w[T \ {of(T)}]
      BY <3>1, <3>2 DEF W
    <3>4. v[T] = f[of(T)] + v[T \ {of(T)}]
      BY <1>6, <2>3, <2>5
    <3> QED BY <1>2, <2>3, <2>5, <3>3, <3>4
  <2> QED BY <2>4, <2>5
<1>8. v[S] = w[S]
  BY <1>7
<1> QED BY <1>4, <1>8, SumUnfolds

\* Finitely many integers, and the natural numbers they are the difference of.
Summands(f, S) == IsFiniteSet(S) /\ \A x \in S : f[x] \in Int
Above(f, S) == [x \in S |-> IF f[x] >= 0 THEN f[x] ELSE 0]
Below(f, S) == [x \in S |-> IF f[x] >= 0 THEN 0 ELSE -f[x]]
Net(f, S, T) == Cardinality(Units(Above(f, S), T)) - Cardinality(Units(Below(f, S), T))

LEMMA NetGrows ==
    ASSUME NEW f, NEW S, Summands(f, S), NEW T \in SUBSET S, NEW x \in S, x \notin T
    PROVE  Net(f, S, T \cup {x}) = f[x] + Net(f, S, T) /\ Net(f, S, T) \in Int
<1> DEFINE p == Above(f, S)
           q == Below(f, S)
<1>1. f[x] \in Int /\ IsFiniteSet(T)
  BY FS_Subset DEF Summands
<1>2. p[x] = (IF f[x] >= 0 THEN f[x] ELSE 0) /\ q[x] = (IF f[x] >= 0 THEN 0 ELSE -f[x])
  BY DEF Above, Below
<1>3. p[x] \in Nat /\ q[x] \in Nat /\ p[x] - q[x] = f[x]
  BY <1>1, <1>2
<1>4. Summable(p, T) /\ Summable(q, T)
  <2> SUFFICES ASSUME NEW y \in T PROVE p[y] \in Nat /\ q[y] \in Nat
    BY <1>1 DEF Summable
  <2>1. f[y] \in Int /\ y \in S
    BY DEF Summands
  <2>2. p[y] = (IF f[y] >= 0 THEN f[y] ELSE 0) /\ q[y] = (IF f[y] >= 0 THEN 0 ELSE -f[y])
    BY <2>1 DEF Above, Below
  <2> QED BY <2>1, <2>2
<1> HIDE DEF p, q
<1>5. IsFiniteSet(Units(p, T)) /\ IsFiniteSet(Units(q, T))
  BY <1>4, UnitsFinite
<1>6. Cardinality(Units(p, T)) \in Nat /\ Cardinality(Units(q, T)) \in Nat
  BY <1>5, FS_CardinalityType
<1>7. /\ Cardinality(Units(p, T \cup {x})) = p[x] + Cardinality(Units(p, T))
      /\ Cardinality(Units(q, T \cup {x})) = q[x] + Cardinality(Units(q, T))
  BY <1>3, <1>5, UnitsGrow
<1>8. /\ Net(f, S, T) = Cardinality(Units(p, T)) - Cardinality(Units(q, T))
      /\ Net(f, S, T \cup {x}) = Cardinality(Units(p, T \cup {x})) - Cardinality(Units(q, T \cup {x}))
  BY DEF Net, p, q
<1> QED BY <1>1, <1>3, <1>6, <1>7, <1>8

\* A sum of integers is the difference of its units.
LEMMA SumIsNet ==
    ASSUME NEW f, NEW S, Summands(f, S), NEW T \in SUBSET S
    PROVE  SumFunctionOnSet(f, T) = Net(f, S, T) /\ Net(f, S, T) \in Int
<1> DEFINE w == [s \in SUBSET T |-> Net(f, S, s)]
<1>1. Net(f, S, {}) = 0
  <2>1. \A g : Units(g, {}) = {}
    BY DEF Units
  <2>2. Cardinality({}) = 0
    BY FS_EmptySet
  <2> QED BY <2>1, <2>2 DEF Net
<1>2. ASSUME NEW s \in SUBSET T, NEW y \in s
      PROVE  Net(f, S, s) = f[y] + Net(f, S, s \ {y}) /\ Net(f, S, s) \in Int
  <2>1. s \ {y} \in SUBSET S /\ y \in S /\ y \notin s \ {y} /\ s = (s \ {y}) \cup {y}
    OBVIOUS
  <2>4. PICK R : R = s \ {y}
    OBVIOUS
  <2>5. R \in SUBSET S /\ y \in S /\ y \notin R
    BY <2>1, <2>4
  <2>6. Net(f, S, R \cup {y}) = f[y] + Net(f, S, R) /\ Net(f, S, R) \in Int
    BY <2>5, NetGrows
  <2>7. f[y] \in Int
    BY <2>1 DEF Summands
  <2>8. R \cup {y} = s
    BY <2>1, <2>4
  <2>9. Net(f, S, s) = f[y] + Net(f, S, R) /\ Net(f, S, R) \in Int
    BY <2>6, <2>8
  <2>10. Net(f, S, s) \in Int
    BY <2>7, <2>9
  <2> QED BY <2>4, <2>9, <2>10
<1>3. ASSUME NEW s \in SUBSET T, s # {}
      PROVE  w[s] = f[CHOOSE y \in s : TRUE] + w[s \ {CHOOSE y \in s : TRUE}]
  <2>1. PICK y : y = CHOOSE z \in s : TRUE
    OBVIOUS
  <2>2. y \in s
    BY <1>3, <2>1
  <2>3. w[s] = f[y] + w[s \ {y}]
    <3>1. s \ {y} \in SUBSET T
      OBVIOUS
    <3>2. w[s] = Net(f, S, s) /\ w[s \ {y}] = Net(f, S, s \ {y})
      BY <3>1
    <3> QED BY <1>2, <2>2, <3>2
  <2> QED BY <2>1, <2>3
<1>4. IsFiniteSet(T)
  BY FS_Subset DEF Summands
<1>5. w = [s \in SUBSET T |-> w[s]] /\ w[{}] = 0 /\ w[T] = Net(f, S, T)
  BY <1>1
<1> HIDE DEF w
<1>8. Obeys(f, T, w)
  BY <1>3, <1>5 DEF Obeys
<1>6. SumFunctionOnSet(f, T) = w[T]
  BY <1>4, <1>8, SumIsTheOne
<1>7. Net(f, S, T) \in Int
  <2>1. CASE T = {}
    BY <1>1, <2>1
  <2>2. CASE T # {}
    <3>1. PICK y \in T : TRUE
      BY <2>2
    <3>2. T \in SUBSET T
      OBVIOUS
    <3> QED BY <1>2, <3>1, <3>2
  <2> QED BY <2>1, <2>2
<1> QED BY <1>5, <1>6, <1>7

\* What is used of sums: the empty one, one more summand, and that only the summands matter.
LEMMA SumEmpty ==
    ASSUME NEW f
    PROVE  SumFunctionOnSet(f, {}) = 0
<1> DEFINE w == [s \in SUBSET {} |-> 0]
<1>1. w = [s \in SUBSET {} |-> w[s]] /\ w[{}] = 0 /\ IsFiniteSet({})
  BY FS_EmptySet
<1>2. \A s \in SUBSET {} : s # {} => w[s] = f[CHOOSE y \in s : TRUE] + w[s \ {CHOOSE y \in s : TRUE}]
  OBVIOUS
<1> HIDE DEF w
<1>3. Obeys(f, {}, w)
  BY <1>1, <1>2 DEF Obeys
<1> QED BY <1>1, <1>3, SumIsTheOne

LEMMA SumInt ==
    ASSUME NEW f, NEW S, Summands(f, S)
    PROVE  SumFunctionOnSet(f, S) \in Int
<1>1. S \in SUBSET S
  OBVIOUS
<1> QED BY <1>1, SumIsNet

LEMMA SumGrows ==
    ASSUME NEW f, NEW T, Summands(f, T), NEW x, x \notin T, f[x] \in Int
    PROVE  SumFunctionOnSet(f, T \cup {x}) = f[x] + SumFunctionOnSet(f, T)
<1> DEFINE S == T \cup {x}
<1>1. Summands(f, S) /\ T \in SUBSET S /\ x \in S /\ S \in SUBSET S
  BY FS_AddElement DEF Summands
<1> HIDE DEF S
<1>2. SumFunctionOnSet(f, S) = Net(f, S, S) /\ SumFunctionOnSet(f, T) = Net(f, S, T)
  BY <1>1, SumIsNet
<1>3. Net(f, S, T \cup {x}) = f[x] + Net(f, S, T)
  BY <1>1, NetGrows
<1>4. S = T \cup {x}
  BY DEF S
<1> QED BY <1>2, <1>3, <1>4

LEMMA SumAgrees ==
    ASSUME NEW f, NEW g, NEW S, Summands(f, S), \A x \in S : f[x] = g[x]
    PROVE  SumFunctionOnSet(f, S) = SumFunctionOnSet(g, S)
<1>1. Summands(g, S) /\ S \in SUBSET S
  BY DEF Summands
<1>2. Above(f, S) = Above(g, S) /\ Below(f, S) = Below(g, S)
  BY DEF Above, Below
<1>3. Net(f, S, S) = Net(g, S, S)
  BY <1>2 DEF Net
<1> QED BY <1>1, <1>3, SumIsNet

\* Sums over sets that do not meet add up.
LEMMA SumUnion ==
    ASSUME NEW f, NEW A, NEW B, Summands(f, A), Summands(f, B), A \cap B = {}
    PROVE  SumFunctionOnSet(f, A \cup B) = SumFunctionOnSet(f, A) + SumFunctionOnSet(f, B)
<1> DEFINE W == {T \in SUBSET B : SumFunctionOnSet(f, A \cup T) # SumFunctionOnSet(f, A) + SumFunctionOnSet(f, T)}
<1>1. SumFunctionOnSet(f, A) \in Int
  BY SumInt
<1>2. W = {}
  <2> SUFFICES ASSUME W # {} PROVE FALSE
    OBVIOUS
  <2>1. W \subseteq SUBSET B /\ IsFiniteSet(B)
    BY DEF Summands
  <2> HIDE DEF W
  <2>2. PICK T \in W : \A U \in W : U \subseteq T => U = T
    BY <2>1, SmallestSubset
  <2>3. T \in SUBSET B /\ SumFunctionOnSet(f, A \cup T) # SumFunctionOnSet(f, A) + SumFunctionOnSet(f, T)
    BY <2>2 DEF W
  <2>4. CASE T = {}
    <3>1. A \cup T = A
      BY <2>4
    <3> QED BY <1>1, <2>3, <2>4, <3>1, SumEmpty
  <2>5. CASE T # {}
    <3>1. PICK x \in T : TRUE
      BY <2>5
    <3>2. PICK R : R = T \ {x}
      OBVIOUS
    <3>3. R \in SUBSET B /\ R # T /\ T = R \cup {x} /\ x \notin R /\ A \cup T = (A \cup R) \cup {x} /\ x \notin A \cup R
      BY <2>3, <3>1, <3>2
    <3>4. R \notin W
      BY <2>2, <3>3
    <3>5. SumFunctionOnSet(f, A \cup R) = SumFunctionOnSet(f, A) + SumFunctionOnSet(f, R)
      BY <3>3, <3>4 DEF W
    <3>6. Summands(f, R) /\ Summands(f, A \cup R) /\ f[x] \in Int
      <4>1. IsFiniteSet(R)
        BY <2>1, <3>3, FS_Subset
      <4>2. IsFiniteSet(A \cup R)
        BY <4>1, FS_Union DEF Summands
      <4> QED BY <2>3, <3>1, <3>3, <4>1, <4>2 DEF Summands
    <3>7. /\ SumFunctionOnSet(f, T) = f[x] + SumFunctionOnSet(f, R)
          /\ SumFunctionOnSet(f, A \cup T) = f[x] + SumFunctionOnSet(f, A \cup R)
      BY <3>3, <3>6, SumGrows
    <3>8. SumFunctionOnSet(f, R) \in Int
      BY <3>6, SumInt
    <3> QED BY <1>1, <2>3, <3>5, <3>6, <3>7, <3>8
  <2> QED BY <2>4, <2>5
<1>3. B \in SUBSET B
  OBVIOUS
<1> QED BY <1>2, <1>3

\* h sums up f over each bucket, the buckets do not meet, and together they are C.
Bucketed(f, R, bucket, h, C) ==
    /\ C = UNION {bucket[s] : s \in R}
    /\ \A s \in R : Summands(f, bucket[s]) /\ h[s] = SumFunctionOnSet(f, bucket[s])
    /\ \A s, t \in R : s # t => bucket[s] \cap bucket[t] = {}

\* The sum of the sums over buckets is the sum over all they hold.
LEMMA SumOfBuckets ==
    ASSUME NEW f, NEW R, IsFiniteSet(R), NEW bucket, NEW h, NEW C, Bucketed(f, R, bucket, h, C)
    PROVE  SumFunctionOnSet(h, R) = SumFunctionOnSet(f, C)
<1> DEFINE all(T) == UNION {bucket[s] : s \in T}
           W == {T \in SUBSET R : ~ /\ SumFunctionOnSet(h, T) = SumFunctionOnSet(f, all(T))
                                    /\ IsFiniteSet(all(T))}
<1>4. /\ \A s \in R : Summands(f, bucket[s]) /\ h[s] = SumFunctionOnSet(f, bucket[s])
      /\ \A s, t \in R : s # t => bucket[s] \cap bucket[t] = {}
  BY DEF Bucketed
<1>1. \A s \in R : h[s] \in Int
  BY <1>4, SumInt
<1>2. W = {}
  <2> SUFFICES ASSUME W # {} PROVE FALSE
    OBVIOUS
  <2>1. W \subseteq SUBSET R
    OBVIOUS
  <2> HIDE DEF W
  <2>2. PICK T \in W : \A U \in W : U \subseteq T => U = T
    BY <2>1, SmallestSubset
  <2>3. T \in SUBSET R
    BY <2>1, <2>2
  <2>4. T # {}
    <3> SUFFICES ASSUME T = {} PROVE FALSE
      OBVIOUS
    <3>1. all(T) = {} /\ IsFiniteSet({})
      BY FS_EmptySet
    <3>2. SumFunctionOnSet(h, {}) = 0 /\ SumFunctionOnSet(f, {}) = 0
      BY SumEmpty
    <3> QED BY <2>2, <3>1, <3>2 DEF W
  <2>5. PICK x \in T : TRUE
    BY <2>4
  <2>6. PICK U : U = T \ {x}
    OBVIOUS
  <2>7. U \in SUBSET R /\ U # T /\ T = U \cup {x} /\ x \notin U /\ U \subseteq T /\ x \in R
    BY <2>3, <2>5, <2>6
  <2>8. SumFunctionOnSet(h, U) = SumFunctionOnSet(f, all(U)) /\ IsFiniteSet(all(U))
    BY <2>2, <2>7 DEF W
  <2>9. all(T) = all(U) \cup bucket[x] /\ all(U) \cap bucket[x] = {}
    BY <1>4, <2>7
  <2>10. Summands(h, U) /\ Summands(f, all(U)) /\ Summands(f, bucket[x])
    <3>1. IsFiniteSet(U)
      BY <2>7, FS_Subset
    <3>2. \A y \in all(U) : f[y] \in Int
      BY <1>4, <2>7 DEF Summands
    <3> QED BY <1>1, <1>4, <2>7, <2>8, <3>1, <3>2 DEF Summands
  <2> HIDE DEF all
  <2>11. SumFunctionOnSet(h, T) = h[x] + SumFunctionOnSet(h, U) /\ h[x] \in Int
    BY <1>1, <2>7, <2>10, SumGrows
  <2>12. SumFunctionOnSet(f, all(T)) = SumFunctionOnSet(f, all(U)) + SumFunctionOnSet(f, bucket[x])
    BY <2>9, <2>10, SumUnion
  <2>13. SumFunctionOnSet(f, all(U)) \in Int
    BY <2>10, SumInt
  <2>14. IsFiniteSet(all(T))
    <3>1. PICK A, B : A = all(U) /\ B = bucket[x]
      OBVIOUS
    <3>2. IsFiniteSet(A) /\ IsFiniteSet(B) /\ all(T) = A \cup B
      BY <2>8, <2>9, <2>10, <3>1 DEF Summands
    <3>3. IsFiniteSet(A \cup B)
      BY <3>2, FS_Union
    <3> QED BY <3>2, <3>3
  <2>15. SumFunctionOnSet(h, T) = SumFunctionOnSet(f, all(T))
    BY <1>4, <2>7, <2>8, <2>11, <2>12, <2>13
  <2> QED BY <2>2, <2>14, <2>15 DEF W
<1>3. R \in SUBSET R
  OBVIOUS
<1>5. SumFunctionOnSet(h, R) = SumFunctionOnSet(f, all(R))
  BY <1>2, <1>3
<1> QED BY <1>5 DEF Bucketed

\* The number of elements is a sum of ones.
LEMMA SumOfOnes ==
    ASSUME NEW S, IsFiniteSet(S), NEW f, \A x \in S : f[x] = 1
    PROVE  SumFunctionOnSet(f, S) = Cardinality(S)
<1> DEFINE W == {T \in SUBSET S : SumFunctionOnSet(f, T) # Cardinality(T)}
<1>1. W = {}
  <2> SUFFICES ASSUME W # {} PROVE FALSE
    OBVIOUS
  <2>1. W \subseteq SUBSET S
    OBVIOUS
  <2> HIDE DEF W
  <2>2. PICK T \in W : \A U \in W : U \subseteq T => U = T
    BY <2>1, SmallestSubset
  <2>3. T \in SUBSET S /\ SumFunctionOnSet(f, T) # Cardinality(T)
    BY <2>2 DEF W
  <2>4. T # {}
    BY <2>3, SumEmpty, FS_EmptySet
  <2>5. PICK x \in T : TRUE
    BY <2>4
  <2>6. PICK U : U = T \ {x}
    OBVIOUS
  <2>7. U \in SUBSET S /\ U # T /\ T = U \cup {x} /\ x \notin U /\ U \subseteq T /\ IsFiniteSet(U)
    <3>1. IsFiniteSet(T)
      BY <2>3, FS_Subset
    <3> QED BY <2>3, <2>5, <2>6, <3>1, FS_Subset
  <2>8. SumFunctionOnSet(f, U) = Cardinality(U)
    BY <2>2, <2>7 DEF W
  <2>9. Summands(f, U) /\ f[x] = 1
    BY <2>3, <2>5, <2>7 DEF Summands
  <2>10. SumFunctionOnSet(f, T) = f[x] + SumFunctionOnSet(f, U)
    BY <2>7, <2>9, SumGrows
  <2>11. Cardinality(T) = Cardinality(U) + 1 /\ Cardinality(U) \in Nat
    BY <2>7, FS_AddElement, FS_CardinalityType
  <2> QED BY <2>3, <2>8, <2>9, <2>10, <2>11
<1>2. S \in SUBSET S
  OBVIOUS
<1> QED BY <1>1, <1>2
===============================================================================
