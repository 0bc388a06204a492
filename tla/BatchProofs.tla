------------------------------ MODULE BatchProofs ------------------------------
(* Proofs about AzureBatch, BatchPipeline and the operators of Spans and       *)
(* Ranked they are built from, for every value of the constants.               *)
(*                                                                             *)
(* Sorting, filtering and folding come first: what InOrderOf and Picked return, *)
(* and a FoldLeft as a walk g of n steps, g[k] being the accumulator after the  *)
(* first k elements.  What is said of every step of a walk is shown of every    *)
(* k by UpTo, which is induction on the naturals for a set.                     *)
EXTENDS AzureBatch, BatchPipeline, WellFoundedInduction, FiniteSetTheorems, SequenceTheorems, TLAPS

-----------------------------------------------------------------------------
(* Numbers, order and folds.                                                  *)

\* The order of the naturals, as the library's well-foundedness has it.
LEMMA NotLess ==
  \A x, y \in Nat : <<y, x>> \notin OpToRel(<, Nat) => x <= y
BY DEF OpToRel

\* Every set of naturals that is not empty has a least one.
LEMMA LeastOf ==
  ASSUME NEW T \in SUBSET Nat, T # {}
  PROVE  \E x \in T : \A y \in T : x <= y
<1>1. PICK x \in T : \A y \in T : <<y, x>> \notin OpToRel(<, Nat)
  BY NatLessThanWellFounded, WFMin
<1>2. QED
  BY <1>1, NotLess, Zenon

\* A set of numbers up to n that is not empty has a greatest one.
LEMMA GreatestOf ==
  ASSUME NEW n \in Nat, NEW T \in SUBSET (0..n), T # {}
  PROVE  \E x \in T : \A y \in T : y <= x
<1> DEFINE D == {n - x : x \in T}
<1>1. D \in SUBSET Nat /\ D # {}
  <2>1. \A x \in T : n - x \in Nat
    OBVIOUS
  <2>2. QED
    BY <2>1
<1> HIDE DEF D
<1>2. PICK d \in D : \A e \in D : d <= e
  BY <1>1, LeastOf
<1>3. PICK x \in T : d = n - x
  BY DEF D
<1>4. ASSUME NEW y \in T PROVE y <= x
  <2>1. n - x <= n - y
    BY <1>2, <1>3 DEF D
  <2>2. QED
    BY <2>1
<1>5. QED
  BY <1>4

\* Induction up to n, for a set of numbers.
LEMMA UpTo ==
  ASSUME NEW n \in Nat, NEW T, 0 \in T, \A k \in 1..n : k - 1 \in T => k \in T
  PROVE  0..n \subseteq T
<1> DEFINE D == {k \in 0..n : k \notin T}
<1>1. SUFFICES ASSUME D # {} PROVE FALSE
  OBVIOUS
<1>2. PICK k \in D : \A j \in D : k <= j
  <2>1. D \in SUBSET Nat
    OBVIOUS
  <2> HIDE DEF D
  <2>2. QED
    BY <1>1, <2>1, LeastOf
<1>3. k # 0 /\ k \in 1..n /\ k - 1 \in 0..n /\ k - 1 \notin D
  BY <1>2
<1>4. QED
  BY <1>2, <1>3

\* What counts the elements before each, in a strict order of a finite set, is a
\* numbering of them.
IsOrder(R, S) ==
  /\ \A x \in S : <<x, x>> \notin R
  /\ \A x, y \in S : x # y => <<x, y>> \in R \/ <<y, x>> \in R
  /\ \A x, y, z \in S : <<x, y>> \in R /\ <<y, z>> \in R => <<x, z>> \in R
Rank(x, R, S) == Cardinality({y \in S : <<y, x>> \in R})
IsNumbering(at, R, S) ==
  /\ at \in [1..Cardinality(S) -> S]
  /\ \A x \in S : Rank(x, R, S) + 1 \in 1..Cardinality(S) /\ at[Rank(x, R, S) + 1] = x
  /\ \A k \in 1..Cardinality(S) : Rank(at[k], R, S) = k - 1
  /\ \A j, k \in 1..Cardinality(S) : j < k <=> <<at[j], at[k]>> \in R

\* A finite set in an order has a numbering, and InOrderOf is it.
LEMMA Numbered ==
  ASSUME NEW S, IsFiniteSet(S), NEW R, IsOrder(R, S)
  PROVE  Cardinality(S) \in Nat /\ IsNumbering(InOrderOf(R, S), R, S)
<1> DEFINE n == Cardinality(S)
           Below(x) == {y \in S : <<y, x>> \in R}
           rank == [x \in S |-> Cardinality(Below(x))]
           at == InOrderOf(R, S)
<1>1. n \in Nat
  BY FS_CardinalityType
<1>2. ASSUME NEW x \in S PROVE rank[x] \in 0..n - 1 /\ IsFiniteSet(Below(x))
  <2>1. Below(x) \in SUBSET S /\ x \notin Below(x)
    BY DEF IsOrder
  <2>2. IsFiniteSet(Below(x)) /\ Cardinality(Below(x)) <= n /\ (Cardinality(Below(x)) = n => Below(x) = S)
    BY <2>1, FS_Subset
  <2>3. Cardinality(Below(x)) \in Nat /\ Cardinality(Below(x)) # n
    BY <2>1, <2>2, FS_CardinalityType
  <2>4. QED
    BY <1>1, <2>2, <2>3
<1>3. ASSUME NEW x \in S, NEW y \in S, <<x, y>> \in R PROVE rank[x] < rank[y]
  <2>1. Below(x) \in SUBSET Below(y) /\ x \in Below(y) /\ x \notin Below(x)
    BY <1>3 DEF IsOrder
  <2>2. Cardinality(Below(x)) <= Cardinality(Below(y)) /\ Cardinality(Below(x)) # Cardinality(Below(y))
    BY <1>2, <2>1, FS_Subset
  <2>3. QED
    BY <1>1, <1>2, <2>2
<1> HIDE DEF Below
<1>4. rank \in Injection(S, 0..n - 1)
  <2>1. rank \in [S -> 0..n - 1]
    BY <1>2
  <2>2. ASSUME NEW x \in S, NEW y \in S, x # y PROVE rank[x] # rank[y]
    <3>1. rank[x] \in 0..n - 1 /\ rank[y] \in 0..n - 1
      BY <1>2
    <3>2. rank[x] < rank[y] \/ rank[y] < rank[x]
      BY <1>3, <2>2 DEF IsOrder
    <3>3. QED
      BY <3>1, <3>2, <1>1
  <2> HIDE DEF rank
  <2>3. QED
    BY <2>1, <2>2 DEF Injection, IsInjective
<1> HIDE DEF rank
<1>5. ASSUME NEW i \in 0..n - 1 PROVE \E x \in S : rank[x] = i
  <2>1. IsFiniteSet(0..n - 1) /\ Cardinality(0..n - 1) = n
    BY <1>1, FS_Interval
  <2>2. rank \in Surjection(S, 0..n - 1)
    BY <1>4, <2>1, FS_Injection
  <2>3. QED
    BY <2>2 DEF Surjection
<1>6. ASSUME NEW x \in S PROVE rank[x] = Rank(x, R, S)
  BY DEF rank, Rank, Below
<1>7. \A x, y \in S : rank[x] = rank[y] => x = y
  BY <1>4 DEF Injection, IsInjective
<1>8. at = [k \in 1..n |-> CHOOSE x \in S : Rank(x, R, S) = k - 1]
  BY DEF InOrderOf, Rank
<1> HIDE DEF n, at
<1>9. ASSUME NEW k \in 1..n PROVE at[k] \in S /\ Rank(at[k], R, S) = k - 1
  <2>1. k - 1 \in 0..n - 1
    BY <1>1
  <2>2. \E x \in S : Rank(x, R, S) = k - 1
    BY <1>5, <1>6, <2>1
  <2>3. QED
    BY <1>8, <2>2
<1>10. at \in [1..n -> S]
  <2>1. DOMAIN at = 1..n /\ at = [k \in 1..n |-> at[k]]
    BY <1>8
  <2>2. QED
    BY <1>9, <2>1
<1>11. ASSUME NEW x \in S PROVE Rank(x, R, S) + 1 \in 1..n /\ at[Rank(x, R, S) + 1] = x
  <2>1. rank[x] \in 0..n - 1 /\ rank[x] = Rank(x, R, S)
    BY <1>2, <1>6
  <2>2. Rank(x, R, S) + 1 \in 1..n
    BY <1>1, <2>1
  <2>3. at[Rank(x, R, S) + 1] \in S /\ Rank(at[Rank(x, R, S) + 1], R, S) = Rank(x, R, S)
    BY <1>1, <1>9, <2>1, <2>2
  <2>4. QED
    BY <1>6, <1>7, <2>2, <2>3
<1>12. ASSUME NEW j \in 1..n, NEW k \in 1..n PROVE j < k <=> <<at[j], at[k]>> \in R
  <2>1. /\ at[j] \in S /\ rank[at[j]] = j - 1
        /\ at[k] \in S /\ rank[at[k]] = k - 1
    BY <1>6, <1>9
  <2>2. <<at[j], at[k]>> \in R => j < k
    BY <1>1, <1>3, <2>1
  <2>3. <<at[k], at[j]>> \in R => k < j
    BY <1>1, <1>3, <2>1
  <2>4. j # k => at[j] # at[k]
    BY <1>1, <2>1
  <2>5. QED
    BY <1>1, <2>1, <2>2, <2>3, <2>4 DEF IsOrder
<1>13. QED
  BY <1>1, <1>9, <1>10, <1>11, <1>12 DEF IsNumbering, n, at


\* A stable sort by a number for each element.
IsSort(at, n, key, seq) ==
  /\ at \in [1..n -> 1..n]
  /\ SortedBy(key, seq) = [k \in 1..n |-> seq[at[k]]]
  /\ \A i \in 1..n : \E k \in 1..n : at[k] = i
  /\ \A j, k \in 1..n :
       j < k => key[at[j]] <= key[at[k]] /\ (key[at[j]] = key[at[k]] => at[j] < at[k])
\* SortedBy() sorts: each element once, none before one with a lesser key, and
\* of equals the earlier first.
LEMMA Sorts ==
  ASSUME NEW n \in Nat, NEW key \in [1..n -> Int], NEW seq
  PROVE  \E at : IsSort(at, n, key, seq)
<1> DEFINE S == 1..n
           R == Sooner(key)
           at == InOrderOf(R, S)
<1>1. DOMAIN key = S
  OBVIOUS
<1>2. \A x, y : <<x, y>> \in R <=> x \in S /\ y \in S /\ (key[x] < key[y] \/ (key[x] = key[y] /\ x < y))
  BY <1>1 DEF Sooner
<1> HIDE DEF R
<1>3. IsOrder(R, S)
  <2>1. \A x \in S : key[x] \in Int /\ x \in Int
    OBVIOUS
  <2>2. ASSUME NEW x \in S, NEW y \in S, x # y PROVE <<x, y>> \in R \/ <<y, x>> \in R
    <3>1. \/ key[x] < key[y] \/ (key[x] = key[y] /\ x < y)
          \/ key[y] < key[x] \/ (key[y] = key[x] /\ y < x)
      BY <2>1, <2>2
    <3>2. QED
      BY <1>2, <3>1, Zenon
  <2>3. ASSUME NEW x \in S, NEW y \in S, NEW z \in S, <<x, y>> \in R, <<y, z>> \in R
        PROVE  <<x, z>> \in R
    <3>1. /\ key[x] < key[y] \/ (key[x] = key[y] /\ x < y)
          /\ key[y] < key[z] \/ (key[y] = key[z] /\ y < z)
      BY <1>2, <2>3
    <3>2. key[x] < key[z] \/ (key[x] = key[z] /\ x < z)
      BY <2>1, <3>1
    <3>3. QED
      BY <1>2, <3>2
  <2>4. \A x \in S : <<x, x>> \notin R
    BY <1>2, <2>1
  <2>5. QED
    BY <2>2, <2>3, <2>4 DEF IsOrder
<1>4. IsFiniteSet(S) /\ Cardinality(S) = n
  BY FS_Interval
<1> HIDE DEF S
<1>5. IsNumbering(at, R, S)
  BY <1>3, <1>4, Numbered
<1>6. SortedBy(key, seq) = [k \in DOMAIN at |-> seq[at[k]]]
  BY <1>1 DEF SortedBy, R
<1> HIDE DEF at
<1>7. at \in [1..n -> 1..n]
  BY <1>4, <1>5 DEF IsNumbering, S
<1>8. \A i \in 1..n : \E k \in 1..n : at[k] = i
  BY <1>4, <1>5 DEF IsNumbering, S
<1>9. \A j, k \in 1..n : j < k => key[at[j]] < key[at[k]] \/ (key[at[j]] = key[at[k]] /\ at[j] < at[k])
  BY <1>2, <1>4, <1>5 DEF IsNumbering
<1>10. \A j \in 1..n : key[at[j]] \in Int
  BY <1>7
<1>11. SortedBy(key, seq) = [k \in 1..n |-> seq[at[k]]]
  BY <1>6, <1>7
<1>12. ASSUME NEW j \in 1..n, NEW k \in 1..n, j < k
       PROVE  key[at[j]] <= key[at[k]] /\ (key[at[j]] = key[at[k]] => at[j] < at[k])
  BY <1>9, <1>10, <1>12
<1>13. IsSort(at, n, key, seq)
  BY <1>7, <1>8, <1>11, <1>12 DEF IsSort
<1>14. QED
  BY <1>13

\* The elements at some places, in order.
IsPick(at, m, places, seq) ==
  /\ at \in [1..m -> places]
  /\ Picked(seq, places) = [k \in 1..m |-> seq[at[k]]]
  /\ \A i \in places : \E k \in 1..m : at[k] = i
  /\ \A j, k \in 1..m : j < k <=> at[j] < at[k]
\* Picked() keeps the places asked for, in their order.
LEMMA Picks ==
  ASSUME NEW n \in Nat, NEW places \in SUBSET (1..n), NEW seq
  PROVE  Cardinality(places) \in 0..n /\ \E at : IsPick(at, Cardinality(places), places, seq)
<1> DEFINE R == {p \in places \X places : p[1] < p[2]}
           m == Cardinality(places)
           at == InOrderOf(R, places)
<1>1. IsFiniteSet(places) /\ m \in 0..n
  <2>1. IsFiniteSet(1..n) /\ Cardinality(1..n) = n
    BY FS_Interval
  <2>2. IsFiniteSet(places) /\ m <= n
    BY <2>1, FS_Subset
  <2>3. QED
    BY <2>2, FS_CardinalityType
<1>2. \A x, y : <<x, y>> \in R <=> x \in places /\ y \in places /\ x < y
  OBVIOUS
<1> HIDE DEF R
<1>3. IsOrder(R, places)
  <2>1. \A x \in places : x \in Nat
    OBVIOUS
  <2>2. QED
    BY <1>2, <2>1 DEF IsOrder
<1>4. IsNumbering(at, R, places)
  BY <1>1, <1>3, Numbered
<1>5. Picked(seq, places) = [k \in DOMAIN at |-> seq[at[k]]]
  BY DEF Picked, R
<1> HIDE DEF at
<1>6. at \in [1..m -> places] /\ \A i \in places : \E k \in 1..m : at[k] = i
  BY <1>4 DEF IsNumbering
<1>7. \A j, k \in 1..m : j < k <=> at[j] < at[k]
  BY <1>2, <1>4, <1>6 DEF IsNumbering
<1>8. Picked(seq, places) = [k \in 1..m |-> seq[at[k]]]
  BY <1>5, <1>6
<1> HIDE DEF m
<1>9. IsPick(at, m, places, seq)
  BY <1>6, <1>7, <1>8 DEF IsPick
<1>10. QED
  BY <1>1, <1>9 DEF m

\* A fold of the community modules goes through all subsets of the indices.  There
\* is such a function, for steps that stay in a set Acc.
IsFold(f, n, Acc, b, stp) ==
  /\ f \in [SUBSET (1..n) -> Acc]
  /\ \A s \in SUBSET (1..n) : f[s] = IF s = {} THEN b ELSE stp[Max(s)][f[s \ {Max(s)}]]
IsWalk(g, n, Acc, b, stp) ==
  g \in [0..n -> Acc] /\ g[0] = b /\ \A k \in 1..n : g[k] = stp[k][g[k - 1]]
\* MapThenFoldSet, which FoldLeft is defined by, has the function it chooses.
LEMMA FoldExists ==
  ASSUME NEW n \in Nat, NEW Acc, NEW b \in Acc, NEW stp \in [1..n -> [Acc -> Acc]]
  PROVE  \E f : IsFold(f, n, Acc, b, stp)
<1> DEFINE Walk(s, m) ==
             {g \in [0..m -> Acc] :
                /\ g[0] = b
                /\ \A k \in 1..m : g[k] = IF k \in s THEN stp[k][g[k - 1]] ELSE g[k - 1]}
<1>1. ASSUME NEW s \in SUBSET (1..n) PROVE \E g : g \in Walk(s, n)
  <2> DEFINE T == {m \in 0..n : \E g : g \in Walk(s, m)}
  <2>1. 0 \in T
    <3>1. [k \in 0..0 |-> b] \in Walk(s, 0)
      OBVIOUS
    <3>2. QED
      BY <3>1
  <2>2. ASSUME NEW m \in 1..n, m - 1 \in T PROVE m \in T
    <3>1. PICK g : g \in Walk(s, m - 1)
      BY <2>2
    <3> DEFINE v == IF m \in s THEN stp[m][g[m - 1]] ELSE g[m - 1]
               h == [k \in 0..m |-> IF k = m THEN v ELSE g[k]]
    <3>2. g \in [0..m - 1 -> Acc] /\ g[0] = b
      BY <3>1
    <3>3. v \in Acc
      BY <3>2
    <3>4. h \in [0..m -> Acc] /\ h[0] = b
      BY <3>2, <3>3
    <3>5. ASSUME NEW k \in 1..m PROVE h[k] = IF k \in s THEN stp[k][h[k - 1]] ELSE h[k - 1]
      <4>1. h[k - 1] = g[k - 1]
        BY <3>2
      <4>2. CASE k = m
        BY <4>1, <4>2
      <4>3. CASE k # m
        <5>1. k \in 1..m - 1 /\ h[k] = g[k]
          BY <4>3
        <5>2. QED
          BY <3>1, <4>1, <5>1
      <4>4. QED
        BY <4>2, <4>3
    <3>6. h \in Walk(s, m)
      BY <3>4, <3>5
    <3>7. QED
      BY <3>6
  <2> HIDE DEF T
  <2>3. 0..n \subseteq T
    BY <2>1, <2>2, UpTo
  <2>4. QED
    BY <2>3 DEF T
<1> DEFINE G == [s \in SUBSET (1..n) |-> CHOOSE g : g \in Walk(s, n)]
           f == [s \in SUBSET (1..n) |-> G[s][n]]
<1>2. ASSUME NEW s \in SUBSET (1..n)
      PROVE  /\ G[s] \in [0..n -> Acc] /\ G[s][0] = b
             /\ \A k \in 1..n : G[s][k] = IF k \in s THEN stp[k][G[s][k - 1]] ELSE G[s][k - 1]
  <2>1. G[s] \in Walk(s, n)
    BY <1>1
  <2>2. QED
    BY <2>1
<1> HIDE DEF G
<1>3. f \in [SUBSET (1..n) -> Acc]
  BY <1>2
\* Two subsets with the same elements up to m agree up to m.
<1>4. ASSUME NEW s \in SUBSET (1..n), NEW t \in SUBSET (1..n), NEW m \in 0..n,
             \A k \in 1..m : k \in s <=> k \in t
      PROVE  G[s][m] = G[t][m]
  <2> DEFINE T == {k \in 0..n : k > m \/ G[s][k] = G[t][k]}
  <2>1. 0 \in T
    BY <1>2
  <2>2. ASSUME NEW k \in 1..n, k - 1 \in T PROVE k \in T
    BY <1>2, <1>4, <2>2
  <2> HIDE DEF T
  <2>3. 0..n \subseteq T
    BY <2>1, <2>2, UpTo
  <2>4. QED
    BY <2>3 DEF T
\* Behind the last element nothing changes.
<1>5. ASSUME NEW s \in SUBSET (1..n), NEW m \in 0..n, \A k \in s : k <= m
      PROVE  G[s][n] = G[s][m]
  <2> DEFINE T == {k \in 0..n : k < m \/ G[s][k] = G[s][m]}
  <2>1. 0 \in T
    OBVIOUS
  <2>2. ASSUME NEW k \in 1..n, k - 1 \in T PROVE k \in T
    <3>1. CASE k <= m
      BY <3>1
    <3>2. CASE k > m
      BY <1>2, <1>5, <2>2, <3>2
    <3>3. QED
      BY <3>1, <3>2
  <2> HIDE DEF T
  <2>3. 0..n \subseteq T
    BY <2>1, <2>2, UpTo
  <2>4. QED
    BY <2>3 DEF T
<1>6. ASSUME NEW s \in SUBSET (1..n)
      PROVE  f[s] = IF s = {} THEN b ELSE stp[Max(s)][f[s \ {Max(s)}]]
  <2>1. CASE s = {}
    <3>1. G[s][n] = G[s][0]
      BY <1>5, <2>1
    <3>2. QED
      BY <1>2, <2>1, <3>1
  <2>2. CASE s # {}
    <3> DEFINE m == Max(s)
    <3>1. m \in s /\ \A k \in s : k <= m
      <4>1. s \in SUBSET (0..n)
        OBVIOUS
      <4>2. PICK x \in s : \A y \in s : y <= x
        BY <2>2, <4>1, GreatestOf
      <4>3. \A y \in s : x >= y
        BY <4>2
      <4>4. QED
        BY <4>3 DEF Max
    <3> HIDE DEF m
    <3>2. G[s][n] = G[s][m] /\ m \in 1..n
      BY <1>5, <3>1
    <3>3. G[s][m] = stp[m][G[s][m - 1]]
      BY <1>2, <3>1, <3>2
    <3>4. G[s][m - 1] = G[s \ {m}][m - 1]
      <4>1. s \ {m} \in SUBSET (1..n) /\ m - 1 \in 0..n
        BY <3>2
      <4>2. \A k \in 1..m - 1 : k \in s <=> k \in s \ {m}
        BY <3>2
      <4>3. QED
        BY <1>4, <4>1, <4>2
    <3>5. G[s \ {m}][n] = G[s \ {m}][m - 1]
      <4>1. \A k \in s \ {m} : k <= m - 1
        <5>1. \A k \in s \ {m} : k \in 1..n /\ k <= m /\ k # m
          BY <3>1
        <5>2. QED
          BY <3>2, <5>1
      <4>2. s \ {m} \in SUBSET (1..n) /\ m - 1 \in 0..n
        BY <3>2
      <4>3. QED
        BY <1>5, <4>1, <4>2
    <3>6. f[s] = stp[m][f[s \ {m}]]
      BY <3>2, <3>3, <3>4, <3>5
    <3>7. QED
      BY <2>2, <3>6 DEF m
  <2>3. QED
    BY <2>1, <2>2
<1> HIDE DEF f
<1>7. IsFold(f, n, Acc, b, stp)
  BY <1>3, <1>6 DEF IsFold
<1>8. QED
  BY <1>7

\* Such a function, seen at the first k indices, goes step by step.
Folds(F, n, Acc, b, stp) ==
  /\ F[{}] = b
  /\ \A s \in SUBSET (1..n) :
       s # {} /\ F[s \ {Max(s)}] \in Acc => F[s] = stp[Max(s)][F[s \ {Max(s)}]]
\* A fold that takes the greatest index first is a walk.
LEMMA FoldWalks ==
  ASSUME NEW n \in Nat, NEW Acc, NEW b \in Acc, NEW stp \in [1..n -> [Acc -> Acc]], NEW F,
         Folds(F, n, Acc, b, stp)
  PROVE  \E g : IsWalk(g, n, Acc, b, stp) /\ g[n] = F[1..n]
<1>0. /\ F[{}] = b
      /\ \A s \in SUBSET (1..n) :
           s # {} /\ F[s \ {Max(s)}] \in Acc => F[s] = stp[Max(s)][F[s \ {Max(s)}]]
  BY DEF Folds
<1> USE <1>0
<1> DEFINE g == [k \in 0..n |-> F[1..k]]
           T == {k \in 0..n : g[k] \in Acc}
<1>1. g[0] = b
  BY 1..0 = {}
<1>2. ASSUME NEW k \in 1..n, g[k - 1] \in Acc PROVE g[k] = stp[k][g[k - 1]]
  <2>1. Max(1..k) = k
    <3>1. k \in 1..k /\ \A y \in 1..k : k >= y
      OBVIOUS
    <3>2. \A x \in 1..k : (\A y \in 1..k : x >= y) => x = k
      OBVIOUS
    <3>3. QED
      BY <3>1, <3>2 DEF Max
  <2>2. (1..k) \ {k} = 1..k - 1
    OBVIOUS
  <2>3. 1..k # {} /\ 1..k \in SUBSET (1..n)
    <3>1. k \in 1..k /\ \A x \in 1..k : x \in 1..n
      OBVIOUS
    <3>2. QED
      BY <3>1
  <2>4. F[(1..k) \ {Max(1..k)}] = g[k - 1]
    <3>1. k - 1 \in 0..n
      OBVIOUS
    <3>2. g[k - 1] = F[1..k - 1]
      BY <3>1
    <3> HIDE DEF g
    <3>3. QED
      BY <2>1, <2>2, <3>2
  <2>5. F[1..k] = stp[Max(1..k)][F[(1..k) \ {Max(1..k)}]]
    BY <1>2, <2>3, <2>4
  <2>6. QED
    BY <2>1, <2>4, <2>5
<1>3. 0 \in T
  BY <1>1
<1>4. ASSUME NEW k \in 1..n, k - 1 \in T PROVE k \in T
  <2>1. g[k - 1] \in Acc
    BY <1>4
  <2>2. g[k] = stp[k][g[k - 1]] /\ stp[k] \in [Acc -> Acc]
    BY <1>2, <2>1
  <2> HIDE DEF g
  <2>3. QED
    BY <2>1, <2>2
<1> HIDE DEF g
<1>5. 0..n \subseteq T
  <2> HIDE DEF T
  <2>1. QED
    BY <1>3, <1>4, UpTo
<1>6. g \in [0..n -> Acc]
  BY <1>5 DEF g
<1>7. g[n] = F[1..n]
  BY DEF g
<1>8. \A k \in 1..n : g[k] = stp[k][g[k - 1]]
  <2>1. \A k \in 1..n : k - 1 \in 0..n
    OBVIOUS
  <2>2. QED
    BY <1>2, <1>6, <2>1
<1>9. IsWalk(g, n, Acc, b, stp)
  BY <1>1, <1>6, <1>8 DEF IsWalk
<1>10. QED
  BY <1>7, <1>9

\* A walk through n steps, each from Acc to Acc.
LEMMA Walks ==
  ASSUME NEW n \in Nat, NEW Acc, NEW b \in Acc, NEW stp \in [1..n -> [Acc -> Acc]]
  PROVE  \E g : IsWalk(g, n, Acc, b, stp)
<1>1. PICK f : IsFold(f, n, Acc, b, stp)
  BY FoldExists
<1>2. f[{}] = b
  BY <1>1 DEF IsFold
<1>3. \A s \in SUBSET (1..n) :
        s # {} /\ f[s \ {Max(s)}] \in Acc => f[s] = stp[Max(s)][f[s \ {Max(s)}]]
  BY <1>1, Zenon DEF IsFold
<1>4. Folds(f, n, Acc, b, stp)
  BY <1>2, <1>3 DEF Folds
<1>5. PICK g : IsWalk(g, n, Acc, b, stp)
  BY <1>4, FoldWalks
<1>6. QED
  BY <1>5

\* FlattenSeq puts each sequence behind the ones before it.
IsFlat(off, n, ss) ==
  /\ off \in [0..n -> Nat] /\ off[0] = 0 /\ Len(FlattenSeq(ss)) = off[n]
  /\ \A i \in 1..n : off[i] = off[i - 1] + Len(ss[i])
  /\ \A i \in 1..n : \A j \in 1..Len(ss[i]) :
       off[i - 1] + j \in 1..off[n] /\ FlattenSeq(ss)[off[i - 1] + j] = ss[i][j]
  /\ \A k \in 1..off[n] : \E i \in 1..n : \E j \in 1..Len(ss[i]) : k = off[i - 1] + j
  /\ \A i, h \in 1..n : i < h => off[i] <= off[h - 1]
\* FlattenSeq: each element of each sequence, at its offset.
LEMMA Flattens ==
  ASSUME NEW T, NEW n \in Nat, NEW ss \in [1..n -> Seq(T)]
  PROVE  FlattenSeq(ss) \in Seq(T) /\ \E off : IsFlat(off, n, ss)
<1> DEFINE stp == [k \in 1..n |-> [a \in Seq(T) |-> a \o ss[k]]]
<1>1. <<>> \in Seq(T) /\ ss \in Seq(Seq(T)) /\ Len(ss) = n
  BY EmptySeq
<1>2. stp \in [1..n -> [Seq(T) -> Seq(T)]]
  BY ConcatProperties
<1> HIDE DEF stp
<1>14. PICK g : IsWalk(g, n, Seq(T), <<>>, stp)
  BY <1>1, <1>2, Walks
<1>3. g \in [0..n -> Seq(T)] /\ g[0] = <<>> /\ \A k \in 1..n : g[k] = stp[k][g[k - 1]]
  BY <1>14 DEF IsWalk
<1>4. ASSUME NEW k \in 1..n
      PROVE  /\ g[k] = g[k - 1] \o ss[k] /\ g[k] \in Seq(T) /\ g[k - 1] \in Seq(T) /\ ss[k] \in Seq(T)
             /\ Len(g[k]) \in Nat /\ Len(g[k - 1]) \in Nat /\ Len(ss[k]) \in Nat
             /\ Len(g[k]) = Len(g[k - 1]) + Len(ss[k])
             /\ \A i \in 1..Len(g[k]) :
                  g[k][i] = IF i <= Len(g[k - 1]) THEN g[k - 1][i] ELSE ss[k][i - Len(g[k - 1])]
  <2>1. g[k - 1] \in Seq(T) /\ g[k] \in Seq(T) /\ ss[k] \in Seq(T)
    <3>1. k - 1 \in 0..n /\ k \in 0..n
      OBVIOUS
    <3>2. QED
      BY <1>3, <3>1
  <2>2. g[k] = g[k - 1] \o ss[k]
    BY <1>3, <2>1 DEF stp
  <2>3. QED
    BY <2>1, <2>2, ConcatProperties, LenProperties
<1> DEFINE off == [k \in 0..n |-> Len(g[k])]
<1>5. off \in [0..n -> Nat] /\ off[0] = 0
  BY <1>3, EmptySeq, LenProperties
<1>6. ASSUME NEW i \in 1..n PROVE off[i] = off[i - 1] + Len(ss[i]) /\ Len(ss[i]) \in Nat
  <2>1. off[i] = Len(g[i]) /\ off[i - 1] = Len(g[i - 1])
    <3>1. i \in 0..n /\ i - 1 \in 0..n
      OBVIOUS
    <3>2. QED
      BY <3>1
  <2> HIDE DEF off
  <2>2. QED
    BY <1>4, <2>1
<1>7. FlattenSeq(ss) = g[n]
  <2>1. CASE n = 0
    <3>1. ss = <<>>
      BY <1>1, <2>1
    <3>2. QED
      BY <1>1, <1>3, <2>1, <3>1 DEF FlattenSeq
  <2>2. CASE n # 0
    <3> DEFINE Rec(f) == f = [i \in 1..n |-> IF i = 1 THEN ss[i] ELSE f[i - 1] \o ss[i]]
               F == CHOOSE f : Rec(f)
               h == [i \in 1..n |-> g[i]]
    <3>1. FlattenSeq(ss) = F[n]
      BY <1>1, <2>2, SMT DEF FlattenSeq
    <3>2. Rec(h)
      <4>1. ASSUME NEW i \in 1..n PROVE h[i] = IF i = 1 THEN ss[i] ELSE h[i - 1] \o ss[i]
        <5>1. CASE i = 1
          <6>1. g[1] = <<>> \o ss[1] /\ ss[1] \in Seq(T)
            <7>1. 1 \in 1..n /\ 1 - 1 = 0
              BY <5>1
            <7>2. QED
              BY <1>3, <1>4, <7>1
          <6>2. <<>> \o ss[1] = ss[1]
            BY <6>1, ConcatEmptySeq, Zenon
          <6>3. QED
            BY <5>1, <6>1, <6>2
        <5>2. CASE i # 1
          <6>1. i - 1 \in 1..n /\ h[i - 1] = g[i - 1] /\ h[i] = g[i]
            BY <5>2
          <6> HIDE DEF h
          <6>2. QED
            BY <1>4, <5>2, <6>1
        <5>3. QED
          BY <5>1, <5>2
      <4>2. QED
        BY <4>1
    <3>3. Rec(F)
      <4> HIDE DEF h, Rec
      <4>1. QED
        BY <3>2, Zenon
    <3> HIDE DEF F
    <3> DEFINE D == {k \in 0..n : k = 0 \/ F[k] = g[k]}
    <3>4. 0 \in D
      OBVIOUS
    <3>5. ASSUME NEW k \in 1..n, k - 1 \in D PROVE k \in D
      <4>1. F[k] = IF k = 1 THEN ss[k] ELSE F[k - 1] \o ss[k]
        BY <3>3
      <4>2. CASE k = 1
        <5>1. g[1] = <<>> \o ss[1] /\ ss[1] \in Seq(T)
          <6>1. 1 \in 1..n /\ 1 - 1 = 0
            BY <4>2
          <6>2. QED
            BY <1>3, <1>4, <6>1
        <5>2. <<>> \o ss[1] = ss[1]
          BY <5>1, ConcatEmptySeq, Zenon
        <5>3. QED
          BY <4>1, <4>2, <5>1, <5>2
      <4>3. CASE k # 1
        <5>1. F[k - 1] = g[k - 1]
          BY <3>5, <4>3
        <5>2. g[k] = g[k - 1] \o ss[k]
          BY <1>4
        <5>3. F[k] = g[k]
          BY <4>1, <4>3, <5>1, <5>2
        <5>4. QED
          BY <5>3
      <4>4. QED
        BY <4>2, <4>3
    <3>6. 0..n \subseteq D
      <4> HIDE DEF D
      <4>1. QED
        BY <3>4, <3>5, UpTo
    <3>7. QED
      BY <2>2, <3>1, <3>6
  <2>3. QED
    BY <2>1, <2>2
<1> DEFINE Good(m) ==
             /\ \A i \in 1..m : off[i - 1] <= off[i] /\ off[i] <= off[m]
             /\ \A i, h \in 1..m : i < h => off[i] <= off[h - 1]
             /\ \A i \in 1..m : \A j \in 1..Len(ss[i]) :
                  off[i - 1] + j \in 1..off[m] /\ g[m][off[i - 1] + j] = ss[i][j]
             /\ \A k \in 1..off[m] : \E i \in 1..m : \E j \in 1..Len(ss[i]) : k = off[i - 1] + j
           D == {m \in 0..n : Good(m)}
<1>8. 0 \in D
  BY <1>5
<1>9. ASSUME NEW m \in 1..n, m - 1 \in D PROVE m \in D
  <2>0. m \in 0..n /\ m - 1 \in 0..n /\ \A i \in 1..m : i \in 1..n /\ i \in 0..n /\ i - 1 \in 0..n
    OBVIOUS
  <2>2. Good(m - 1)
    BY <1>9
  <2>3. off[m] = Len(g[m]) /\ off[m - 1] = Len(g[m - 1])
    BY <2>0
  <2> HIDE DEF off
  <2>1. off[m] = off[m - 1] + Len(ss[m]) /\ off[m] \in Nat /\ off[m - 1] \in Nat /\ Len(ss[m]) \in Nat
    BY <1>5, <1>6, <2>0
  <2>11. \A i \in 1..off[m] : g[m][i] = IF i <= off[m - 1] THEN g[m - 1][i] ELSE ss[m][i - off[m - 1]]
    BY <1>4, <2>3
  <2>4. \A i \in 1..m : i \in 1..n /\ i - 1 \in 0..n /\ off[i] \in Nat /\ off[i - 1] \in Nat
    BY <1>5, <2>0
  <2>5. ASSUME NEW i \in 1..m PROVE off[i - 1] <= off[i] /\ off[i] <= off[m]
    <3>1. CASE i = m
      BY <2>1, <3>1
    <3>2. CASE i # m
      <4>1. i \in 1..m - 1
        BY <3>2
      <4>2. off[i - 1] <= off[i] /\ off[i] <= off[m - 1]
        BY <2>2, <4>1
      <4>3. QED
        BY <2>1, <2>4, <4>2
    <3>3. QED
      BY <3>1, <3>2
  <2>6. ASSUME NEW i \in 1..m, NEW h \in 1..m, i < h PROVE off[i] <= off[h - 1]
    <3>1. i \in 1..m - 1
      BY <2>6
    <3>2. CASE h = m
      BY <2>2, <3>1, <3>2
    <3>3. CASE h # m
      <4>1. h \in 1..m - 1
        BY <3>3
      <4>2. QED
        BY <2>2, <2>6, <3>1, <4>1
    <3>4. QED
      BY <3>2, <3>3
  <2>7. ASSUME NEW i \in 1..m, NEW j \in 1..Len(ss[i])
        PROVE  off[i - 1] + j \in 1..off[m] /\ g[m][off[i - 1] + j] = ss[i][j]
    <3>1. CASE i = m
      <4>1. off[m - 1] + j \in 1..off[m] /\ ~(off[m - 1] + j <= off[m - 1])
            /\ (off[m - 1] + j) - off[m - 1] = j
        BY <2>1, <3>1
      <4>2. QED
        BY <2>11, <3>1, <4>1
    <3>2. CASE i # m
      <4>1. i \in 1..m - 1
        BY <3>2
      <4>2. off[i - 1] + j \in 1..off[m - 1] /\ g[m - 1][off[i - 1] + j] = ss[i][j]
        BY <2>2, <4>1
      <4>3. off[i - 1] + j \in 1..off[m]
        BY <2>1, <4>2
      <4>4. QED
        BY <2>11, <4>2, <4>3
    <3>3. QED
      BY <3>1, <3>2
  <2>8. ASSUME NEW k \in 1..off[m]
        PROVE  \E i \in 1..m : \E j \in 1..Len(ss[i]) : k = off[i - 1] + j
    <3>1. CASE k <= off[m - 1]
      <4>1. k \in 1..off[m - 1]
        BY <2>1, <3>1
      <4>2. PICK i \in 1..m - 1 : \E j \in 1..Len(ss[i]) : k = off[i - 1] + j
        BY <2>2, <4>1
      <4>3. i \in 1..m
        OBVIOUS
      <4>4. QED
        BY <4>2, <4>3
    <3>2. CASE k > off[m - 1]
      <4>1. k - off[m - 1] \in 1..Len(ss[m]) /\ k = off[m - 1] + (k - off[m - 1]) /\ m \in 1..m
        BY <2>1, <3>2
      <4>2. QED
        BY <4>1
    <3>3. QED
      BY <2>1, <3>1, <3>2
  <2>9. Good(m)
    BY <2>5, <2>6, <2>7, <2>8
  <2> HIDE DEF Good
  <2>10. QED
    BY <2>9
<1>10. 0..n \subseteq D
  <2> HIDE DEF D
  <2>1. QED
    BY <1>8, <1>9, UpTo
<1>11. Good(n)
  <2>1. n \in D
    <3> HIDE DEF D
    <3>1. QED
      BY <1>10
  <2> HIDE DEF Good
  <2>2. QED
    BY <2>1
<1>12. FlattenSeq(ss) \in Seq(T) /\ Len(FlattenSeq(ss)) = off[n]
  <2>1. n \in 0..n /\ off[n] = Len(g[n])
    OBVIOUS
  <2>2. QED
    BY <1>3, <1>7, <2>1
<1> HIDE DEF off
<1>13. /\ \A i \in 1..n : \A j \in 1..Len(ss[i]) :
            off[i - 1] + j \in 1..off[n] /\ FlattenSeq(ss)[off[i - 1] + j] = ss[i][j]
       /\ \A k \in 1..off[n] : \E i \in 1..n : \E j \in 1..Len(ss[i]) : k = off[i - 1] + j
       /\ \A i, h \in 1..n : i < h => off[i] <= off[h - 1]
  BY <1>7, <1>11
<1> HIDE DEF Good
<1>15. IsFlat(off, n, ss)
  BY <1>5, <1>6, <1>12, <1>13 DEF IsFlat
<1>16. QED
  BY <1>12, <1>15

-----------------------------------------------------------------------------
(* What a call returns.                                                       *)

\* The phrases of a file that say something, in its order, with their places.
Worded(f) == {i \in DOMAIN f.phrases : f.phrases[i].text # Blank}
\* The phrases of a file that stay are its phrases with words, in order.
LEMMA SpokenIs ==
  ASSUME NEW f \in OutputFile
  PROVE  /\ Spoken(f) \in Seq(Phrase) /\ Cardinality(Worded(f)) \in Nat
         /\ Len(Spoken(f)) = Cardinality(Worded(f))
         /\ Worded(f) \in SUBSET Nat
         /\ \E at : IsPick(at, Cardinality(Worded(f)), Worded(f), f.phrases)
<1> DEFINE n == Len(f.phrases)
           m == Cardinality(Worded(f))
<1>1. f.phrases \in Seq(Phrase) /\ n \in Nat /\ DOMAIN f.phrases = 1..n
  BY LenProperties DEF OutputFile
<1>2. Worded(f) \in SUBSET (1..n)
  BY <1>1 DEF Worded
<1>3. m \in 0..n /\ \E at : IsPick(at, m, Worded(f), f.phrases)
  BY <1>1, <1>2, Picks
<1>4. PICK at : IsPick(at, m, Worded(f), f.phrases)
  BY <1>3
<1>5. Spoken(f) = [k \in 1..m |-> f.phrases[at[k]]]
  BY <1>4 DEF Spoken, Worded, IsPick
<1>6. \A k \in 1..m : f.phrases[at[k]] \in Phrase
  BY <1>1, <1>2, <1>4, ElementOfSeq DEF IsPick
<1>7. Spoken(f) \in Seq(Phrase) /\ Len(Spoken(f)) = m
  <2>1. m \in Nat
    BY <1>1, <1>3
  <2> HIDE DEF m
  <2>2. QED
    BY <1>5, <1>6, <2>1, SeqDef
<1>8. QED
  BY <1>1, <1>2, <1>3, <1>7

\* A sorting of the places that the phrases of some files have: all of them, each
\* once, in the order of IsBefore.
IsSorting(pl, n, fs) ==
  /\ pl \in [1..n -> Said(fs)]
  /\ \A p \in Said(fs) : \E k \in 1..n : pl[k] = p
  /\ \A j, k \in 1..n : j < k => IsBefore(fs, pl[j], pl[k])

\* There is one along which the merged phrases are listed.
LEMMA MergedSorts ==
  ASSUME NEW fs \in Seq(OutputFile)
  PROVE  /\ Merged(fs) \in Seq(Phrase)
         /\ \E pl : /\ IsSorting(pl, Len(Merged(fs)), fs)
                    /\ \A k \in 1..Len(Merged(fs)) : Merged(fs)[k] = PhraseAt(fs, pl[k])
<1> DEFINE n == Len(fs)
           ss == [i \in 1..n |-> Spoken(fs[i])]
           all == FlattenSeq(ss)
           size(i) == Cardinality(Worded(fs[i]))
           at == [i \in 1..n |-> CHOOSE a : IsPick(a, size(i), Worded(fs[i]), fs[i].phrases)]
<1>1. n \in Nat /\ DOMAIN fs = 1..n /\ \A i \in 1..n : fs[i] \in OutputFile
  BY LenProperties, ElementOfSeq
<1>2. ASSUME NEW i \in 1..n
      PROVE  /\ ss[i] \in Seq(Phrase) /\ size(i) \in Nat /\ Len(ss[i]) = size(i)
             /\ IsPick(at[i], size(i), Worded(fs[i]), fs[i].phrases)
             /\ \A j \in 1..size(i) : /\ at[i][j] \in Worded(fs[i]) /\ at[i][j] \in Nat
                                      /\ ss[i][j] = fs[i].phrases[at[i][j]]
  <2>1. /\ Spoken(fs[i]) \in Seq(Phrase) /\ size(i) \in Nat /\ Len(Spoken(fs[i])) = size(i)
        /\ Worded(fs[i]) \in SUBSET Nat
        /\ \E a : IsPick(a, size(i), Worded(fs[i]), fs[i].phrases)
    BY <1>1, SpokenIs
  <2>2. IsPick(at[i], size(i), Worded(fs[i]), fs[i].phrases)
    BY <2>1
  <2>3. Spoken(fs[i]) = Picked(fs[i].phrases, Worded(fs[i]))
    BY DEF Spoken, Worded
  <2>4. ss[i] = Spoken(fs[i])
    OBVIOUS
  <2> HIDE DEF at, ss
  <2>5. \A j \in 1..size(i) : at[i][j] \in Worded(fs[i]) /\ ss[i][j] = fs[i].phrases[at[i][j]]
    <3> DEFINE m == size(i)
               a == at[i]
               L == Worded(fs[i])
               ph == fs[i].phrases
    <3>1. a \in [1..m -> L] /\ Picked(ph, L) = [k \in 1..m |-> ph[a[k]]]
      BY <2>2 DEF IsPick
    <3>2. ss[i] = Picked(ph, L)
      BY <2>3, <2>4
    <3> HIDE DEF m, a, L, ph
    <3>3. \A j \in 1..m : a[j] \in L /\ ss[i][j] = ph[a[j]]
      BY <3>1, <3>2
    <3>4. QED
      BY <3>3 DEF m, a, L, ph
  <2>6. QED
    BY <2>1, <2>2, <2>4, <2>5
<1>3. ss \in [1..n -> Seq(Phrase)]
  BY <1>2
<1> HIDE DEF at, ss
<1>4. all \in Seq(Phrase) /\ \E o : IsFlat(o, n, ss)
  BY <1>1, <1>3, Flattens
<1>5. PICK off : IsFlat(off, n, ss)
  BY <1>4
<1> DEFINE N == off[n]
<1>6. N \in Nat /\ Len(all) = N /\ DOMAIN all = 1..N /\ \A k \in 1..N : all[k] \in Phrase
  <2>1. N \in Nat /\ Len(all) = N
    BY <1>1, <1>5 DEF IsFlat
  <2>2. QED
    BY <1>4, <2>1, LenProperties, ElementOfSeq
\* Where an entry of the whole list comes from.
<1> DEFINE from(k) == CHOOSE p \in (1..n) \X Nat :
                        p[2] \in 1..size(p[1]) /\ k = off[p[1] - 1] + p[2]
           pl0 == [k \in 1..N |-> <<from(k)[1], at[from(k)[1]][from(k)[2]]>>]
<1>7. ASSUME NEW k \in 1..N
      PROVE  /\ from(k) \in (1..n) \X Nat
             /\ from(k)[2] \in 1..size(from(k)[1]) /\ k = off[from(k)[1] - 1] + from(k)[2]
  <2>1. PICK i \in 1..n : \E j \in 1..Len(ss[i]) : k = off[i - 1] + j
    BY <1>5 DEF IsFlat
  <2>2. PICK j \in 1..size(i) : k = off[i - 1] + j
    BY <1>2, <2>1
  <2>3. <<i, j>> \in (1..n) \X Nat /\ <<i, j>>[1] = i /\ <<i, j>>[2] = j
    BY <1>2
  <2>4. \E p \in (1..n) \X Nat : p[2] \in 1..size(p[1]) /\ k = off[p[1] - 1] + p[2]
    BY <2>2, <2>3
  <2> HIDE DEF size
  <2>5. QED
    BY <2>4
<1> HIDE DEF from
\* The place, file and index, is of a phrase that says something, and the one listed.
<1>8. ASSUME NEW k \in 1..N
      PROVE  pl0[k] \in Said(fs) /\ all[k] = PhraseAt(fs, pl0[k])
  <2> DEFINE i == from(k)[1]
             j == from(k)[2]
  <2>1. i \in 1..n /\ j \in 1..size(i) /\ k = off[i - 1] + j
    BY <1>7
  <2> HIDE DEF i, j
  <2>2. pl0[k] = <<i, at[i][j]>>
    BY DEF i, j
  <2>3. at[i][j] \in Worded(fs[i]) /\ ss[i][j] = fs[i].phrases[at[i][j]] /\ Len(ss[i]) = size(i)
    BY <1>2, <2>1
  <2>4. all[k] = ss[i][j]
    BY <1>5, <2>1, <2>3 DEF IsFlat
  <2>5. PhraseAt(fs, pl0[k]) = fs[i].phrases[at[i][j]]
    BY <2>2 DEF PhraseAt
  <2>6. at[i][j] \in DOMAIN fs[i].phrases /\ fs[i].phrases[at[i][j]].text # Blank
    BY <2>3 DEF Worded
  <2>7. pl0[k] \in UNION {{x} \X DOMAIN fs[x].phrases : x \in DOMAIN fs}
    BY <1>1, <2>1, <2>2, <2>6
  <2> HIDE DEF pl0
  <2>8. QED
    BY <2>3, <2>4, <2>5, <2>6, <2>7 DEF Said
<1>9. ASSUME NEW p \in Said(fs) PROVE \E k \in 1..N : pl0[k] = p
  <2>1. PICK i \in 1..n : p \in {i} \X DOMAIN fs[i].phrases
    BY <1>1 DEF Said
  <2>2. p = <<i, p[2]>> /\ p[2] \in DOMAIN fs[i].phrases /\ fs[i].phrases[p[2]].text # Blank
    BY <2>1 DEF Said, PhraseAt
  <2>3. p[2] \in Worded(fs[i])
    BY <2>2 DEF Worded
  <2>4. PICK j \in 1..size(i) : at[i][j] = p[2]
    BY <1>2, <2>3 DEF IsPick
  <2> DEFINE k == off[i - 1] + j
  <2>5. k \in 1..N
    BY <1>2, <1>5 DEF IsFlat
  <2>6. /\ from(k)[1] \in 1..n /\ from(k)[2] \in 1..size(from(k)[1])
        /\ k = off[from(k)[1] - 1] + from(k)[2]
    BY <1>7, <2>5
  <2>7. from(k)[1] = i /\ from(k)[2] = j
    <3> DEFINE h == from(k)[1]
               l == from(k)[2]
    <3>1. h \in 1..n /\ l \in 1..size(h) /\ off[i - 1] + j = off[h - 1] + l
      BY <2>6
    <3> HIDE DEF h, l
    <3>2. /\ \A x \in {i, h} : off[x] \in Nat /\ off[x - 1] \in Nat /\ off[x] = off[x - 1] + size(x)
          /\ size(i) \in Nat /\ size(h) \in Nat
      <4>1. \A x \in {i, h} : x \in 1..n /\ x \in 0..n /\ x - 1 \in 0..n
        BY <1>1, <3>1
      <4>2. QED
        BY <1>2, <1>5, <4>1 DEF IsFlat
    <3>3. i < h => off[i] <= off[h - 1]
      BY <1>5, <3>1 DEF IsFlat
    <3>4. h < i => off[h] <= off[i - 1]
      BY <1>5, <3>1 DEF IsFlat
    <3> HIDE DEF size
    <3>5. h = i
      BY <3>1, <3>2, <3>3, <3>4, SMTT(30)
    <3>6. l = j
      BY <3>1, <3>2, <3>5
    <3>7. QED
      BY <3>5, <3>6 DEF h, l
  <2>8. pl0[k] = <<i, at[i][j]>>
    BY <2>5, <2>7
  <2>9. QED
    BY <2>2, <2>4, <2>5, <2>8
\* Earlier in the list is in an earlier file, or earlier in the same.
<1>10. ASSUME NEW j \in 1..N, NEW k \in 1..N, j < k
       PROVE  \/ pl0[j][1] < pl0[k][1]
              \/ pl0[j][1] = pl0[k][1] /\ pl0[j][2] < pl0[k][2]
  <2> DEFINE a == from(j)[1]
             x == from(j)[2]
             c == from(k)[1]
             y == from(k)[2]
  <2>1. /\ a \in 1..n /\ x \in 1..size(a) /\ j = off[a - 1] + x
        /\ c \in 1..n /\ y \in 1..size(c) /\ k = off[c - 1] + y
    BY <1>7
  <2>2. pl0[j] = <<a, at[a][x]>> /\ pl0[k] = <<c, at[c][y]>>
    OBVIOUS
  <2> HIDE DEF a, x, c, y, pl0
  <2>3. /\ off[a - 1] \in Nat /\ off[c - 1] \in Nat /\ off[c] = off[c - 1] + size(c)
        /\ size(a) \in Nat /\ size(c) \in Nat
    <3>1. a - 1 \in 0..n /\ c - 1 \in 0..n
      BY <1>1, <2>1
    <3>2. QED
      BY <1>2, <1>5, <2>1, <3>1 DEF IsFlat
  <2>4. c < a => off[c] <= off[a - 1]
    BY <1>5, <2>1 DEF IsFlat
  <2>5. a <= c /\ (a = c => x < y)
    <3>1. a \in Int /\ c \in Int /\ x \in Int /\ y \in Int /\ y <= size(c) /\ 1 <= x
      BY <1>1, <2>1, <2>3
    <3>2. CASE c < a
      <4> DEFINE u == off[a - 1]
                 v == off[c - 1]
                 z == size(c)
      <4>1. v + z <= u
        BY <2>3, <2>4, <3>2
      <4>2. j = u + x /\ k = v + y /\ u \in Nat /\ v \in Nat /\ z \in Nat /\ y <= z
        BY <2>1, <2>3, <3>1
      <4> HIDE DEF u, v, z
      <4>3. QED
        BY <1>10, <3>1, <4>1, <4>2
    <3>3. CASE a <= c
      <4>1. a = c => x < y
        <5> DEFINE u == off[a - 1]
        <5>1. j = u + x /\ u \in Nat /\ (a = c => k = u + y)
          BY <2>1, <2>3
        <5> HIDE DEF u
        <5>2. QED
          BY <1>10, <3>1, <5>1
      <4>2. QED
        BY <3>3, <4>1
    <3>4. QED
      BY <3>1, <3>2, <3>3
  <2>6. a = c => at[a][x] < at[c][y]
    BY <1>2, <2>1, <2>5 DEF IsPick
  <2>7. QED
    BY <1>1, <2>1, <2>2, <2>5, <2>6
<1> HIDE DEF pl0, N, all
<1> DEFINE key == [k \in 1..N |-> all[k].start]
<1>11. key \in [1..N -> Int] /\ Merged(fs) = SortedBy(key, all)
  <2>1. key \in [1..N -> Int]
    BY <1>6 DEF Phrase
  <2>2. key = [k \in DOMAIN all |-> all[k].start]
    BY <1>6
  <2>3. QED
    BY <2>1, <2>2 DEF Merged, all, ss
<1>12. \E o : IsSort(o, N, key, all)
  <2> HIDE DEF key
  <2>1. QED
    BY <1>6, <1>11, Sorts
<1>13. PICK srt : IsSort(srt, N, key, all)
  BY <1>12
<1> DEFINE pl == [k \in 1..N |-> pl0[srt[k]]]
<1>14. Merged(fs) = [k \in 1..N |-> all[srt[k]]] /\ srt \in [1..N -> 1..N]
  BY <1>11, <1>13 DEF IsSort
<1>15. Merged(fs) \in Seq(Phrase) /\ Len(Merged(fs)) = N
  BY <1>6, <1>14, SeqDef
<1>16. ASSUME NEW k \in 1..N PROVE Merged(fs)[k] = PhraseAt(fs, pl[k]) /\ pl[k] \in Said(fs)
  BY <1>8, <1>14
<1>17. ASSUME NEW p \in Said(fs) PROVE \E k \in 1..N : pl[k] = p
  <2>1. PICK l \in 1..N : pl0[l] = p
    BY <1>9
  <2>2. PICK k \in 1..N : srt[k] = l
    BY <1>13 DEF IsSort
  <2>3. QED
    BY <2>1, <2>2
<1>18. ASSUME NEW j \in 1..N, NEW k \in 1..N, j < k PROVE IsBefore(fs, pl[j], pl[k])
  <2>1. /\ key[srt[j]] <= key[srt[k]]
        /\ key[srt[j]] = key[srt[k]] => srt[j] < srt[k]
        /\ srt[j] \in 1..N /\ srt[k] \in 1..N
    BY <1>13, <1>18 DEF IsSort
  <2>2. /\ key[srt[j]] = PhraseAt(fs, pl[j]).start /\ key[srt[j]] \in Int
        /\ key[srt[k]] = PhraseAt(fs, pl[k]).start /\ key[srt[k]] \in Int
    <3>1. key[srt[j]] = all[srt[j]].start /\ key[srt[k]] = all[srt[k]].start
      BY <2>1
    <3>2. QED
      BY <1>8, <1>11, <2>1, <3>1
  <2>3. key[srt[j]] = key[srt[k]] =>
          \/ pl[j][1] < pl[k][1]
          \/ pl[j][1] = pl[k][1] /\ pl[j][2] < pl[k][2]
    BY <1>10, <2>1
  <2> HIDE DEF key, pl
  <2>4. QED
    BY <2>1, <2>2, <2>3 DEF IsBefore
<1> HIDE DEF pl
<1>19. pl \in [1..N -> Said(fs)]
  BY <1>16 DEF pl
<1>20. IsSorting(pl, N, fs)
  BY <1>17, <1>18, <1>19 DEF IsSorting
<1>21. QED
  BY <1>15, <1>16, <1>20

\* The place of an element in a sorting is the number of those before it.
IsListing(pl, n, R, S) ==
  /\ pl \in [1..n -> S]
  /\ \A p \in S : \E k \in 1..n : pl[k] = p
  /\ \A j, k \in 1..n : j < k => <<pl[j], pl[k]>> \in R
  /\ \A x, y \in S : <<x, y>> \in R => <<y, x>> \notin R
\* In a sorting each element has as many before it as its place says.
LEMMA SortingRanks ==
  ASSUME NEW n \in Nat, NEW S, NEW R, NEW pl, IsListing(pl, n, R, S)
  PROVE  /\ Cardinality(S) = n
         /\ \A k \in 1..n : Rank(pl[k], R, S) = k - 1
<1>0. /\ pl \in [1..n -> S]
      /\ \A p \in S : \E k \in 1..n : pl[k] = p
      /\ \A j, k \in 1..n : j < k => <<pl[j], pl[k]>> \in R
      /\ \A x, y \in S : <<x, y>> \in R => <<y, x>> \notin R
  BY DEF IsListing
<1> USE <1>0
<1>1. \A x \in S : <<x, x>> \notin R
  OBVIOUS
<1>2. \A j, k \in 1..n : pl[j] = pl[k] => j = k
  <2>1. ASSUME NEW j \in 1..n, NEW k \in 1..n, pl[j] = pl[k], j # k PROVE FALSE
    <3>1. j < k \/ k < j
      BY <2>1
    <3>2. <<pl[j], pl[k]>> \in R \/ <<pl[k], pl[j]>> \in R
      BY <3>1
    <3>3. QED
      BY <1>1, <2>1, <3>2
  <2>2. QED
    BY <2>1
<1>3. Cardinality(S) = n
  <2>1. pl \in Bijection(1..n, S)
    BY <1>2 DEF Bijection, Injection, Surjection, IsInjective
  <2>2. ExistsBijection(1..n, S)
    BY <2>1 DEF ExistsBijection
  <2>3. IsFiniteSet(1..n) /\ Cardinality(1..n) = n
    BY FS_Interval
  <2>4. QED
    BY <2>2, <2>3, FS_Bijection
<1>4. ASSUME NEW k \in 1..n PROVE Rank(pl[k], R, S) = k - 1
  <2> DEFINE B == {y \in S : <<y, pl[k]>> \in R}
             h == [j \in 1..k - 1 |-> pl[j]]
  <2>1. ASSUME NEW j \in 1..k - 1 PROVE j \in 1..n /\ pl[j] \in B
    <3>1. j \in 1..n /\ j < k
      OBVIOUS
    <3>2. QED
      BY <3>1
  <2>2. ASSUME NEW y \in B PROVE \E j \in 1..k - 1 : pl[j] = y
    <3>1. PICK j \in 1..n : pl[j] = y
      OBVIOUS
    <3>2. ~(k < j)
      <4>1. k < j => <<pl[k], pl[j]>> \in R
        OBVIOUS
      <4>2. QED
        BY <3>1, <4>1
    <3>3. j # k
      BY <1>1, <3>1
    <3>4. j \in 1..k - 1
      BY <3>2, <3>3
    <3>5. QED
      BY <3>1, <3>4
  <2>3. \A i, j \in 1..k - 1 : h[i] = h[j] => i = j
    BY <1>2, <2>1
  <2> HIDE DEF B
  <2>4. h \in Bijection(1..k - 1, B)
    BY <2>1, <2>2, <2>3 DEF Bijection, Injection, Surjection, IsInjective
  <2>5. ExistsBijection(1..k - 1, B)
    <3> HIDE DEF h
    <3>1. QED
      BY <2>4 DEF ExistsBijection
  <2>6. IsFiniteSet(1..k - 1) /\ Cardinality(1..k - 1) = k - 1
    BY FS_Interval
  <2>7. Cardinality(B) = k - 1
    BY <2>5, <2>6, FS_Bijection
  <2>8. QED
    BY <2>7 DEF Rank, B
<1>5. QED
  BY <1>3, <1>4

\* What merging some files gives is all they say, in order.
LEMMA MergedIsTranscript ==
  ASSUME NEW fs \in Seq(OutputFile)
  PROVE  Merged(fs) \in Seq(Phrase) /\ IsTranscript(Merged(fs), fs)
<1> DEFINE n == Len(Merged(fs))
           S == Said(fs)
           R == {p \in S \X S : IsBefore(fs, p[1], p[2])}
<1>1. Merged(fs) \in Seq(Phrase) /\ n \in Nat
  BY MergedSorts, LenProperties
<1>2. PICK pl : /\ IsSorting(pl, n, fs)
                /\ \A k \in 1..n : Merged(fs)[k] = PhraseAt(fs, pl[k])
  BY MergedSorts
<1>3. /\ pl \in [1..n -> S]
      /\ \A p \in S : \E k \in 1..n : pl[k] = p
      /\ \A j, k \in 1..n : j < k => IsBefore(fs, pl[j], pl[k])
  BY <1>2 DEF IsSorting
<1>4. \A x, y \in S : <<x, y>> \in R <=> IsBefore(fs, x, y)
  OBVIOUS
<1>5. ASSUME NEW x \in S
      PROVE  PhraseAt(fs, x).start \in Int /\ x[1] \in Int /\ x[2] \in Int
  <2>1. PICK i \in DOMAIN fs : x \in {i} \X DOMAIN fs[i].phrases
    BY DEF Said
  <2>2. fs[i] \in OutputFile /\ i \in Nat
    BY LenProperties, ElementOfSeq
  <2>3. x[1] = i /\ x[2] \in DOMAIN fs[i].phrases /\ PhraseAt(fs, x) = fs[i].phrases[x[2]]
    BY <2>1 DEF PhraseAt
  <2>4. fs[i].phrases \in Seq(Phrase)
    BY <2>2 DEF OutputFile
  <2>5. x[2] \in Nat /\ fs[i].phrases[x[2]] \in Phrase
    BY <2>3, <2>4, LenProperties, ElementOfSeq
  <2>6. QED
    BY <2>2, <2>3, <2>5 DEF Phrase
<1>6. ASSUME NEW x \in S, NEW y \in S, IsBefore(fs, x, y) PROVE ~IsBefore(fs, y, x)
  BY <1>5, <1>6 DEF IsBefore
<1> HIDE DEF R, n
<1>7. \A x, y \in S : <<x, y>> \in R => <<y, x>> \notin R
  BY <1>4, <1>6
<1>8. \A j, k \in 1..n : j < k => <<pl[j], pl[k]>> \in R
  BY <1>3, <1>4
<1> HIDE DEF S
<1>9. Cardinality(S) = n /\ \A k \in 1..n : Rank(pl[k], R, S) = k - 1
  <2>1. IsListing(pl, n, R, S)
    BY <1>3, <1>7, <1>8 DEF IsListing
  <2>2. n \in Nat
    BY <1>1 DEF n
  <2>3. QED
    BY <2>1, <2>2, SortingRanks
<1>10. ASSUME NEW p \in S
       PROVE  Merged(fs)[Cardinality({q \in S : IsBefore(fs, q, p)}) + 1] = PhraseAt(fs, p)
  <2>1. PICK k \in 1..n : pl[k] = p
    BY <1>3
  <2>2. {q \in S : IsBefore(fs, q, p)} = {q \in S : <<q, p>> \in R}
    BY <1>4
  <2>3. Cardinality({q \in S : IsBefore(fs, q, p)}) = k - 1
    BY <1>9, <2>1, <2>2 DEF Rank
  <2>4. k - 1 + 1 = k
    BY <1>1
  <2>5. QED
    BY <1>2, <2>1, <2>3, <2>4
<1>11. Len(Merged(fs)) = Cardinality(Said(fs))
  BY <1>9 DEF S, n
<1>12. QED
  BY <1>1, <1>10, <1>11 DEF IsTranscript, S

\* The files that fetch_results() downloads.
LEMMA TranscriptionFilesIs ==
  ASSUME NEW fs \in Seq(OutputFile)
  PROVE  TranscriptionFiles(fs) \in Seq(OutputFile)
<1> DEFINE n == Len(fs)
           L == {i \in DOMAIN fs : fs[i].kind = "Transcription"}
           m == Cardinality(L)
<1>1. n \in Nat /\ DOMAIN fs = 1..n /\ \A i \in 1..n : fs[i] \in OutputFile
  BY LenProperties, ElementOfSeq
<1>2. L \in SUBSET (1..n)
  BY <1>1
<1> HIDE DEF L
<1>3. m \in 0..n /\ \E at : IsPick(at, m, L, fs)
  BY <1>1, <1>2, Picks
<1>4. PICK at : IsPick(at, m, L, fs)
  BY <1>3
<1>5. TranscriptionFiles(fs) = [k \in 1..m |-> fs[at[k]]] /\ at \in [1..m -> L]
  BY <1>4 DEF TranscriptionFiles, IsPick, L
<1> HIDE DEF m
<1>6. \A k \in 1..m : fs[at[k]] \in OutputFile
  BY <1>1, <1>2, <1>5
<1>7. m \in Nat
  BY <1>1, <1>3
<1>8. QED
  BY <1>5, <1>6, <1>7, SeqDef

Transcription == [status : {"Running", "Succeeded", "Failed"}, files : Outputs]


\* What the clock and the counters are, and what is known before the polling.
Types ==
  /\ doing \in {"submit", "poll", "files", "download", "fast", "returned", "raised"}
  /\ step \in Steps
  /\ attempt \in 0..Retries /\ timer \in Nat /\ left \in Int /\ ready \in Int
  /\ interval \in 0..PollMax
  /\ made \in Seq(Transcription) /\ owed \in Nat /\ uri \in 0..Len(made)
  /\ doing \in {"returned", "raised"} <=> step = "over"
  /\ error # "none" => doing = "raised"
  /\ step = "backoff" => attempt < Retries
  /\ step = "interval" => doing = "poll"
  /\ Submits => left = Timeout
  /\ Submits /\ step = "served" => uri # 0
  /\ doing = "poll" => uri # 0
\* The ticks that n attempts may have taken, with the sleep after each.
Spent(n) == n * (ReqMax + Cap)

\* How late a poll may be: it began no later than a longest sleep after the
\* deadline, and each attempt and each sleep behind it has had its time.
Lateness ==
  /\ step \in {"sent", "served"} => timer <= ReqMax
  /\ step = "backoff" => timer <= Cap
  /\ step = "interval" => timer <= PollMax
  /\ doing = "poll" =>
       /\ step = "interval" => left >= timer - PollMax
       /\ step = "call" => left >= -(PollMax + Spent(attempt))
       /\ step \in {"sent", "served"} => left >= -(PollMax + Spent(attempt) + timer)
       /\ step = "backoff" => left >= -(PollMax + Spent(attempt) + ReqMax + Cap - timer)
  /\ error = "timeout" => left >= -(PollMax + Budget)

\* An answer "Running" is from before the success, if there is one by now, and
\* the request it answers had not begun then or is still the one under way.
Informed ==
  /\ doing = "poll" /\ made[uri].status # "Succeeded" => ready = Never
  /\ doing = "poll" /\ step = "served" /\ status = "Running" => ready <= left + timer
  /\ error = "timeout" => left < 0 /\ ready < ReqMax

\* Each attempt to submit asks for one transcription at most, made or still to
\* be made.
Counted ==
  /\ Submits /\ step \in {"call", "sent"} => Asked <= attempt
  /\ Submits /\ step \in {"served", "backoff"} => Asked <= attempt + 1

\* What is fetched is the transcription polled, once it has succeeded: the files
\* downloaded and those still to come are its Transcription files, in order.
TheFiles == TranscriptionFiles(made[uri].files)
Whole ==
  /\ status \in {"Running", "Succeeded", "Failed"}
  /\ left \in Never..Timeout /\ ready \in Never..Timeout /\ interval >= PollInterval
  /\ todo \in Seq(OutputFile) /\ fetched \in Seq(OutputFile) /\ result \in Seq(Phrase)
  /\ doing = "raised" => error # "none"
  /\ doing \in {"poll", "files", "download", "returned"} => uri # 0
  /\ doing \in {"submit", "poll", "files", "fast"} => fetched = <<>>
  /\ doing = "poll" /\ step = "served" /\ status = "Succeeded" => made[uri].status = "Succeeded"
  /\ doing \in {"files", "download"} => made[uri].status = "Succeeded"
  /\ doing = "download" => todo # <<>> /\ fetched \o todo = TheFiles
  /\ doing = "returned" =>
       IF fetched = <<>> THEN result = made[uri].files[1].phrases
       ELSE made[uri].status = "Succeeded" /\ TheFiles # <<>> /\ result = Merged(TheFiles)

Inv == Types /\ Lateness /\ Informed /\ Counted /\ Whole

-----------------------------------------------------------------------------
\* Another attempt spends a request and a sleep; all of them fit the budget.
LEMMA SpentFacts ==
  /\ Spent(0) = 0
  /\ \A n \in 0..Retries : Spent(n) \in Nat /\ Spent(n) + ReqMax <= Budget
  /\ \A n \in Nat : Spent(n + 1) = Spent(n) + ReqMax + Cap
<1> USE RetryAssumption, PollAssumption
<1>1. Spent(0) = 0 /\ \A n \in Nat : Spent(n + 1) = Spent(n) + ReqMax + Cap
  BY DEF Spent
<1>2. ASSUME NEW n \in 0..Retries PROVE Spent(n) \in Nat /\ Spent(n) + ReqMax <= Budget
  <2>1. PICK k \in Nat : Retries = n + k
    <3>1. Retries - n \in Nat /\ Retries = n + (Retries - n)
      OBVIOUS
    <3>2. QED
      BY <3>1
  <2>2. Budget = Spent(n) + Spent(k) + ReqMax /\ Spent(n) \in Nat /\ Spent(k) \in Nat
    BY <2>1 DEF Budget, Spent
  <2>3. QED
    BY <2>2
<1>3. QED
  BY <1>1, <1>2

\* The clock stops later than any bound.
LEMMA BudgetFacts == Budget \in Nat /\ Never = -(PollMax + Budget) - 1 /\ Never \in Int
BY RetryAssumption, PollAssumption DEF Budget, Never

\* What the end of a transcription changes.
LEMMA FinishEffect ==
  ASSUME Types, NEW i \in 1..Len(made), NEW s \in {"Succeeded", "Failed"},
         made' = [made EXCEPT ![i].status = s]
  PROVE  /\ made' \in Seq(Transcription) /\ Len(made') = Len(made)
         /\ made'[i].status = s
         /\ \A j \in 1..Len(made) : j # i => made'[j] = made[j]
<1> DEFINE e == [made[i] EXCEPT !.status = s]
<1>1. made \in Seq(Transcription) /\ made[i] \in Transcription
  BY DEF Types
<1>2. e \in Transcription /\ e.status = s
  BY <1>1 DEF Transcription
<1>3. made' = [made EXCEPT ![i] = e]
  OBVIOUS
<1> HIDE DEF e
<1>4. QED
  BY <1>1, <1>2, <1>3, ExceptSeq

\* A transcription more, behind those that are there.
LEMMA MakesOneMore ==
  ASSUME Types, Makes
  PROVE  /\ made' \in Seq(Transcription) /\ Len(made') = Len(made) + 1
         /\ \A j \in 1..Len(made) : made'[j] = made[j]
<1>1. PICK f \in Outputs : made' = Append(made, [status |-> "Running", files |-> f])
  BY DEF Makes
<1>2. made \in Seq(Transcription) /\ [status |-> "Running", files |-> f] \in Transcription
  BY DEF Types, Transcription
<1>3. QED
  BY <1>1, <1>2, AppendProperties

\* What the service's part in a request changes.
LEMMA ServeEffect ==
  ASSUME Types, Serve
  PROVE  /\ step = "sent" /\ step' = "served"
         /\ UNCHANGED <<doing, attempt, timer, left, interval, ready, owed, error>>
         /\ Submits => /\ made' \in Seq(Transcription) /\ Len(made') = Len(made) + 1
                      /\ uri' = Len(made) + 1
         /\ ~Submits => UNCHANGED <<made, uri>>
         /\ status' = IF doing = "poll" THEN made[uri].status ELSE status
<1>1. CASE Submits
  BY <1>1, MakesOneMore DEF Serve, clock, files
<1>2. CASE ~Submits
  BY <1>2 DEF Serve, clock, files
<1>3. QED
  BY <1>1, <1>2

\* A submission that is carried out late adds a transcription of its own.
LEMMA LateEffect ==
  ASSUME Types, ServeLate
  PROVE  /\ made' \in Seq(Transcription) /\ Len(made') = Len(made) + 1
         /\ \A j \in 1..Len(made) : made'[j] = made[j]
         /\ owed \in Nat /\ owed > 0 /\ owed' = owed - 1
         /\ UNCHANGED <<doing, step, attempt, timer, left, interval, ready, status, uri,
                        todo, fetched, result, error>>
BY MakesOneMore DEF ServeLate, clock, files, Types

\* What a request without a good answer changes, lost, throttled or refused.
LEMMA BrokenEffect ==
  ASSUME Types, Lost \/ Throttled \/ Refused
  PROVE  /\ step \in {"sent", "served"}
         /\ UNCHANGED <<attempt, left, interval, ready, made, uri, status>>
         /\ owed' = IF step = "sent" /\ Submits THEN owed + 1 ELSE owed
         /\ \/ /\ attempt < Retries /\ step' = "backoff" /\ timer' \in 0..Cap
               /\ UNCHANGED <<doing, error>>
            \/ /\ doing' = "raised" /\ step' = "over" /\ timer' = timer
               /\ error' \in {"retries", "http"}
<1>1. Delays \subseteq 0..Cap
  BY DEF Delays
<1>2. DelaysAsked \subseteq 0..Cap
  <2>1. ASSUME NEW x \in RetryAfters PROVE Least(x, Cap) \in 0..Cap
    <3>1. x \in Nat /\ Cap \in Nat
      BY RetryAssumption
    <3>2. QED
      BY <3>1 DEF Least
  <2>2. QED
    BY <1>1, <2>1 DEF DelaysAsked, Under
<1>3. QED
  BY <1>1, <1>2 DEF Lost, Throttled, Refused, GivesUp, Retry, Raise, UnderWay, clock, service

\* What fetching a result changes.
LEMMA FetchEffect ==
  ASSUME Types, Listed \/ Downloaded \/ Transcribed
  PROVE  /\ ~(doing \in {"submit", "poll"}) /\ step = "served"
         /\ UNCHANGED <<timer, left, interval, ready, made, owed, uri, status>>
         /\ \/ doing' = "download" /\ step' = "call" /\ attempt' = 0 /\ error' = error
            \/ doing' = "returned" /\ step' = "over" /\ attempt' = attempt /\ error' = error
            \/ doing' = "raised" /\ step' = "over" /\ attempt' = attempt /\ error' = "no files"
BY DEF Listed, Downloaded, Transcribed, Answered, Download, Turn, Raise, clock, service

\* The four parts of the invariant, each kept by every step.
LEMMA TypesStep == ASSUME Types, Counted, [Next]_vars PROVE Types'
<1> USE RetryAssumption, PollAssumption, BudgetFacts DEF Types, Steps, Submits
<1>1. CASE Tick
  BY <1>1 DEF Tick, UnderWay, Asleep, files, service
<1>2. CASE Serve
  <2>1. made' \in Seq(Transcription) /\ uri' \in 0..Len(made')
    BY <1>2, ServeEffect
  <2>2. Submits => uri' # 0
    BY <1>2, ServeEffect
  <2>3. QED
    BY <1>2, <2>1, <2>2, ServeEffect
<1>21. CASE ServeLate
  BY <1>21, LateEffect
<1>3. CASE Finish
  <2>1. PICK i \in 1..Len(made), s \in {"Succeeded", "Failed"} :
          /\ made' = [made EXCEPT ![i].status = s]
          /\ ready' = IF i = uri /\ s = "Succeeded" THEN left ELSE ready
    BY <1>3 DEF Finish
  <2>2. made' \in Seq(Transcription) /\ Len(made') = Len(made)
    BY <2>1, FinishEffect
  <2>3. QED
    BY <1>3, <2>1, <2>2 DEF Finish, files, service
<1>4. CASE Send
  BY <1>4 DEF Send, clock, files, service
<1>5. CASE Lost \/ Throttled \/ Refused
  BY <1>5, BrokenEffect, SMTT(30)
<1>6. CASE Wake
  BY <1>6 DEF Wake, Asleep, clock, files, service
<1>7. CASE Submitted
  BY <1>7 DEF Submitted, Answered, Turn, files, service
<1>8. CASE Succeeded \/ Failed
  <2>1. CASE Succeeded
    BY <2>1 DEF Succeeded, Answered, Turn, files, service
  <2>2. CASE Failed
    BY <2>2 DEF Failed, Answered, Raise, clock, files, service
  <2>3. QED
    BY <1>8, <2>1, <2>2
<1>9. CASE Late
  BY <1>9 DEF Late, Answered, Raise, clock, files, service
<1>10. CASE Pending
  <2>1. Longer \in 0..PollMax
    BY DEF Longer, Least
  <2>2. QED
    BY <1>10, <2>1 DEF Pending, Answered, files, service
<1>11. CASE Listed \/ Downloaded \/ Transcribed
  <2>1. /\ step = "served" /\ error = "none"
        /\ UNCHANGED <<timer, left, interval, ready, made, owed, uri>>
    BY <1>11, FetchEffect
  <2>2. CASE doing' = "download" /\ step' = "call" /\ attempt' = 0 /\ error' = error
    BY <2>1, <2>2
  <2>3. CASE doing' = "returned" /\ step' = "over" /\ attempt' = attempt /\ error' = error
    BY <2>1, <2>3
  <2>4. CASE doing' = "raised" /\ step' = "over" /\ attempt' = attempt /\ error' = "no files"
    BY <2>1, <2>4
  <2>5. QED
    BY <1>11, <2>2, <2>3, <2>4, FetchEffect
<1>12. CASE UNCHANGED vars
  BY <1>12 DEF vars, service
<1>13. QED
  BY <1>1, <1>2, <1>21, <1>3, <1>4, <1>5, <1>6, <1>7, <1>8, <1>9, <1>10, <1>11, <1>12
     DEF Next, Attempt, Answer

\* The clock passes a deadline by no more than one poll with its retries.
LEMMA LatenessStep == ASSUME Types, Lateness, [Next]_vars PROVE Lateness'
<1> USE RetryAssumption, PollAssumption, BudgetFacts, SpentFacts DEF Lateness
<1>0. /\ attempt \in 0..Retries /\ timer \in Nat /\ left \in Int /\ interval \in 0..PollMax
      /\ step \in Steps /\ (doing = "poll" => step # "over")
      /\ (step = "over" <=> doing \in {"returned", "raised"}) /\ (error # "none" => doing = "raised")
      /\ (step = "backoff" => attempt < Retries) /\ (Submits => left = Timeout)
  BY DEF Types, Submits
<1>01. /\ Spent(attempt) \in Nat /\ Spent(attempt) + ReqMax <= Budget
       /\ Spent(attempt + 1) = Spent(attempt) + ReqMax + Cap
  BY <1>0
<1>1. CASE Tick
  <2>1. doing = "poll" => left > Never
    BY <1>0, <1>01, <1>1 DEF Tick, UnderWay, Asleep
  <2>2. QED
    BY <1>0, <1>01, <1>1, <2>1 DEF Tick, UnderWay, Asleep, files, service
<1>2. CASE Serve
  BY <1>0, <1>01, <1>2, ServeEffect
<1>21. CASE ServeLate
  BY <1>0, <1>01, <1>21, LateEffect
<1>3. CASE Finish
  BY <1>3 DEF Finish, files, service
<1>4. CASE Send
  BY <1>0, <1>01, <1>4 DEF Send, clock, files, service
<1>5. CASE Lost \/ Throttled \/ Refused
  BY <1>0, <1>01, <1>5, BrokenEffect
<1>6. CASE Wake
  BY <1>0, <1>01, <1>6 DEF Wake, Asleep, clock, files, service
<1>7. CASE Submitted
  <2>1. doing' = "poll" /\ step' = "call" /\ attempt' = 0 /\ left' = Timeout /\ error' = "none"
    BY <1>0, <1>7 DEF Submitted, Answered, Turn, Submits
  <2>2. Spent(attempt') = 0
    BY <2>1
  <2>3. left' >= -(PollMax + Spent(attempt'))
    BY <2>1, <2>2
  <2>4. QED
    BY <2>1, <2>3
<1>8. CASE Succeeded \/ Failed
  BY <1>0, <1>01, <1>8 DEF Succeeded, Failed, Answered, Turn, Raise, clock, files, service
<1>9. CASE Late
  BY <1>0, <1>01, <1>9 DEF Late, Answered, Raise, clock, files, service
<1>10. CASE Pending
  BY <1>0, <1>01, <1>10 DEF Pending, Answered, files, service
<1>11. CASE Listed \/ Downloaded \/ Transcribed
  BY <1>0, <1>01, <1>11, FetchEffect
<1>12. CASE UNCHANGED vars
  BY <1>12 DEF vars, service
<1>13. QED
  BY <1>1, <1>2, <1>21, <1>3, <1>4, <1>5, <1>6, <1>7, <1>8, <1>9, <1>10, <1>11, <1>12
     DEF Next, Attempt, Answer

\* wait() is never later than one sleep and one request with its retries.
LEMMA InTime ==
  ASSUME Types, Lateness
  PROVE  doing = "poll" => left >= -(PollMax + Budget)
<1> SUFFICES ASSUME doing = "poll" PROVE left >= -(PollMax + Budget)
  OBVIOUS
<1>1. /\ attempt \in 0..Retries /\ timer \in Nat /\ left \in Int
      /\ step \in Steps /\ step # "over"
      /\ (step = "backoff" => attempt + 1 \in 0..Retries)
  BY RetryAssumption DEF Types
<1>2. Spent(attempt) \in Nat /\ Spent(attempt) + ReqMax <= Budget
  BY <1>1, SpentFacts
<1>3. step = "backoff" => Spent(attempt) + ReqMax + Cap <= Budget
  <2>1. step = "backoff" => Spent(attempt + 1) \in Nat /\ Spent(attempt + 1) + ReqMax <= Budget
    BY <1>1, SpentFacts
  <2>2. Spent(attempt + 1) = Spent(attempt) + ReqMax + Cap
    BY <1>1, SpentFacts
  <2>3. QED
    BY <2>1, <2>2, RetryAssumption, PollAssumption, BudgetFacts
<1>4. CASE step = "interval"
  BY <1>1, <1>4, PollAssumption, BudgetFacts DEF Lateness
<1>5. CASE step = "call"
  BY <1>1, <1>2, <1>5, PollAssumption, BudgetFacts DEF Lateness
<1>6. CASE step \in {"sent", "served"}
  BY <1>1, <1>2, <1>6, PollAssumption, BudgetFacts DEF Lateness
<1>7. CASE step = "backoff"
  BY <1>1, <1>2, <1>3, <1>7, RetryAssumption, PollAssumption, BudgetFacts DEF Lateness
<1>8. QED
  BY <1>1, <1>4, <1>5, <1>6, <1>7 DEF Steps

\* What a call knows of the service was so when it asked.
LEMMA InformedStep == ASSUME Types, Lateness, Informed, [Next]_vars PROVE Informed'
<1> USE RetryAssumption, PollAssumption, BudgetFacts DEF Informed
<1>0. /\ timer \in Nat /\ left \in Int /\ ready \in Int /\ uri \in 0..Len(made)
      /\ (doing = "poll" => uri # 0) /\ (error # "none" => doing = "raised")
      /\ (step = "over" <=> doing \in {"returned", "raised"})
      /\ made \in Seq(Transcription)
  BY DEF Types
<1>00. doing = "poll" => left > Never
  BY <1>0, InTime, PollAssumption, BudgetFacts
<1>1. CASE Tick
  BY <1>0, <1>00, <1>1 DEF Tick, UnderWay, Asleep, files, service
<1>2. CASE Serve
  BY <1>0, <1>00, <1>2, ServeEffect DEF Submits
<1>21. CASE ServeLate
  <2>1. /\ UNCHANGED <<doing, step, timer, left, ready, status, uri, error>>
        /\ \A j \in 1..Len(made) : made'[j] = made[j]
    BY <1>21, LateEffect
  <2>2. doing = "poll" => uri \in 1..Len(made)
    BY <1>0
  <2>3. QED
    BY <2>1, <2>2
<1>3. CASE Finish
  <2>1. PICK i \in 1..Len(made), s \in {"Succeeded", "Failed"} :
          /\ made[i].status = "Running"
          /\ made' = [made EXCEPT ![i].status = s]
          /\ ready' = IF i = uri /\ s = "Succeeded" THEN left ELSE ready
    BY <1>3 DEF Finish
  <2>2. /\ made'[i].status = s
        /\ \A j \in 1..Len(made) : j # i => made'[j] = made[j]
    BY <2>1, FinishEffect
  <2>3. UNCHANGED <<doing, step, timer, left, status, uri, error>> /\ step # "over"
    BY <1>3 DEF Finish
  <2>4. doing = "poll" => uri \in 1..Len(made)
    BY <1>0
  <2>5. CASE i = uri /\ s = "Succeeded"
    <3>1. made'[uri'].status = "Succeeded" /\ ready' = left
      BY <2>1, <2>2, <2>3, <2>5
    <3>2. error' = "none"
      BY <1>0, <2>3
    <3>3. ready' <= left' + timer'
      BY <1>0, <2>3, <3>1
    <3>4. QED
      BY <3>1, <3>2, <3>3
  <2>6. CASE ~(i = uri /\ s = "Succeeded")
    BY <1>0, <1>00, <2>1, <2>2, <2>3, <2>4, <2>6
  <2>7. QED
    BY <2>5, <2>6
<1>4. CASE Send
  BY <1>0, <1>4 DEF Send, clock, files, service
<1>5. CASE Lost \/ Throttled \/ Refused
  BY <1>0, <1>5, BrokenEffect
<1>6. CASE Wake
  BY <1>0, <1>6 DEF Wake, Asleep, clock, files, service
<1>7. CASE Submitted
  BY <1>0, <1>7 DEF Submitted, Answered, Turn, files, service, Submits
<1>8. CASE Succeeded \/ Failed
  BY <1>0, <1>8 DEF Succeeded, Failed, Answered, Turn, Raise, clock, files, service
<1>9. CASE Late
  <2>1. timer <= ReqMax
    BY <1>9 DEF Late, Answered, Lateness
  <2>2. QED
    BY <1>0, <1>9, <2>1 DEF Late, Answered, Raise, clock, files, service
<1>10. CASE Pending
  BY <1>0, <1>10 DEF Pending, Answered, files, service
<1>11. CASE Listed \/ Downloaded \/ Transcribed
  BY <1>0, <1>11, FetchEffect
<1>12. CASE UNCHANGED vars
  BY <1>12 DEF vars, service
<1>13. QED
  BY <1>1, <1>2, <1>21, <1>3, <1>4, <1>5, <1>6, <1>7, <1>8, <1>9, <1>10, <1>11, <1>12
     DEF Next, Attempt, Answer

\* A submission costs an attempt, so that attempts bound transcriptions.
LEMMA CountedStep == ASSUME Types, Counted, [Next]_vars PROVE Counted'
<1> USE DEF Counted, Submits, Asked
<1>0. /\ attempt \in 0..Retries /\ Len(made) \in Nat /\ owed \in Nat /\ step \in Steps
      /\ (step = "interval" => doing = "poll") /\ made \in Seq(Transcription)
  BY DEF Types
<1>1. CASE Tick
  BY <1>0, <1>1 DEF Tick, files, service
<1>2. CASE Serve
  BY <1>0, <1>2, ServeEffect
<1>21. CASE ServeLate
  BY <1>0, <1>21, LateEffect
<1>3. CASE Finish
  <2>1. PICK i \in 1..Len(made), s \in {"Succeeded", "Failed"} :
          made' = [made EXCEPT ![i].status = s]
    BY <1>3 DEF Finish
  <2>2. made' \in Seq(Transcription) /\ Len(made') = Len(made)
    BY <2>1, FinishEffect
  <2>3. QED
    BY <1>0, <1>3, <2>2 DEF Finish, files, service
<1>4. CASE Send
  BY <1>0, <1>4 DEF Send, clock, files, service
<1>5. CASE Lost \/ Throttled \/ Refused
  BY <1>0, <1>5, BrokenEffect
<1>6. CASE Wake
  BY <1>0, <1>6 DEF Wake, Asleep, clock, files, service
<1>7. CASE Submitted \/ Succeeded \/ Failed \/ Late \/ Pending
  BY <1>0, <1>7 DEF Submitted, Succeeded, Failed, Late, Pending, Answered, Turn, Raise, clock, files, service
<1>8. CASE Listed \/ Downloaded \/ Transcribed
  BY <1>0, <1>8, FetchEffect
<1>9. CASE UNCHANGED vars
  BY <1>9 DEF vars, service
<1>10. QED
  BY <1>1, <1>2, <1>21, <1>3, <1>4, <1>5, <1>6, <1>7, <1>8, <1>9 DEF Next, Attempt, Answer

\* A file the service has made, and its phrases.
LEMMA FilesMade ==
  ASSUME Types, NEW i \in 1..Len(made)
  PROVE  /\ made[i] \in Transcription /\ made[i].files \in Seq(OutputFile)
         /\ made[i].files[1].phrases \in Seq(Phrase)
         /\ TranscriptionFiles(made[i].files) \in Seq(OutputFile)
<1>1. made[i] \in Transcription
  BY ElementOfSeq DEF Types
<1>2. made[i].files \in Seq(OutputFile) /\ made[i].files # <<>>
  BY <1>1, OutputsAssumption DEF Transcription
<1>3. Len(made[i].files) \in Nat /\ Len(made[i].files) # 0
  BY <1>2, EmptySeq
<1>4. made[i].files[1] \in OutputFile
  BY <1>2, <1>3, ElementOfSeq
<1>5. QED
  BY <1>1, <1>2, <1>4, TranscriptionFilesIs DEF OutputFile

\* The first of what is to come, behind what is there.
LEMMA MovedOver ==
  ASSUME NEW T, NEW a \in Seq(T), NEW b \in Seq(T), b # <<>>
  PROVE  Append(a, Head(b)) \o Tail(b) = a \o b
<1> DEFINE c == Append(a, Head(b))
           d == Tail(b)
           m == Len(a)
           n == Len(b)
<1>1. m \in Nat /\ n \in Nat /\ n # 0 /\ Head(b) = b[1] /\ Head(b) \in T
  BY EmptySeq, LenProperties, HeadTailProperties
<1>2. d \in Seq(T) /\ Len(d) = n - 1 /\ \A i \in 1..n - 1 : d[i] = b[i + 1]
  BY EmptySeq, HeadTailProperties
<1>3. c \in Seq(T) /\ Len(c) = m + 1 /\ c[m + 1] = b[1] /\ \A i \in 1..m : c[i] = a[i]
  BY <1>1, AppendProperties
<1>4. /\ a \o b \in Seq(T) /\ Len(a \o b) = m + n
      /\ \A i \in 1..m + n : (a \o b)[i] = IF i <= m THEN a[i] ELSE b[i - m]
  BY ConcatProperties
<1> HIDE DEF c, d
<1>5. /\ c \o d \in Seq(T) /\ Len(c \o d) = (m + 1) + (n - 1)
      /\ \A i \in 1..(m + 1) + (n - 1) :
           (c \o d)[i] = IF i <= m + 1 THEN c[i] ELSE d[i - (m + 1)]
  <2>1. /\ c \o d \in Seq(T) /\ Len(c \o d) = Len(c) + Len(d)
        /\ \A i \in 1..Len(c) + Len(d) :
             (c \o d)[i] = IF i <= Len(c) THEN c[i] ELSE d[i - Len(c)]
    BY <1>2, <1>3, ConcatProperties
  <2> HIDE DEF m, n
  <2>2. QED
    BY <1>2, <1>3, <2>1
<1> HIDE DEF m, n
<1>6. ASSUME NEW i \in 1..m + n PROVE (c \o d)[i] = (a \o b)[i]
  <2>1. (c \o d)[i] = IF i <= m + 1 THEN c[i] ELSE d[i - (m + 1)]
    BY <1>1, <1>5
  <2>2. CASE i <= m
    BY <1>1, <1>3, <1>4, <2>1, <2>2
  <2>3. CASE i = m + 1
    <3>1. i - m = 1 /\ ~(i <= m) /\ i <= m + 1
      BY <1>1, <2>3
    <3>2. QED
      BY <1>3, <1>4, <2>1, <2>3, <3>1
  <2>4. CASE i > m + 1
    <3>1. /\ i - (m + 1) \in 1..n - 1 /\ (i - (m + 1)) + 1 = i - m
          /\ ~(i <= m) /\ ~(i <= m + 1)
      BY <1>1, <2>4
    <3>2. QED
      BY <1>2, <1>4, <2>1, <3>1
  <2>5. i <= m \/ i = m + 1 \/ i > m + 1
    BY <1>1
  <2>6. QED
    BY <2>2, <2>3, <2>4, <2>5
<1>7. Len(c \o d) = Len(a \o b)
  BY <1>1, <1>4, <1>5
<1>8. QED
  <2>1. Len(a \o b) = m + n
    BY <1>4
  <2>2. c \o d = a \o b
    BY <1>4, <1>5, <1>6, <1>7, <2>1, SeqEqual
  <2>3. QED
    BY <2>2 DEF c, d

\* A part of the call that goes on with the same transcription, and leaves what
\* it has fetched alone, keeps it whole.
LEMMA WholeStep == ASSUME Types, Whole, [Next]_vars PROVE Whole'
<1> USE RetryAssumption, PollAssumption, BudgetFacts DEF Whole, TheFiles
<1>0. /\ made \in Seq(Transcription) /\ Len(made) \in Nat /\ left \in Int /\ ready \in Int
      /\ (step = "over" <=> doing \in {"returned", "raised"}) /\ (error # "none" => doing = "raised")
      /\ (Submits /\ step = "served" => uri # 0) /\ uri \in 0..Len(made) /\ interval \in 0..PollMax
      /\ step \in Steps /\ (uri # 0 => uri \in 1..Len(made))
      /\ (step = "interval" => doing = "poll")
  BY DEF Types
<1>1. CASE Tick
  BY <1>0, <1>1 DEF Tick, UnderWay, Asleep, files, service
<1>2. CASE Serve
  <2>1. UNCHANGED <<todo, fetched, result>>
    BY <1>2 DEF Serve, files
  <2>2. CASE Submits
    <3>1. status' = status
      BY <1>2, <2>2, ServeEffect DEF Submits
    <3>2. QED
      BY <1>0, <1>2, <2>1, <2>2, <3>1, ServeEffect DEF Submits
  <2>3. CASE doing = "poll"
    <3>1. made[uri].status \in {"Running", "Succeeded", "Failed"}
      BY <1>0, <2>3, FilesMade DEF Transcription
    <3>2. QED
      BY <1>0, <1>2, <2>1, <2>3, <3>1, ServeEffect DEF Submits
  <2>4. CASE ~Submits /\ doing # "poll"
    <3>1. status' = status
      BY <1>2, <2>4, ServeEffect
    <3>2. QED
      BY <1>0, <1>2, <2>1, <2>4, <3>1, ServeEffect DEF Submits
  <2>5. QED
    BY <2>2, <2>3, <2>4
<1>21. CASE ServeLate
  <2>1. /\ UNCHANGED <<doing, step, left, ready, interval, status, uri, todo, fetched, result, error>>
        /\ \A j \in 1..Len(made) : made'[j] = made[j]
    BY <1>21, LateEffect
  <2>2. uri # 0 => made'[uri] = made[uri]
    BY <1>0, <2>1
  <2>3. QED
    BY <2>1, <2>2
<1>3. CASE Finish
  <2>1. PICK i \in 1..Len(made), s \in {"Succeeded", "Failed"} :
          /\ made[i].status = "Running"
          /\ made' = [made EXCEPT ![i].status = s]
          /\ ready' = IF i = uri /\ s = "Succeeded" THEN left ELSE ready
    BY <1>3 DEF Finish
  <2>2. /\ made' \in Seq(Transcription) /\ Len(made') = Len(made)
        /\ \A j \in 1..Len(made) : j # i => made'[j] = made[j]
    BY <2>1, FinishEffect
  <2>3. \A j \in 1..Len(made) : made'[j].files = made[j].files
    BY <1>0, <2>1, <2>2, SMTT(30)
  <2>4. /\ UNCHANGED <<doing, step, left, interval, status, uri, todo, fetched, result, error>>
        /\ step # "over" /\ ready' \in Never..Timeout
    BY <1>3, <2>1 DEF Finish, files, service
  <2>5. uri # 0 /\ made[uri].status = "Succeeded" => made'[uri].status = "Succeeded"
    BY <1>0, <2>1, <2>2
  <2>6. uri # 0 => made'[uri].files = made[uri].files
    BY <1>0, <2>3
  <2>7. QED
    BY <1>0, <2>2, <2>4, <2>5, <2>6
<1>4. CASE Send
  BY <1>0, <1>4 DEF Send, clock, files, service
<1>5. CASE Lost \/ Throttled \/ Refused
  <2>1. UNCHANGED <<todo, fetched, result>>
    BY <1>5 DEF Lost, Throttled, Refused, GivesUp, files, service
  <2>2. QED
    BY <1>0, <1>5, <2>1, BrokenEffect
<1>6. CASE Wake
  BY <1>0, <1>6 DEF Wake, Asleep, clock, files, service
<1>7. CASE Submitted
  BY <1>0, <1>7 DEF Submitted, Answered, Turn, files, service, Submits
<1>8. CASE Succeeded
  BY <1>0, <1>8 DEF Succeeded, Answered, Turn, files, service
<1>9. CASE Failed
  BY <1>0, <1>9 DEF Failed, Answered, Raise, clock, files, service
<1>10. CASE Late
  BY <1>0, <1>10 DEF Late, Answered, Raise, clock, files, service
<1>11. CASE Pending
  <2>1. Longer >= PollInterval
    BY <1>0 DEF Longer, Least
  <2>2. QED
    BY <1>0, <1>11, <2>1 DEF Pending, Answered, files, service
\* A download more, or the merge.
<1>12. ASSUME NEW rest \in Seq(OutputFile), NEW got \in Seq(OutputFile), Download(rest, got),
              UNCHANGED <<left, ready, interval, status, made, uri>>, uri # 0,
              made[uri].status = "Succeeded", got \o rest = TheFiles, error = "none"
       PROVE  Whole'
  <2>1. todo' = rest /\ fetched' = got
    BY <1>12 DEF Download
  <2>2. CASE rest # <<>>
    BY <1>0, <1>12, <2>1, <2>2 DEF Download, Turn
  <2>3. CASE rest = <<>> /\ got = <<>>
    BY <1>0, <1>12, <2>1, <2>3 DEF Download, Raise
  <2>4. CASE rest = <<>> /\ got # <<>>
    <3>1. got = TheFiles
      BY <1>12, <2>4, ConcatEmptySeq, Zenon
    <3>2. Merged(got) \in Seq(Phrase)
      BY MergedIsTranscript
    <3>3. QED
      BY <1>0, <1>12, <2>1, <2>4, <3>1, <3>2 DEF Download
  <2>5. QED
    BY <2>2, <2>3, <2>4
<1>13. CASE Listed
  <2>1. /\ doing = "files" /\ UNCHANGED <<left, ready, interval, status, made, uri>>
        /\ Download(TheFiles, <<>>)
    BY <1>13, FetchEffect DEF Listed, Answered, Download, clock, service
  <2>2. TheFiles \in Seq(OutputFile) /\ <<>> \in Seq(OutputFile) /\ <<>> \o TheFiles = TheFiles
    BY <1>0, <2>1, FilesMade, EmptySeq, ConcatEmptySeq
  <2>3. uri # 0 /\ made[uri].status = "Succeeded" /\ error = "none"
    BY <1>0, <2>1
  <2> HIDE DEF TheFiles, Whole
  <2>4. QED
    BY <1>12, <2>1, <2>2, <2>3
<1>14. CASE Downloaded
  <2>1. /\ doing = "download" /\ UNCHANGED <<left, ready, interval, status, made, uri>>
        /\ Download(Tail(todo), Append(fetched, Head(todo)))
    BY <1>14, FetchEffect DEF Downloaded, Answered, Download, clock, service
  <2>2. /\ todo \in Seq(OutputFile) /\ todo # <<>> /\ fetched \in Seq(OutputFile)
        /\ fetched \o todo = TheFiles /\ uri # 0 /\ made[uri].status = "Succeeded" /\ error = "none"
    BY <1>0, <2>1
  <2>3. /\ Tail(todo) \in Seq(OutputFile) /\ Head(todo) \in OutputFile
        /\ Append(fetched, Head(todo)) \in Seq(OutputFile)
    BY <2>2, HeadTailProperties, AppendProperties
  <2>4. Append(fetched, Head(todo)) \o Tail(todo) = fetched \o todo
    BY <2>2, MovedOver
  <2>5. Append(fetched, Head(todo)) \o Tail(todo) = TheFiles
    BY <2>2, <2>4
  <2> HIDE DEF TheFiles, Whole
  <2>6. QED
    BY <1>12, <2>1, <2>2, <2>3, <2>5
<1>15. CASE Transcribed
  <2>1. /\ doing = "fast" /\ step = "served" /\ doing' = "returned"
        /\ result' = made[uri].files[1].phrases
        /\ UNCHANGED <<left, ready, interval, status, made, uri, todo, fetched, error>>
    BY <1>15 DEF Transcribed, Answered, clock, service
  <2>2. uri # 0 /\ error = "none" /\ fetched = <<>>
    BY <1>0, <2>1 DEF Submits
  <2>3. result' \in Seq(Phrase)
    BY <1>0, <2>1, <2>2, FilesMade
  <2>4. QED
    BY <2>1, <2>2, <2>3
<1>16. CASE UNCHANGED vars
  BY <1>16 DEF vars, service
<1>17. QED
  BY <1>1, <1>2, <1>21, <1>3, <1>4, <1>5, <1>6, <1>7, <1>8, <1>9, <1>10, <1>11, <1>13, <1>14,
     <1>15, <1>16 DEF Next, Attempt, Answer

\* The inductive invariant holds in every behaviour.
LEMMA InvHolds == Spec => []Inv
<1>1. Init => Inv
  <2>1. Init => Types
    BY RetryAssumption, PollAssumption, BudgetFacts, ModesAssumption
       DEF Init, Types, Steps, Submits
  <2>2. Init => Lateness /\ Informed /\ Counted
    BY RetryAssumption, EmptySeq DEF Init, Lateness, Informed, Counted, Submits, Asked
  <2>3. Init => Whole
    BY RetryAssumption, PollAssumption, BudgetFacts, EmptySeq DEF Init, Whole
  <2>4. QED
    BY <2>1, <2>2, <2>3 DEF Inv
<1>2. Inv /\ [Next]_vars => Inv'
  BY TypesStep, LatenessStep, InformedStep, CountedStep, WholeStep DEF Inv
<1>3. QED
  BY <1>1, <1>2, PTL DEF Spec

\* wait() keeps to its deadline for every poll interval, every number of retries
\* and every duration of a request: the run's DeadlineKept.
THEOREM DeadlineIsKept == Spec => []DeadlineKept
<1>1. Inv => DeadlineKept
  <2> SUFFICES ASSUME Inv PROVE DeadlineKept
    OBVIOUS
  <2>1. doing = "poll" => left >= -(PollMax + Budget)
    BY InTime DEF Inv
  <2>2. QED
    BY <2>1 DEF Inv, Lateness, Informed, DeadlineKept
<1>2. QED
  BY <1>1, InvHolds, PTL

\* However answers are lost, and however late the service carries out what was
\* given up, a call asks for no more transcriptions than it has attempts, and for
\* none once a submission was answered: the run's OrphansBounded.
THEOREM FewOrphans == Spec => OrphansBounded
<1>1. ASSUME Inv, [Next]_vars, Asked' > Asked PROVE Submits /\ Asked <= Retries
  <2>0. Types /\ Len(made) \in Nat /\ owed \in Nat
    BY <1>1 DEF Inv, Types
  <2>1. Serve \/ Lost \/ Throttled \/ Refused
    <3>1. ~(Asked' = Asked)
      BY <2>0, <1>1 DEF Asked
    <3>2. ~Finish
      <4> SUFFICES ASSUME Finish PROVE FALSE
        OBVIOUS
      <4>1. PICK i \in 1..Len(made), s \in {"Succeeded", "Failed"} :
              made' = [made EXCEPT ![i].status = s]
        BY DEF Finish
      <4>2. Len(made') = Len(made) /\ owed' = owed
        BY <2>0, <4>1, FinishEffect DEF Finish
      <4>3. QED
        BY <3>1, <4>2 DEF Asked
    <3>3. ~ServeLate
      BY <2>0, <3>1, LateEffect DEF Asked
    <3>4. ~(Listed \/ Downloaded \/ Transcribed)
      BY <2>0, <3>1, FetchEffect DEF Asked
    <3>5. ~(Tick \/ Send \/ Wake \/ Submitted \/ Succeeded \/ Failed \/ Late \/ Pending)
      BY <3>1 DEF Asked, service, Tick, Send, Wake, Submitted, Succeeded, Failed, Late, Pending
    <3>6. UNCHANGED vars => Asked' = Asked
      BY DEF vars, service, Asked
    <3>7. QED
      BY <1>1, <3>1, <3>2, <3>3, <3>4, <3>5, <3>6 DEF Next, Attempt, Answer
  <2>2. Submits /\ step = "sent"
    <3>1. CASE Serve
      BY <1>1, <2>0, <3>1, ServeEffect DEF Asked
    <3>2. CASE Lost \/ Throttled \/ Refused
      BY <1>1, <2>0, <3>2, BrokenEffect DEF Asked
    <3>3. QED
      BY <2>1, <3>1, <3>2
  <2>3. attempt \in 0..Retries /\ Asked <= attempt /\ Asked \in Nat
    BY <1>1, <2>0, <2>2 DEF Inv, Types, Counted, Asked
  <2>4. QED
    BY <2>2, <2>3, RetryAssumption
<1>2. Inv /\ [Next]_vars => [Asked' > Asked => Submits /\ Asked <= Retries]_vars
  BY <1>1
<1>3. QED
  BY <1>2, InvHolds, PTL DEF Spec, OrphansBounded

\* A call returns all of the transcription its answered submission made, each phrase
\* once and in order, whatever was lost and asked again on the way or carried out
\* late, for every output the service can make: the run's ResultWhole.
THEOREM WholeResult == Spec => []ResultWhole
<1>1. ASSUME Inv PROVE ResultWhole
  <2> USE <1>1 DEF Inv
  <2>1. made \in Seq(Transcription) /\ Len(made) \in Nat /\ uri \in 0..Len(made)
    BY DEF Types
  <2>2. \A i \in 1..Len(made) :
          made[i].status \in {"Running", "Succeeded", "Failed"} /\ made[i].files \in Outputs
    BY FilesMade DEF Transcription
  <2>3. \A seq \in {result} \cup {todo[i].phrases : i \in DOMAIN todo} :
          \A i \in DOMAIN seq : seq[i] \in Phrase
    <3>1. \A seq \in Seq(Phrase) : \A i \in DOMAIN seq : seq[i] \in Phrase
      BY LenProperties, ElementOfSeq
    <3>2. \A i \in DOMAIN todo : todo[i].phrases \in Seq(Phrase)
      <4>1. todo \in Seq(OutputFile)
        BY DEF Whole
      <4>2. \A i \in DOMAIN todo : todo[i] \in OutputFile
        BY <4>1, LenProperties, ElementOfSeq
      <4>3. QED
        BY <4>2 DEF OutputFile
    <3>3. result \in Seq(Phrase)
      BY DEF Whole
    <3>4. QED
      BY <3>1, <3>2, <3>3
  <2>4. TypeOK
    BY <2>1, <2>2, <2>3, PollAssumption DEF Types, Whole, TypeOK
  <2>5. ASSUME doing = "returned"
        PROVE  LET fs == TranscriptionFiles(made[uri].files) IN
               IF fetched = <<>> THEN result = made[uri].files[1].phrases
               ELSE made[uri].status = "Succeeded" /\ fs # <<>> /\ IsTranscript(result, fs)
    <3>1. CASE fetched = <<>>
      BY <2>5, <3>1 DEF Whole
    <3>2. CASE fetched # <<>>
      <4>1. uri \in 1..Len(made)
        BY <2>1, <2>5 DEF Whole
      <4>2. /\ made[uri].status = "Succeeded" /\ TheFiles # <<>> /\ result = Merged(TheFiles)
        BY <2>5, <3>2 DEF Whole
      <4>3. TheFiles \in Seq(OutputFile)
        BY <4>1, FilesMade DEF TheFiles
      <4>4. IsTranscript(Merged(TheFiles), TheFiles)
        BY <4>3, MergedIsTranscript
      <4>5. QED
        BY <3>2, <4>1, <4>2, <4>4 DEF TheFiles
    <3>3. QED
      BY <3>1, <3>2
  <2>6. QED
    BY <2>4, <2>5 DEF ResultWhole
<1>2. QED
  BY <1>1, InvHolds, PTL

-----------------------------------------------------------------------------
(* The folds of Spans, as walks.                                              *)

\* FiniteSetsExt's Max is the greatest of a set of indices.
LEMMA MaxOf ==
  ASSUME NEW n \in Nat, NEW s \in SUBSET (1..n), s # {}
  PROVE  Max(s) \in s /\ Max(s) \in 1..n /\ \A y \in s : y <= Max(s)
<1>1. s \in SUBSET (0..n)
  OBVIOUS
<1>2. PICK x \in s : \A y \in s : y <= x
  BY <1>1, GreatestOf
<1>3. \A y \in s : x >= y
  BY <1>2
<1>4. QED
  BY <1>3 DEF Max

Used(f, s, n, Acc, stp) ==
  /\ Max(s) \in 1..n /\ f[s \ {Max(s)}] \in Acc
  /\ f[s] = stp[Max(s)][f[s \ {Max(s)}]]
\* A fold uses its steps only on the elements there are.
LEMMA FoldUsed ==
  ASSUME NEW n \in Nat, NEW Acc, NEW b, NEW stp, NEW f, IsFold(f, n, Acc, b, stp),
         NEW s \in SUBSET (1..n), s # {}
  PROVE  Used(f, s, n, Acc, stp)
<1>1. Max(s) \in 1..n /\ s \ {Max(s)} \in SUBSET (1..n)
  BY MaxOf
<1>2. QED
  BY <1>1 DEF IsFold, Used

\* _merge_adjacent, segment by segment.
AdjacentFoldIs(g, n, Acc, seq) ==
  /\ g \in [0..n -> Acc] /\ g[0] = <<>>
  /\ \A k \in 1..n : g[k] = Adjacent(g[k - 1], seq[k])
\* _merge_adjacent as a walk.
LEMMA AdjacentFold ==
  ASSUME NEW n \in Nat, NEW seq, DOMAIN seq = 1..n, NEW Acc, <<>> \in Acc,
         \A k \in 1..n : \A a \in Acc : Adjacent(a, seq[k]) \in Acc
  PROVE  \E g : AdjacentFoldIs(g, n, Acc, seq) /\ g[n] = FoldLeft(Adjacent, <<>>, seq)
<1> DEFINE Rec(h) == h = [s \in SUBSET (1..n) |->
                            IF s = {} THEN <<>> ELSE Adjacent(h[s \ {Max(s)}], seq[Max(s)])]
           F == CHOOSE h : Rec(h)
           stp == [k \in 1..n |-> [a \in Acc |-> Adjacent(a, seq[k])]]
<1>1. FoldLeft(Adjacent, <<>>, seq) = F[1..n]
  BY SMT DEF FoldLeft, MapThenFoldSet
<1>2. stp \in [1..n -> [Acc -> Acc]] /\ \A k \in 1..n : \A a \in Acc : stp[k][a] = Adjacent(a, seq[k])
  OBVIOUS
<1> HIDE DEF stp
<1>3. PICK f : IsFold(f, n, Acc, <<>>, stp)
  BY <1>2, FoldExists
<1>4. Rec(f)
  <2> HIDE DEF Rec, F
  <2>1. ASSUME NEW s \in SUBSET (1..n), s # {}
        PROVE  f[s] = Adjacent(f[s \ {Max(s)}], seq[Max(s)])
    <3>1. Used(f, s, n, Acc, stp)
      BY <1>3, <2>1, FoldUsed
    <3>2. QED
      BY <1>2, <3>1 DEF Used
  <2>2. f[{}] = <<>> /\ f = [s \in SUBSET (1..n) |-> f[s]]
    BY <1>3 DEF IsFold
  <2>3. QED
    BY <2>1, <2>2 DEF Rec
<1>5. Rec(F)
  <2> HIDE DEF Rec
  <2>1. QED
    BY <1>4, Zenon
<1> HIDE DEF F
<1>6. F[{}] = <<>>
  BY <1>5
<1>7. ASSUME NEW s \in SUBSET (1..n), s # {}, F[s \ {Max(s)}] \in Acc
      PROVE  F[s] = stp[Max(s)][F[s \ {Max(s)}]]
  <2>1. F[s] = Adjacent(F[s \ {Max(s)}], seq[Max(s)]) /\ Max(s) \in 1..n
    BY <1>5, <1>7, MaxOf
  <2>2. QED
    BY <1>2, <1>7, <2>1
<1>8. Folds(F, n, Acc, <<>>, stp)
  BY <1>6, <1>7 DEF Folds
<1>9. PICK g : IsWalk(g, n, Acc, <<>>, stp) /\ g[n] = F[1..n]
  BY <1>2, <1>8, FoldWalks
<1>10. \A k \in 1..n : k - 1 \in 0..n
  OBVIOUS
<1>11. \A k \in 1..n : g[k] = Adjacent(g[k - 1], seq[k])
  BY <1>2, <1>9, <1>10 DEF IsWalk
<1>12. AdjacentFoldIs(g, n, Acc, seq)
  BY <1>9, <1>11 DEF IsWalk, AdjacentFoldIs
<1>13. QED
  BY <1>1, <1>9, <1>12

\* The merging of _post_process, span by span.
MeetFoldIs(g, n, Acc, seq) ==
  /\ g \in [0..n -> Acc] /\ g[0] = <<>>
  /\ \A k \in 1..n : g[k] = Meet(g[k - 1], seq[k])
\* _post_process's merging as a walk.
LEMMA MeetFold ==
  ASSUME NEW n \in Nat, NEW seq, DOMAIN seq = 1..n, NEW Acc, <<>> \in Acc,
         \A k \in 1..n : \A a \in Acc : Meet(a, seq[k]) \in Acc
  PROVE  \E g : MeetFoldIs(g, n, Acc, seq) /\ g[n] = FoldLeft(Meet, <<>>, seq)
<1> DEFINE Rec(h) == h = [s \in SUBSET (1..n) |->
                            IF s = {} THEN <<>> ELSE Meet(h[s \ {Max(s)}], seq[Max(s)])]
           F == CHOOSE h : Rec(h)
           stp == [k \in 1..n |-> [a \in Acc |-> Meet(a, seq[k])]]
<1>1. FoldLeft(Meet, <<>>, seq) = F[1..n]
  BY SMT DEF FoldLeft, MapThenFoldSet
<1>2. stp \in [1..n -> [Acc -> Acc]] /\ \A k \in 1..n : \A a \in Acc : stp[k][a] = Meet(a, seq[k])
  OBVIOUS
<1> HIDE DEF stp
<1>3. PICK f : IsFold(f, n, Acc, <<>>, stp)
  BY <1>2, FoldExists
<1>4. Rec(f)
  <2> HIDE DEF Rec, F
  <2>1. ASSUME NEW s \in SUBSET (1..n), s # {}
        PROVE  f[s] = Meet(f[s \ {Max(s)}], seq[Max(s)])
    <3>1. Used(f, s, n, Acc, stp)
      BY <1>3, <2>1, FoldUsed
    <3>2. QED
      BY <1>2, <3>1 DEF Used
  <2>2. f[{}] = <<>> /\ f = [s \in SUBSET (1..n) |-> f[s]]
    BY <1>3 DEF IsFold
  <2>3. QED
    BY <2>1, <2>2 DEF Rec
<1>5. Rec(F)
  <2> HIDE DEF Rec
  <2>1. QED
    BY <1>4, Zenon
<1> HIDE DEF F
<1>6. F[{}] = <<>>
  BY <1>5
<1>7. ASSUME NEW s \in SUBSET (1..n), s # {}, F[s \ {Max(s)}] \in Acc
      PROVE  F[s] = stp[Max(s)][F[s \ {Max(s)}]]
  <2>1. F[s] = Meet(F[s \ {Max(s)}], seq[Max(s)]) /\ Max(s) \in 1..n
    BY <1>5, <1>7, MaxOf
  <2>2. QED
    BY <1>2, <1>7, <2>1
<1>8. Folds(F, n, Acc, <<>>, stp)
  BY <1>6, <1>7 DEF Folds
<1>9. PICK g : IsWalk(g, n, Acc, <<>>, stp) /\ g[n] = F[1..n]
  BY <1>2, <1>8, FoldWalks
<1>10. \A k \in 1..n : k - 1 \in 0..n
  OBVIOUS
<1>11. \A k \in 1..n : g[k] = Meet(g[k - 1], seq[k])
  BY <1>2, <1>9, <1>10 DEF IsWalk
<1>12. MeetFoldIs(g, n, Acc, seq)
  BY <1>9, <1>11 DEF IsWalk, MeetFoldIs
<1>13. QED
  BY <1>1, <1>9, <1>12

\* The sum of speech_coverage.
LengthFoldIs(g, n, Acc, seq) ==
  /\ g \in [0..n -> Acc] /\ g[0] = 0
  /\ \A k \in 1..n : g[k] = g[k - 1] + Length(seq[k])
\* speech_coverage's sum as a walk.
LEMMA LengthFold ==
  ASSUME NEW n \in Nat, NEW seq, DOMAIN seq = 1..n, NEW Acc, 0 \in Acc,
         \A k \in 1..n : \A a \in Acc : a + Length(seq[k]) \in Acc
  PROVE  \E g : LengthFoldIs(g, n, Acc, seq) /\ \A t : SpeechCoverage(seq, t) = Lower(t, g[n])
<1> DEFINE Rec(h) == h = [s \in SUBSET (1..n) |->
                            IF s = {} THEN 0 ELSE h[s \ {Max(s)}] + Length(seq[Max(s)])]
           F == CHOOSE h : Rec(h)
           stp == [k \in 1..n |-> [a \in Acc |-> a + Length(seq[k])]]
<1>1. \A t : SpeechCoverage(seq, t) = Lower(t, F[1..n])
  BY SMT DEF SpeechCoverage, FoldLeft, MapThenFoldSet
<1>2. stp \in [1..n -> [Acc -> Acc]] /\ \A k \in 1..n : \A a \in Acc : stp[k][a] = a + Length(seq[k])
  OBVIOUS
<1> HIDE DEF stp
<1>3. PICK f : IsFold(f, n, Acc, 0, stp)
  BY <1>2, FoldExists
<1>4. Rec(f)
  <2> HIDE DEF Rec, F
  <2>1. ASSUME NEW s \in SUBSET (1..n), s # {}
        PROVE  f[s] = f[s \ {Max(s)}] + Length(seq[Max(s)])
    <3>1. Used(f, s, n, Acc, stp)
      BY <1>3, <2>1, FoldUsed
    <3>2. QED
      BY <1>2, <3>1 DEF Used
  <2>2. f[{}] = 0 /\ f = [s \in SUBSET (1..n) |-> f[s]]
    BY <1>3 DEF IsFold
  <2>3. QED
    BY <2>1, <2>2 DEF Rec
<1>5. Rec(F)
  <2> HIDE DEF Rec
  <2>1. QED
    BY <1>4, Zenon
<1> HIDE DEF F
<1>6. F[{}] = 0
  BY <1>5
<1>7. ASSUME NEW s \in SUBSET (1..n), s # {}, F[s \ {Max(s)}] \in Acc
      PROVE  F[s] = stp[Max(s)][F[s \ {Max(s)}]]
  <2>1. F[s] = F[s \ {Max(s)}] + Length(seq[Max(s)]) /\ Max(s) \in 1..n
    BY <1>5, <1>7, MaxOf
  <2>2. QED
    BY <1>2, <1>7, <2>1
<1>8. Folds(F, n, Acc, 0, stp)
  BY <1>6, <1>7 DEF Folds
<1>9. PICK g : IsWalk(g, n, Acc, 0, stp) /\ g[n] = F[1..n]
  BY <1>2, <1>8, FoldWalks
<1>10. \A k \in 1..n : k - 1 \in 0..n
  OBVIOUS
<1>11. \A k \in 1..n : g[k] = g[k - 1] + Length(seq[k])
  BY <1>2, <1>9, <1>10 DEF IsWalk
<1>12. LengthFoldIs(g, n, Acc, seq)
  BY <1>9, <1>11 DEF IsWalk, LengthFoldIs
<1>13. QED
  BY <1>1, <1>9, <1>12

\* What somebody has of a stretch, span by span.
Part(x, y, id) == IF y.owner = id THEN Higher(0, Overlap(x, y)) ELSE 0
ShareFoldIs(g, n, Acc, seq, x, id) ==
  /\ g \in [0..n -> Acc] /\ g[0] = 0
  /\ \A k \in 1..n : g[k] = g[k - 1] + Part(x, seq[k], id)
\* The sum for one owner in _majority_owner as a walk.
LEMMA ShareFold ==
  ASSUME NEW n \in Nat, NEW seq, DOMAIN seq = 1..n, NEW Acc, 0 \in Acc, NEW x, NEW id,
         \A k \in 1..n : \A a \in Acc : a + Part(x, seq[k], id) \in Acc
  PROVE  \E g : ShareFoldIs(g, n, Acc, seq, x, id) /\ g[n] = Share(x, seq, id)
<1> DEFINE Rec(h) == h = [s \in SUBSET (1..n) |->
                            IF s = {} THEN 0 ELSE h[s \ {Max(s)}] + Part(x, seq[Max(s)], id)]
           F == CHOOSE h : Rec(h)
           stp == [k \in 1..n |-> [a \in Acc |-> a + Part(x, seq[k], id)]]
<1>1. Share(x, seq, id) = F[1..n]
  BY SMT DEF Share, Part, FoldLeft, MapThenFoldSet
<1>2. stp \in [1..n -> [Acc -> Acc]] /\ \A k \in 1..n : \A a \in Acc : stp[k][a] = a + Part(x, seq[k], id)
  OBVIOUS
<1> HIDE DEF stp
<1>3. PICK f : IsFold(f, n, Acc, 0, stp)
  BY <1>2, FoldExists
<1>4. Rec(f)
  <2> HIDE DEF Rec, F
  <2>1. ASSUME NEW s \in SUBSET (1..n), s # {}
        PROVE  f[s] = f[s \ {Max(s)}] + Part(x, seq[Max(s)], id)
    <3>1. Used(f, s, n, Acc, stp)
      BY <1>3, <2>1, FoldUsed
    <3>2. QED
      BY <1>2, <3>1 DEF Used
  <2>2. f[{}] = 0 /\ f = [s \in SUBSET (1..n) |-> f[s]]
    BY <1>3 DEF IsFold
  <2>3. QED
    BY <2>1, <2>2 DEF Rec
<1>5. Rec(F)
  <2> HIDE DEF Rec
  <2>1. QED
    BY <1>4, Zenon
<1> HIDE DEF F
<1>6. F[{}] = 0
  BY <1>5
<1>7. ASSUME NEW s \in SUBSET (1..n), s # {}, F[s \ {Max(s)}] \in Acc
      PROVE  F[s] = stp[Max(s)][F[s \ {Max(s)}]]
  <2>1. F[s] = F[s \ {Max(s)}] + Part(x, seq[Max(s)], id) /\ Max(s) \in 1..n
    BY <1>5, <1>7, MaxOf
  <2>2. QED
    BY <1>2, <1>7, <2>1
<1>8. Folds(F, n, Acc, 0, stp)
  BY <1>6, <1>7 DEF Folds
<1>9. PICK g : IsWalk(g, n, Acc, 0, stp) /\ g[n] = F[1..n]
  BY <1>2, <1>8, FoldWalks
<1>10. \A k \in 1..n : k - 1 \in 0..n
  OBVIOUS
<1>11. \A k \in 1..n : g[k] = g[k - 1] + Part(x, seq[k], id)
  BY <1>2, <1>9, <1>10 DEF IsWalk
<1>12. ShareFoldIs(g, n, Acc, seq, x, id)
  BY <1>9, <1>11 DEF IsWalk, ShareFoldIs
<1>13. QED
  BY <1>1, <1>9, <1>12

\* The search of _segment_for_word, place by place.
Looked(w, xs, best, i) ==
  LET most == IF best = 0 THEN 0 ELSE Overlap(w, xs[best]) IN
  IF Overlap(w, xs[i]) > most THEN i ELSE best
Found(w, xs, best) ==
  LET held == {i \in DOMAIN xs : Holds(xs[i], w)} IN
  IF best # 0 \/ held = {} THEN best ELSE CHOOSE i \in held : \A j \in held : i <= j
Places(xs) == [i \in DOMAIN xs |-> i]
LookFoldIs(g, n, Acc, seq, w, xs) ==
  /\ g \in [0..n -> Acc] /\ g[0] = 0
  /\ \A k \in 1..n : g[k] = Looked(w, xs, g[k - 1], seq[k])
\* _segment_for_word's search as a walk.
LEMMA LookFold ==
  ASSUME NEW n \in Nat, NEW seq, DOMAIN seq = 1..n, NEW Acc, 0 \in Acc, NEW w, NEW xs, seq = Places(xs),
         \A k \in 1..n : \A a \in Acc : Looked(w, xs, a, seq[k]) \in Acc
  PROVE  \E g : LookFoldIs(g, n, Acc, seq, w, xs) /\ SegmentForWord(w, xs) = Found(w, xs, g[n])
<1> DEFINE Rec(h) == h = [s \in SUBSET (1..n) |->
                            IF s = {} THEN 0 ELSE Looked(w, xs, h[s \ {Max(s)}], seq[Max(s)])]
           F == CHOOSE h : Rec(h)
           stp == [k \in 1..n |-> [a \in Acc |-> Looked(w, xs, a, seq[k])]]
<1>1. SegmentForWord(w, xs) = Found(w, xs, F[1..n])
  BY SMT DEF SegmentForWord, Found, Looked, Places, FoldLeft, MapThenFoldSet
<1>2. stp \in [1..n -> [Acc -> Acc]] /\ \A k \in 1..n : \A a \in Acc : stp[k][a] = Looked(w, xs, a, seq[k])
  OBVIOUS
<1> HIDE DEF stp
<1>3. PICK f : IsFold(f, n, Acc, 0, stp)
  BY <1>2, FoldExists
<1>4. Rec(f)
  <2> HIDE DEF Rec, F
  <2>1. ASSUME NEW s \in SUBSET (1..n), s # {}
        PROVE  f[s] = Looked(w, xs, f[s \ {Max(s)}], seq[Max(s)])
    <3>1. Used(f, s, n, Acc, stp)
      BY <1>3, <2>1, FoldUsed
    <3>2. QED
      BY <1>2, <3>1 DEF Used
  <2>2. f[{}] = 0 /\ f = [s \in SUBSET (1..n) |-> f[s]]
    BY <1>3 DEF IsFold
  <2>3. QED
    BY <2>1, <2>2 DEF Rec
<1>5. Rec(F)
  <2> HIDE DEF Rec
  <2>1. QED
    BY <1>4, Zenon
<1> HIDE DEF F
<1>6. F[{}] = 0
  BY <1>5
<1>7. ASSUME NEW s \in SUBSET (1..n), s # {}, F[s \ {Max(s)}] \in Acc
      PROVE  F[s] = stp[Max(s)][F[s \ {Max(s)}]]
  <2>1. F[s] = Looked(w, xs, F[s \ {Max(s)}], seq[Max(s)]) /\ Max(s) \in 1..n
    BY <1>5, <1>7, MaxOf
  <2>2. QED
    BY <1>2, <1>7, <2>1
<1>8. Folds(F, n, Acc, 0, stp)
  BY <1>6, <1>7 DEF Folds
<1>9. PICK g : IsWalk(g, n, Acc, 0, stp) /\ g[n] = F[1..n]
  BY <1>2, <1>8, FoldWalks
<1>10. \A k \in 1..n : k - 1 \in 0..n
  OBVIOUS
<1>11. \A k \in 1..n : g[k] = Looked(w, xs, g[k - 1], seq[k])
  BY <1>2, <1>9, <1>10 DEF IsWalk
<1>12. LookFoldIs(g, n, Acc, seq, w, xs)
  BY <1>9, <1>11 DEF IsWalk, LookFoldIs
<1>13. QED
  BY <1>1, <1>9, <1>12

\* _rms_spans, frame by frame.
Closed(acc, n, frame) ==
  IF acc.from = Outside THEN acc.spans
  ELSE Append(acc.spans, Span(acc.from * frame, n * frame))
SeeFoldIs(g, n, Acc, seq, loudest, frame) ==
  /\ g \in [0..n -> Acc] /\ g[0] = Nothing
  /\ \A k \in 1..n : g[k] = See(loudest, frame, g[k - 1], seq[k])
\* _rms_spans' loop as a walk.
LEMMA SeeFold ==
  ASSUME NEW n \in Nat, NEW seq, DOMAIN seq = 1..n, NEW Acc, Nothing \in Acc, NEW loudest, NEW frame, seq = [k \in 1..n |-> k - 1],
         \A k \in 1..n : \A a \in Acc : See(loudest, frame, a, seq[k]) \in Acc
  PROVE  \E g : SeeFoldIs(g, n, Acc, seq, loudest, frame) /\ RmsSpans(loudest, n, frame) = Closed(g[n], n, frame)
<1> DEFINE Rec(h) == h = [s \in SUBSET (1..n) |->
                            IF s = {} THEN Nothing ELSE See(loudest, frame, h[s \ {Max(s)}], seq[Max(s)])]
           F == CHOOSE h : Rec(h)
           stp == [k \in 1..n |-> [a \in Acc |-> See(loudest, frame, a, seq[k])]]
<1>1. RmsSpans(loudest, n, frame) = Closed(F[1..n], n, frame)
  BY SMT DEF RmsSpans, Closed, FoldLeft, MapThenFoldSet
<1>2. stp \in [1..n -> [Acc -> Acc]] /\ \A k \in 1..n : \A a \in Acc : stp[k][a] = See(loudest, frame, a, seq[k])
  OBVIOUS
<1> HIDE DEF stp
<1>3. PICK f : IsFold(f, n, Acc, Nothing, stp)
  BY <1>2, FoldExists
<1>4. Rec(f)
  <2> HIDE DEF Rec, F
  <2>1. ASSUME NEW s \in SUBSET (1..n), s # {}
        PROVE  f[s] = See(loudest, frame, f[s \ {Max(s)}], seq[Max(s)])
    <3>1. Used(f, s, n, Acc, stp)
      BY <1>3, <2>1, FoldUsed
    <3>2. QED
      BY <1>2, <3>1 DEF Used
  <2>2. f[{}] = Nothing /\ f = [s \in SUBSET (1..n) |-> f[s]]
    BY <1>3 DEF IsFold
  <2>3. QED
    BY <2>1, <2>2 DEF Rec
<1>5. Rec(F)
  <2> HIDE DEF Rec
  <2>1. QED
    BY <1>4, Zenon
<1> HIDE DEF F
<1>6. F[{}] = Nothing
  BY <1>5
<1>7. ASSUME NEW s \in SUBSET (1..n), s # {}, F[s \ {Max(s)}] \in Acc
      PROVE  F[s] = stp[Max(s)][F[s \ {Max(s)}]]
  <2>1. F[s] = See(loudest, frame, F[s \ {Max(s)}], seq[Max(s)]) /\ Max(s) \in 1..n
    BY <1>5, <1>7, MaxOf
  <2>2. QED
    BY <1>2, <1>7, <2>1
<1>8. Folds(F, n, Acc, Nothing, stp)
  BY <1>6, <1>7 DEF Folds
<1>9. PICK g : IsWalk(g, n, Acc, Nothing, stp) /\ g[n] = F[1..n]
  BY <1>2, <1>8, FoldWalks
<1>10. \A k \in 1..n : k - 1 \in 0..n
  OBVIOUS
<1>11. \A k \in 1..n : g[k] = See(loudest, frame, g[k - 1], seq[k])
  BY <1>2, <1>9, <1>10 DEF IsWalk
<1>12. SeeFoldIs(g, n, Acc, seq, loudest, frame)
  BY <1>9, <1>11 DEF IsWalk, SeeFoldIs
<1>13. QED
  BY <1>1, <1>9, <1>12

-----------------------------------------------------------------------------
(* The spans of speech.                                                       *)

SpanType == [start : Int, end : Int]
\* A span from two numbers.
LEMMA SpanIs ==
  ASSUME NEW s \in Int, NEW e \in Int
  PROVE  Span(s, e) \in SpanType /\ Span(s, e).start = s /\ Span(s, e).end = e
BY DEF Span, SpanType

\* Frames become ticks in the same order.
LEMMA Scaled ==
  ASSUME NEW frame \in Nat \ {0}, NEW a \in Int, NEW b \in Int
  PROVE  /\ a * frame \in Int /\ (a < b => a * frame < b * frame)
         /\ (a <= b => a * frame <= b * frame) /\ (a >= 0 => a * frame >= 0)
<1>1. a * frame \in Int /\ b * frame \in Int
  OBVIOUS
<1>2. a < b => a * frame < b * frame
  <2>1. ASSUME a < b PROVE a * frame < b * frame
    <3>1. (b - a) * frame > 0
      BY <2>1
    <3>2. (b - a) * frame = b * frame - a * frame
      OBVIOUS
    <3>3. QED
      BY <1>1, <3>1, <3>2
  <2>2. QED
    BY <2>1
<1>3. a >= 0 => a * frame >= 0
  OBVIOUS
<1>4. QED
  BY <1>1, <1>2, <1>3

\* A run of loud frames, from a up to b, that cannot be longer.
IsMaxRun(L, a, b) == a < b /\ a..b - 1 \subseteq L /\ a - 1 \notin L /\ b \notin L

\* The runs among n frames, in order, each once.
AreRuns(r, L, n, frame) ==
  /\ r \in Seq(SpanType)
  /\ \A i \in 1..Len(r) :
       \E a, b \in 0..n : r[i] = Span(a * frame, b * frame) /\ IsMaxRun(L, a, b)
  /\ \A i, j \in 1..Len(r) : i < j => r[i].end < r[j].start
  /\ \A a, b \in 0..n : IsMaxRun(L, a, b) =>
       \E i \in 1..Len(r) : r[i] = Span(a * frame, b * frame)

\* After k frames: the runs that have ended, and the one that has not.
SeenAll(acc, L, n, k, frame) ==
  /\ acc.spans \in Seq(SpanType) /\ acc.from \in Int
  /\ IF acc.from = Outside THEN k - 1 \notin L
     ELSE acc.from \in 0..k - 1 /\ acc.from..k - 1 \subseteq L /\ acc.from - 1 \notin L
  /\ \A i \in 1..Len(acc.spans) :
       \E a, b \in 0..n : /\ acc.spans[i] = Span(a * frame, b * frame) /\ IsMaxRun(L, a, b)
                          /\ b < k /\ (acc.from # Outside => b < acc.from)
  /\ \A i, j \in 1..Len(acc.spans) : i < j => acc.spans[i].end < acc.spans[j].start
  /\ \A a, b \in 0..n : IsMaxRun(L, a, b) /\ b < k =>
       \E i \in 1..Len(acc.spans) : acc.spans[i] = Span(a * frame, b * frame)

\* Appending a span.
LEMMA AppendSpan ==
  ASSUME NEW s \in Seq(SpanType), NEW x \in SpanType
  PROVE  /\ Append(s, x) \in Seq(SpanType) /\ Len(Append(s, x)) = Len(s) + 1 /\ Len(s) \in Nat
         /\ Append(s, x)[Len(s) + 1] = x
         /\ \A i \in 1..Len(s) : Append(s, x)[i] = s[i] /\ s[i] \in SpanType
BY AppendProperties, LenProperties, ElementOfSeq

\* A run that ends at k goes behind the others.
RunsUpTo(r, L, n, k, frame) ==
  /\ r \in Seq(SpanType)
  /\ \A i \in 1..Len(r) :
       \E a, b \in 0..n : r[i] = Span(a * frame, b * frame) /\ IsMaxRun(L, a, b) /\ b <= k
  /\ \A i, j \in 1..Len(r) : i < j => r[i].end < r[j].start
  /\ \A a, b \in 0..n : IsMaxRun(L, a, b) /\ b <= k =>
       \E i \in 1..Len(r) : r[i] = Span(a * frame, b * frame)
\* A run of loud frames that ends at a quiet one is one of the longest.
LEMMA RunEnds ==
  ASSUME NEW L, NEW n \in Nat, NEW k \in 0..n, NEW frame \in Nat \ {0}, NEW acc,
         SeenAll(acc, L, n, k, frame), acc.from # Outside, k \notin L,
         NEW r, r = Append(acc.spans, Span(acc.from * frame, k * frame))
  PROVE  RunsUpTo(r, L, n, k, frame)
<1> DEFINE s == acc.spans
           f == acc.from
           x == Span(f * frame, k * frame)
           m == Len(s)
<1>1. /\ s \in Seq(SpanType) /\ f \in 0..k - 1 /\ f..k - 1 \subseteq L /\ f - 1 \notin L
      /\ \A i \in 1..m :
           \E a, b \in 0..n : s[i] = Span(a * frame, b * frame) /\ IsMaxRun(L, a, b) /\ b < f
      /\ \A i, j \in 1..m : i < j => s[i].end < s[j].start
      /\ \A a, b \in 0..n : IsMaxRun(L, a, b) /\ b < k =>
           \E i \in 1..m : s[i] = Span(a * frame, b * frame)
  BY DEF SeenAll
<1>2. x \in SpanType /\ x.start = f * frame
  BY <1>1, Scaled, SpanIs
<1>3. f \in 0..n /\ IsMaxRun(L, f, k)
  BY <1>1 DEF IsMaxRun
<1> HIDE DEF s, f, x
<1>4. /\ r \in Seq(SpanType) /\ Len(r) = m + 1 /\ m \in Nat /\ r[m + 1] = x
      /\ \A i \in 1..m : r[i] = s[i] /\ s[i] \in SpanType
  BY <1>1, <1>2, AppendSpan DEF s, f, x
<1> HIDE DEF m
<1>5. ASSUME NEW i \in 1..Len(r)
      PROVE  \E a, b \in 0..n : r[i] = Span(a * frame, b * frame) /\ IsMaxRun(L, a, b) /\ b <= k
  <2>1. CASE i = m + 1
    <3>1. r[i] = Span(f * frame, k * frame)
      BY <1>4, <2>1 DEF x
    <3>2. k <= k /\ k \in 0..n
      OBVIOUS
    <3>3. QED
      BY <1>3, <3>1, <3>2
  <2>2. CASE i # m + 1
    <3>1. i \in 1..m
      BY <1>4, <2>2
    <3>2. PICK a, b \in 0..n : s[i] = Span(a * frame, b * frame) /\ IsMaxRun(L, a, b) /\ b < f
      BY <1>1, <3>1
    <3>3. b <= k
      BY <1>1, <3>2
    <3>4. QED
      BY <1>4, <3>1, <3>2, <3>3
  <2>3. QED
    BY <2>1, <2>2
<1>6. ASSUME NEW i \in 1..Len(r), NEW j \in 1..Len(r), i < j PROVE r[i].end < r[j].start
  <2>1. i \in 1..m
    BY <1>4, <1>6
  <2>2. CASE j = m + 1
    <3>1. PICK a, b \in 0..n : s[i] = Span(a * frame, b * frame) /\ b < f
      BY <1>1, <2>1
    <3>2. b * frame < f * frame /\ a * frame \in Int /\ b * frame \in Int
      BY <1>3, <3>1, Scaled
    <3>3. QED
      BY <1>2, <1>4, <2>1, <2>2, <3>1, <3>2, SpanIs, SMTT(30)
  <2>3. CASE j # m + 1
    <3>1. j \in 1..m
      BY <1>4, <2>3
    <3>2. QED
      BY <1>1, <1>4, <1>6, <2>1, <3>1
  <2>4. QED
    BY <2>2, <2>3
<1>7. ASSUME NEW a \in 0..n, NEW b \in 0..n, IsMaxRun(L, a, b), b <= k
      PROVE  \E i \in 1..Len(r) : r[i] = Span(a * frame, b * frame)
  <2>1. CASE b < k
    <3>1. PICK i \in 1..m : s[i] = Span(a * frame, b * frame)
      BY <1>1, <1>7, <2>1
    <3>2. i \in 1..Len(r)
      BY <1>4
    <3>3. QED
      BY <1>4, <3>1, <3>2
  <2>2. CASE b = k
    <3>1. ~(a < f)
      <4>1. a < f => f - 1 \in a..b - 1
        BY <1>1, <2>2
      <4>2. QED
        BY <1>1, <1>7, <4>1 DEF IsMaxRun
    <3>2. ~(f < a)
      <4>1. f < a => a - 1 \in f..k - 1
        BY <1>1, <1>7, <2>2 DEF IsMaxRun
      <4>2. QED
        BY <1>1, <1>7, <4>1 DEF IsMaxRun
    <3>3. a = f
      BY <1>3, <3>1, <3>2
    <3>4. m + 1 \in 1..Len(r)
      BY <1>4
    <3>5. QED
      BY <1>4, <2>2, <3>3, <3>4 DEF x
  <2>3. QED
    BY <1>7, <2>1, <2>2
<1>8. QED
  BY <1>4, <1>5, <1>6, <1>7 DEF RunsUpTo

\* _rms_spans returns the longest runs of loud frames, in order.
LEMMA RmsRuns ==
  ASSUME NEW n \in Nat, NEW L \in SUBSET (0..n - 1), NEW frame \in Nat \ {0}
  PROVE  AreRuns(RmsSpans(L, n, frame), L, n, frame)
<1> DEFINE Acc == [from : Int, spans : Seq(SpanType)]
           seq == [k \in 1..n |-> k - 1]
<1>1. Nothing \in Acc
  BY EmptySeq DEF Nothing, Outside
<1>2. ASSUME NEW k \in 1..n, NEW acc \in Acc PROVE See(L, frame, acc, seq[k]) \in Acc
  <2>1. k - 1 \in Int /\ seq[k] = k - 1
    OBVIOUS
  <2> HIDE DEF seq
  <2>2. CASE k - 1 \in L /\ acc.from = Outside
    BY <2>1, <2>2 DEF See
  <2>3. CASE k - 1 \notin L /\ acc.from # Outside
    <3>1. Span(acc.from * frame, (k - 1) * frame) \in SpanType
      BY <2>1, Scaled, SpanIs
    <3>2. Append(acc.spans, Span(acc.from * frame, (k - 1) * frame)) \in Seq(SpanType)
      BY <3>1, AppendSpan
    <3>3. QED
      BY <2>1, <2>3, <3>2 DEF See, Outside
  <2>4. CASE ~(k - 1 \in L /\ acc.from = Outside) /\ ~(k - 1 \notin L /\ acc.from # Outside)
    BY <2>1, <2>4 DEF See
  <2>5. QED
    BY <2>2, <2>3, <2>4
<1>3. DOMAIN seq = 1..n /\ \A k \in 1..n : seq[k] = k - 1
  OBVIOUS
<1> HIDE DEF Acc
<1> DEFINE q == seq
<1>13. q = [k \in 1..n |-> k - 1] /\ DOMAIN q = 1..n /\ seq = q
  OBVIOUS
<1> HIDE DEF q, seq
<1>14. \A k \in 1..n : \A acc \in Acc : See(L, frame, acc, q[k]) \in Acc
  BY <1>2, <1>13
<1>15. PICK g : SeeFoldIs(g, n, Acc, q, L, frame) /\ RmsSpans(L, n, frame) = Closed(g[n], n, frame)
  BY <1>1, <1>13, <1>14, SeeFold
<1>4. /\ g \in [0..n -> Acc] /\ g[0] = Nothing
      /\ RmsSpans(L, n, frame) = Closed(g[n], n, frame)
      /\ \A k \in 1..n : g[k] = See(L, frame, g[k - 1], seq[k])
  BY <1>13, <1>15 DEF SeeFoldIs
<1> DEFINE D == {k \in 0..n : SeenAll(g[k], L, n, k, frame)}
<1>5. 0 \in D
  <2>1. /\ Nothing.spans = <<>> /\ Nothing.from = Outside
    BY DEF Nothing
  <2>2. SeenAll(Nothing, L, n, 0, frame)
    BY <2>1, EmptySeq DEF SeenAll, Outside
  <2>3. QED
    BY <1>4, <2>2
<1>6. ASSUME NEW k \in 1..n, k - 1 \in D PROVE k \in D
  <2> DEFINE acc == g[k - 1]
             new == g[k]
  <2>1. new = See(L, frame, acc, k - 1) /\ acc \in Acc /\ k - 1 \in 0..n
    BY <1>3, <1>4
  <2>2. SeenAll(acc, L, n, k - 1, frame)
    BY <1>6
  <2> HIDE DEF acc, new, D
  <2>3. SeenAll(new, L, n, k, frame)
    <3>1. CASE k - 1 \in L /\ acc.from = Outside
      <4>1. new.from = k - 1 /\ new.spans = acc.spans /\ new.from # Outside
        BY <2>1, <3>1 DEF See, Acc, Outside
      <4>2. \A b \in 0..n : b \notin L => b # k - 1
        BY <3>1
      <4>3. ASSUME NEW i \in 1..Len(new.spans)
            PROVE  \E a, b \in 0..n : /\ new.spans[i] = Span(a * frame, b * frame) /\ IsMaxRun(L, a, b)
                                      /\ b < k /\ (new.from # Outside => b < new.from)
        <5>1. PICK a, b \in 0..n : acc.spans[i] = Span(a * frame, b * frame) /\ IsMaxRun(L, a, b) /\ b < k - 1
          BY <2>2, <4>1 DEF SeenAll
        <5>2. b < k /\ b < new.from
          BY <4>1, <5>1
        <5>3. QED
          BY <4>1, <5>1, <5>2
      <4>4. ASSUME NEW a \in 0..n, NEW b \in 0..n, IsMaxRun(L, a, b), b < k
            PROVE  \E i \in 1..Len(new.spans) : new.spans[i] = Span(a * frame, b * frame)
        <5>1. b < k - 1
          BY <3>1, <4>4 DEF IsMaxRun
        <5>2. QED
          BY <2>2, <4>1, <4>4, <5>1 DEF SeenAll
      <4>5. new.from \in 0..k - 1 /\ new.from..k - 1 \subseteq L /\ new.from - 1 \notin L
        BY <2>2, <3>1, <4>1 DEF SeenAll
      <4>6. QED
        <5>1. new.spans \in Seq(SpanType) /\ new.from \in Int
          BY <2>2, <4>1 DEF SeenAll
        <5>2. \A i, j \in 1..Len(new.spans) : i < j => new.spans[i].end < new.spans[j].start
          BY <2>2, <4>1 DEF SeenAll
        <5>3. QED
          BY <4>1, <4>3, <4>4, <4>5, <5>1, <5>2 DEF SeenAll
    <3>2. CASE k - 1 \notin L /\ acc.from # Outside
      <4>1. /\ new.from = Outside
            /\ new.spans = Append(acc.spans, Span(acc.from * frame, (k - 1) * frame))
        BY <2>1, <3>2 DEF See
      <4>2. RunsUpTo(new.spans, L, n, k - 1, frame)
        BY <2>1, <2>2, <3>2, <4>1, RunEnds
      <4>3. \A b \in 0..n : b <= k - 1 <=> b < k
        OBVIOUS
      <4>4. new.from \in Int
        BY <4>1 DEF Outside
      <4>5. ASSUME NEW i \in 1..Len(new.spans)
            PROVE  \E a, b \in 0..n : /\ new.spans[i] = Span(a * frame, b * frame) /\ IsMaxRun(L, a, b)
                                      /\ b < k /\ (new.from # Outside => b < new.from)
        BY <4>1, <4>2, <4>3 DEF RunsUpTo
      <4>6. \A a, b \in 0..n : IsMaxRun(L, a, b) /\ b < k =>
              \E i \in 1..Len(new.spans) : new.spans[i] = Span(a * frame, b * frame)
        BY <4>2, <4>3 DEF RunsUpTo
      <4>7. QED
        BY <3>2, <4>1, <4>2, <4>4, <4>5, <4>6 DEF SeenAll, RunsUpTo
    <3>3. CASE ~(k - 1 \in L /\ acc.from = Outside) /\ ~(k - 1 \notin L /\ acc.from # Outside)
      <4>1. new = acc
        BY <2>1, <3>3 DEF See
      <4>2. \A a, b \in 0..n : IsMaxRun(L, a, b) /\ b < k => b < k - 1
        <5>1. ASSUME NEW a \in 0..n, NEW b \in 0..n, IsMaxRun(L, a, b), b = k - 1 PROVE FALSE
          <6>1. b - 1 \in L /\ b \notin L
            BY <5>1 DEF IsMaxRun
          <6>2. acc.from = Outside
            BY <3>3, <5>1, <6>1
          <6>3. QED
            BY <2>2, <5>1, <6>1, <6>2 DEF SeenAll
        <5>2. QED
          BY <5>1
      <4>3. CASE acc.from = Outside
        <5>1. k - 1 \notin L
          BY <3>3, <4>3
        <5>2. ASSUME NEW i \in 1..Len(new.spans)
              PROVE  \E a, b \in 0..n : /\ new.spans[i] = Span(a * frame, b * frame) /\ IsMaxRun(L, a, b)
                                        /\ b < k /\ (new.from # Outside => b < new.from)
          <6>1. PICK a, b \in 0..n : acc.spans[i] = Span(a * frame, b * frame) /\ IsMaxRun(L, a, b) /\ b < k - 1
            BY <2>2, <4>1 DEF SeenAll
          <6>2. b < k
            BY <6>1
          <6>3. QED
            BY <4>1, <4>3, <6>1, <6>2
        <5>3. QED
          BY <2>2, <4>1, <4>2, <4>3, <5>1, <5>2 DEF SeenAll
      <4>4. CASE acc.from # Outside
        <5>1. k - 1 \in L
          BY <3>3, <4>4
        <5>2. ASSUME NEW i \in 1..Len(new.spans)
              PROVE  \E a, b \in 0..n : /\ new.spans[i] = Span(a * frame, b * frame) /\ IsMaxRun(L, a, b)
                                        /\ b < k /\ (new.from # Outside => b < new.from)
          <6>1. PICK a, b \in 0..n : acc.spans[i] = Span(a * frame, b * frame) /\ IsMaxRun(L, a, b)
                                     /\ b < k - 1 /\ b < acc.from
            BY <2>2, <4>1, <4>4 DEF SeenAll
          <6>2. b < k
            BY <6>1
          <6>3. QED
            BY <4>1, <6>1, <6>2
        <5>3. acc.from \in 0..k - 1 /\ acc.from..k - 1 \subseteq L /\ acc.from - 1 \notin L
          <6>1. acc.from \in 0..k - 2 /\ acc.from..k - 2 \subseteq L /\ acc.from - 1 \notin L
            BY <2>2, <4>4 DEF SeenAll
          <6>2. \A x \in acc.from..k - 1 : x = k - 1 \/ x \in acc.from..k - 2
            BY <6>1
          <6>3. QED
            BY <5>1, <6>1, <6>2
        <5>4. QED
          BY <2>2, <4>1, <4>2, <4>4, <5>2, <5>3 DEF SeenAll
      <4>5. QED
        BY <4>3, <4>4
    <3>4. QED
      BY <3>1, <3>2, <3>3
  <2>4. QED
    BY <2>3 DEF D, new
<1>7. 0..n \subseteq D
  <2> HIDE DEF D
  <2>1. QED
    BY <1>5, <1>6, UpTo
<1>8. SeenAll(g[n], L, n, n, frame) /\ n \notin L
  BY <1>7
<1> DEFINE acc == g[n]
           r == Closed(acc, n, frame)
<1>9. RmsSpans(L, n, frame) = r
  BY <1>4
<1> HIDE DEF acc
<1>10. CASE acc.from # Outside
  <2>1. r = Append(acc.spans, Span(acc.from * frame, n * frame))
    BY <1>10 DEF Closed
  <2> HIDE DEF r
  <2>6. SeenAll(acc, L, n, n, frame) /\ n \in 0..n
    BY <1>8 DEF acc
  <2>2. RunsUpTo(r, L, n, n, frame)
    BY <1>8, <1>10, <2>1, <2>6, RunEnds
  <2>3. \A b \in 0..n : b <= n
    OBVIOUS
  <2>4. AreRuns(r, L, n, frame)
    BY <2>2, <2>3 DEF AreRuns, RunsUpTo
  <2>5. QED
    BY <1>9, <2>4
<1>11. CASE acc.from = Outside
  <2>1. r = acc.spans /\ SeenAll(acc, L, n, n, frame) /\ n - 1 \notin L
    BY <1>8, <1>11 DEF Closed, SeenAll, acc
  <2>2. \A a, b \in 0..n : IsMaxRun(L, a, b) => b < n
    <3>1. ASSUME NEW a \in 0..n, IsMaxRun(L, a, n) PROVE FALSE
      <4>1. n - 1 \in a..n - 1
        BY <3>1 DEF IsMaxRun
      <4>2. QED
        BY <2>1, <3>1, <4>1 DEF IsMaxRun
    <3>2. QED
      BY <3>1
  <2> HIDE DEF r
  <2>3. AreRuns(r, L, n, frame)
    BY <2>1, <2>2 DEF AreRuns, SeenAll
  <2>4. QED
    BY <1>9, <2>3
<1>12. QED
  BY <1>10, <1>11

\* Spans apart from each other, between lo and hi.
AreTidy(v, lo, hi) ==
  /\ v \in Seq(SpanType)
  /\ \A i \in 1..Len(v) : lo <= v[i].start /\ v[i].start < v[i].end /\ v[i].end <= hi
  /\ \A i, j \in 1..Len(v) : i < j => v[i].end < v[j].start

\* Such runs are apart from each other.
LEMMA RunsTidy ==
  ASSUME NEW n \in Nat, NEW L \in SUBSET (0..n - 1), NEW frame \in Nat \ {0}
  PROVE  AreTidy(RmsSpans(L, n, frame), 0, n * frame)
<1> DEFINE r == RmsSpans(L, n, frame)
<1>1. AreRuns(r, L, n, frame)
  BY RmsRuns
<1> HIDE DEF r
<1>2. ASSUME NEW i \in 1..Len(r)
      PROVE  0 <= r[i].start /\ r[i].start < r[i].end /\ r[i].end <= n * frame
  <2>1. PICK a, b \in 0..n : r[i] = Span(a * frame, b * frame) /\ IsMaxRun(L, a, b)
    BY <1>1, <1>2 DEF AreRuns
  <2>2. a < b /\ 0 <= a /\ b <= n
    BY <2>1 DEF IsMaxRun
  <2>3. 0 <= a * frame /\ a * frame < b * frame /\ b * frame <= n * frame
        /\ a * frame \in Int /\ b * frame \in Int
    BY <2>2, Scaled
  <2>4. QED
    BY <2>1, <2>3, SpanIs
<1>3. QED
  BY <1>1, <1>2 DEF AreRuns, AreTidy, r

\* AtLeast keeps the spans that are long enough, in order.
Long(min, v) == {i \in DOMAIN v : Length(v[i]) >= min}
\* AtLeast() picks the spans that are long enough.
LEMMA AtLeastIs ==
  ASSUME NEW v \in Seq(SpanType), NEW min
  PROVE  /\ AtLeast(min, v) \in Seq(SpanType)
         /\ \E at : IsPick(at, Len(AtLeast(min, v)), Long(min, v), v)
<1> DEFINE n == Len(v)
           m == Cardinality(Long(min, v))
<1>1. n \in Nat /\ DOMAIN v = 1..n /\ Long(min, v) \in SUBSET (1..n)
  BY LenProperties DEF Long
<1>2. m \in 0..n /\ \E at : IsPick(at, m, Long(min, v), v)
  BY <1>1, Picks
<1>3. PICK at : IsPick(at, m, Long(min, v), v)
  BY <1>2
<1>4. AtLeast(min, v) = [k \in 1..m |-> v[at[k]]] /\ at \in [1..m -> Long(min, v)]
  BY <1>3 DEF AtLeast, IsPick, Long
<1> HIDE DEF m
<1>5. \A k \in 1..m : v[at[k]] \in SpanType
  BY <1>1, <1>4, ElementOfSeq
<1>6. m \in Nat
  BY <1>1, <1>2
<1>7. AtLeast(min, v) \in Seq(SpanType) /\ Len(AtLeast(min, v)) = m
  BY <1>4, <1>5, <1>6, SeqDef
<1>8. QED
  BY <1>3, <1>7

\* Dropping spans keeps the others tidy.
LEMMA AtLeastTidy ==
  ASSUME NEW lo, NEW hi, NEW v, AreTidy(v, lo, hi), NEW min
  PROVE  AreTidy(AtLeast(min, v), lo, hi)
<1> DEFINE w == AtLeast(min, v)
           m == Len(w)
<1>1. v \in Seq(SpanType) /\ Len(v) \in Nat
  BY LenProperties DEF AreTidy
<1>2. w \in Seq(SpanType) /\ \E at : IsPick(at, m, Long(min, v), v)
  BY <1>1, AtLeastIs
<1>3. PICK at : IsPick(at, m, Long(min, v), v)
  BY <1>2
<1>4. Long(min, v) \subseteq 1..Len(v)
  BY <1>1, LenProperties DEF Long
<1>5. w = [k \in 1..m |-> v[at[k]]]
  BY <1>3 DEF AtLeast, IsPick, Long
<1> HIDE DEF w, m
<1>6. \A k \in 1..m : w[k] = v[at[k]] /\ at[k] \in 1..Len(v)
  BY <1>3, <1>4, <1>5 DEF IsPick
<1>7. \A j, k \in 1..m : j < k => at[j] < at[k]
  BY <1>3 DEF IsPick
<1>8. QED
  BY <1>2, <1>6, <1>7 DEF AreTidy, m, w

\* The speech the VAD finds, or everything.
LEMMA VoicedTidy ==
  ASSUME NEW cells \in SUBSET (0..Duration - 1)
  PROVE  AreTidy(Voiced(cells), 0, Duration) /\ Voiced(cells) # <<>>
<1> DEFINE r == RmsSpans(cells, Duration, 1)
           w == AtLeast(MinSegment, r)
<1>1. Duration \in Nat \ {0} /\ Duration * 1 = Duration
  BY AudioAssumption
<1>2. AreTidy(r, 0, Duration)
  BY <1>1, RunsTidy
<1> HIDE DEF r
<1>3. AreTidy(w, 0, Duration)
  BY <1>2, AtLeastTidy
<1>4. Voiced(cells) = IF w = <<>> THEN <<Span(0, Duration)>> ELSE w
  BY DEF Voiced, r
<1> HIDE DEF w
<1>5. AreTidy(<<Span(0, Duration)>>, 0, Duration) /\ <<Span(0, Duration)>> # <<>>
  <2>1. Span(0, Duration) \in SpanType /\ Span(0, Duration).start = 0 /\ Span(0, Duration).end = Duration
    BY <1>1, SpanIs
  <2>2. QED
    BY <1>1, <2>1 DEF AreTidy
<1>6. QED
  BY <1>3, <1>4, <1>5

\* Windows: neither their starts nor their ends go back.
AreGliding(ws, lo, hi) ==
  /\ ws \in Seq(SpanType) /\ ws # <<>>
  /\ \A i \in 1..Len(ws) : lo <= ws[i].start /\ ws[i].start < ws[i].end /\ ws[i].end <= hi
  /\ \A i, j \in 1..Len(ws) : i < j => ws[i].start <= ws[j].start /\ ws[i].end <= ws[j].end

\* Floor division.
LEMMA Divided ==
  ASSUME NEW a \in Nat, NEW b \in Nat \ {0}
  PROVE  a \div b \in Nat /\ (a \div b) * b <= a
OBVIOUS

\* The windows of a span are in it, in order of start and of end.
LEMMA WindowsOfGlide ==
  ASSUME NEW x \in SpanType, x.start < x.end
  PROVE  AreGliding(WindowsOf(x), x.start, x.end)
<1> DEFINE full == (Length(x) - Window) \div Hop + 1
           at(i) == x.start + (i - 1) * Hop
           slid == [i \in 1..full |-> Span(at(i), at(i) + Window)]
           tail == Higher(x.start, x.end - Window)
<1>1. x.start \in Int /\ x.end \in Int /\ Length(x) = x.end - x.start
  BY DEF SpanType, Length
<1>2. Window \in Nat \ {0} /\ Hop \in Nat \ {0} /\ MinSegment \in Nat \ {0}
  BY WindowAssumption
<1>3. CASE Length(x) <= Window
  <2>1. WindowsOf(x) = <<x>>
    BY <1>3 DEF WindowsOf
  <2>2. QED
    BY <1>1, <2>1 DEF AreGliding
<1>4. CASE ~(Length(x) <= Window)
  <2>1. Length(x) - Window \in Nat
    BY <1>1, <1>2, <1>4
  <2>2. full \in Nat /\ full >= 1 /\ (full - 1) * Hop <= Length(x) - Window
    BY <1>2, <2>1, Divided
  <2> HIDE DEF full
  <2>3. ASSUME NEW i \in 1..full
        PROVE  /\ at(i) \in Int /\ x.start <= at(i) /\ at(i) + Window <= x.end
               /\ slid[i] = Span(at(i), at(i) + Window)
    <3>1. i - 1 >= 0 /\ i - 1 <= full - 1 /\ i - 1 \in Int /\ full - 1 \in Int
      BY <2>2
    <3>2. (i - 1) * Hop \in Int /\ (i - 1) * Hop >= 0 /\ (i - 1) * Hop <= (full - 1) * Hop
      BY <1>2, <3>1, Scaled
    <3>3. QED
      BY <1>1, <1>2, <2>2, <3>2
  <2>4. ASSUME NEW i \in 1..full, NEW j \in 1..full, i < j PROVE at(i) <= at(j)
    <3>1. i - 1 \in Int /\ j - 1 \in Int /\ i - 1 <= j - 1
      BY <2>2, <2>4
    <3>2. (i - 1) * Hop <= (j - 1) * Hop /\ (i - 1) * Hop \in Int /\ (j - 1) * Hop \in Int
      BY <1>2, <3>1, Scaled
    <3>3. QED
      BY <1>1, <3>2
  <2>5. tail = x.end - Window /\ tail \in Int /\ x.start <= tail
    BY <1>1, <1>2, <1>4 DEF Higher
  <2>6. /\ slid \in Seq(SpanType) /\ Len(slid) = full
        /\ \A i \in 1..full : slid[i].start = at(i) /\ slid[i].end = at(i) + Window
    <3>1. \A i \in 1..full : /\ Span(at(i), at(i) + Window) \in SpanType
                             /\ Span(at(i), at(i) + Window).start = at(i)
                             /\ Span(at(i), at(i) + Window).end = at(i) + Window
      BY <1>2, <2>3, SpanIs
    <3> HIDE DEF at
    <3>2. QED
      BY <2>2, <3>1, SeqDef
  <2>7. AreGliding(slid, x.start, x.end)
    <3>1. slid # <<>>
      BY <2>2, <2>6, EmptySeq
    <3> HIDE DEF slid
    <3>2. \A i \in 1..full : /\ x.start <= slid[i].start /\ slid[i].start < slid[i].end
                             /\ slid[i].end <= x.end
      BY <1>2, <2>3, <2>6
    <3>3. \A i, j \in 1..full : i < j => slid[i].start <= slid[j].start /\ slid[i].end <= slid[j].end
      <4>1. ASSUME NEW i \in 1..full, NEW j \in 1..full, i < j
            PROVE slid[i].start <= slid[j].start /\ slid[i].end <= slid[j].end
        <5>1. at(i) <= at(j) /\ at(i) \in Int /\ at(j) \in Int
          BY <2>3, <2>4, <4>1
        <5> HIDE DEF at
        <5>2. QED
          BY <1>2, <2>6, <5>1
      <4>2. QED
        BY <4>1
    <3>4. QED
      BY <2>6, <3>1, <3>2, <3>3 DEF AreGliding
  <2>8. ASSUME NEW ws, ws = Append(slid, Span(tail, x.end)) PROVE AreGliding(ws, x.start, x.end)
    <3> DEFINE y == Span(tail, x.end)
    <3>1. y \in SpanType /\ y.start = tail /\ y.end = x.end
      BY <1>1, <2>5, SpanIs
    <3>7. ws = Append(slid, y)
      BY <2>8
    <3> HIDE DEF y, slid, tail, at
    <3>2. /\ ws \in Seq(SpanType) /\ Len(ws) = full + 1 /\ ws[full + 1] = y
          /\ \A i \in 1..full : ws[i] = slid[i]
      BY <2>6, <3>1, <3>7, AppendSpan
    <3>3. ws # <<>>
      BY <2>2, <3>2, EmptySeq
    <3>4. ASSUME NEW i \in 1..Len(ws)
          PROVE  x.start <= ws[i].start /\ ws[i].start < ws[i].end /\ ws[i].end <= x.end
      <4>1. CASE i = full + 1
        BY <1>1, <1>2, <2>5, <3>1, <3>2, <4>1
      <4>2. CASE i # full + 1
        <5>1. i \in 1..full
          BY <2>2, <3>2, <4>2
        <5>2. QED
          BY <2>6, <2>7, <3>2, <5>1 DEF AreGliding
      <4>3. QED
        BY <4>1, <4>2
    <3>5. ASSUME NEW i \in 1..Len(ws), NEW j \in 1..Len(ws), i < j
          PROVE  ws[i].start <= ws[j].start /\ ws[i].end <= ws[j].end
      <4>1. i \in 1..full
        BY <2>2, <3>2, <3>5
      <4>2. CASE j = full + 1
        <5>1. slid[i].end <= x.end /\ slid[i].start + Window = slid[i].end
              /\ slid[i].start \in Int /\ slid[i].end \in Int
          BY <1>1, <1>2, <2>3, <2>6, <4>1
        <5>2. ws[i] = slid[i] /\ ws[j] = y
          BY <3>2, <4>1, <4>2
        <5>3. QED
          BY <1>1, <1>2, <2>5, <3>1, <5>1, <5>2
      <4>3. CASE j # full + 1
        <5>1. j \in 1..full
          BY <2>2, <3>2, <4>3
        <5>2. QED
          BY <2>6, <2>7, <3>2, <3>5, <4>1, <5>1 DEF AreGliding
      <4>4. QED
        BY <4>2, <4>3
    <3>6. QED
      BY <3>2, <3>3, <3>4, <3>5 DEF AreGliding
  <2>9. WindowsOf(x) \in {slid, Append(slid, Span(tail, x.end))}
    BY <1>4 DEF WindowsOf, full
  <2>10. QED
    BY <2>7, <2>8, <2>9
<1>5. QED
  BY <1>3, <1>4

\* So are those of all the spans, as the spans are apart.
LEMMA WindowsGlide ==
  ASSUME NEW v, NEW lo \in Int, NEW hi \in Int, AreTidy(v, lo, hi), v # <<>>
  PROVE  AreGliding(Windows(v), lo, hi)
<1> DEFINE n == Len(v)
           ss == [i \in 1..n |-> WindowsOf(v[i])]
           W == Windows(v)
<1>1. /\ n \in Nat /\ n # 0 /\ v \in Seq(SpanType) /\ DOMAIN v = 1..n
      /\ \A i \in 1..n : v[i] \in SpanType
  BY LenProperties, EmptySeq, ElementOfSeq DEF AreTidy
<1>2. ASSUME NEW i \in 1..n
      PROVE  /\ AreGliding(ss[i], v[i].start, v[i].end) /\ ss[i] \in Seq(SpanType)
             /\ Len(ss[i]) \in Nat \ {0} /\ v[i].start \in Int /\ v[i].end \in Int
  <2>1. AreGliding(WindowsOf(v[i]), v[i].start, v[i].end)
    BY <1>1, WindowsOfGlide DEF AreTidy
  <2>2. ss[i] = WindowsOf(v[i])
    OBVIOUS
  <2> HIDE DEF ss
  <2>3. v[i].start \in Int /\ v[i].end \in Int
    BY <1>1 DEF SpanType
  <2>4. QED
    BY <2>1, <2>2, <2>3, LenProperties, EmptySeq DEF AreGliding
<1>3. ss \in [1..n -> Seq(SpanType)] /\ W = FlattenSeq(ss)
  <2>1. ss = [i \in 1..n |-> ss[i]]
    OBVIOUS
  <2>2. W = FlattenSeq(ss)
    BY <1>1 DEF Windows
  <2>3. QED
    BY <1>2, <2>1, <2>2
<1> HIDE DEF ss, W, n
<1>4. W \in Seq(SpanType) /\ \E o : IsFlat(o, n, ss)
  BY <1>1, <1>3, Flattens
<1>5. PICK off : IsFlat(off, n, ss)
  BY <1>4
<1> DEFINE N == off[n]
<1>6. /\ N \in Nat /\ Len(W) = N /\ off \in [0..n -> Nat]
      /\ \A i \in 1..n : off[i] = off[i - 1] + Len(ss[i])
      /\ \A i \in 1..n : \A j \in 1..Len(ss[i]) :
           off[i - 1] + j \in 1..N /\ W[off[i - 1] + j] = ss[i][j]
      /\ \A k \in 1..N : \E i \in 1..n : \E j \in 1..Len(ss[i]) : k = off[i - 1] + j
      /\ \A i, h \in 1..n : i < h => off[i] <= off[h - 1]
  BY <1>1, <1>3, <1>5 DEF IsFlat
<1> HIDE DEF N
<1>7. W # <<>>
  <2>1. 1 \in 1..n /\ 1 \in 1..Len(ss[1])
    BY <1>1, <1>2
  <2>2. off[1 - 1] + 1 \in 1..N
    BY <1>6, <2>1
  <2>3. N # 0
    BY <1>6, <2>2
  <2>4. QED
    BY <1>4, <1>6, <2>3, EmptySeq
<1>8. ASSUME NEW k \in 1..N
      PROVE  lo <= W[k].start /\ W[k].start < W[k].end /\ W[k].end <= hi
  <2>1. PICK i \in 1..n : \E j \in 1..Len(ss[i]) : k = off[i - 1] + j
    BY <1>6
  <2>2. PICK j \in 1..Len(ss[i]) : k = off[i - 1] + j
    BY <2>1
  <2>3. W[k] = ss[i][j]
    BY <1>6, <2>2
  <2>4. /\ v[i].start <= ss[i][j].start /\ ss[i][j].start < ss[i][j].end /\ ss[i][j].end <= v[i].end
        /\ ss[i][j] \in SpanType
    BY <1>2, ElementOfSeq DEF AreGliding
  <2>5. lo <= v[i].start /\ v[i].end <= hi
    BY <1>1 DEF AreTidy, n
  <2>6. /\ v[i].start \in Int /\ v[i].end \in Int
        /\ ss[i][j].start \in Int /\ ss[i][j].end \in Int
    BY <1>2, <2>4 DEF SpanType
  <2>7. lo <= ss[i][j].start /\ ss[i][j].start < ss[i][j].end /\ ss[i][j].end <= hi
    BY <2>4, <2>5, <2>6
  <2>8. QED
    BY <2>3, <2>7
<1>9. ASSUME NEW k \in 1..N, NEW l \in 1..N, k < l
      PROVE  W[k].start <= W[l].start /\ W[k].end <= W[l].end
  <2>1. PICK i \in 1..n : \E j \in 1..Len(ss[i]) : k = off[i - 1] + j
    BY <1>6
  <2>2. PICK j \in 1..Len(ss[i]) : k = off[i - 1] + j
    BY <2>1
  <2>3. PICK h \in 1..n : \E m \in 1..Len(ss[h]) : l = off[h - 1] + m
    BY <1>6
  <2>4. PICK m \in 1..Len(ss[h]) : l = off[h - 1] + m
    BY <2>3
  <2>5. /\ W[k] = ss[i][j] /\ W[l] = ss[h][m]
        /\ ss[i][j] \in SpanType /\ ss[h][m] \in SpanType
    BY <1>2, <1>6, <2>2, <2>4, ElementOfSeq
  <2>6. /\ off[i - 1] \in Nat /\ off[h - 1] \in Nat /\ off[h] = off[h - 1] + Len(ss[h])
        /\ Len(ss[h]) \in Nat /\ Len(ss[i]) \in Nat /\ off[i] \in Nat /\ off[h] \in Nat
    <3>1. i - 1 \in 0..n /\ h - 1 \in 0..n /\ i \in 0..n /\ h \in 0..n
      BY <1>1
    <3>2. QED
      BY <1>2, <1>6, <3>1
  <2>7. ~(h < i)
    <3>1. h < i => off[h] <= off[i - 1]
      BY <1>6
    <3> DEFINE u == Len(ss[h])
    <3>2. u \in Nat /\ m <= u /\ m \in Nat /\ j \in Nat /\ 1 <= j /\ off[h] = off[h - 1] + u
      BY <2>6
    <3> HIDE DEF u
    <3>3. QED
      BY <1>9, <2>2, <2>4, <2>6, <3>1, <3>2, SMTT(30)
  <2>8. CASE i = h
    <3>1. j < m
      BY <1>9, <2>2, <2>4, <2>6, <2>8
    <3>2. QED
      BY <1>2, <2>5, <2>8, <3>1 DEF AreGliding
  <2>9. CASE i < h
    <3>1. v[i].end < v[h].start
      BY <2>9 DEF AreTidy, n
    <3>2. /\ ss[i][j].start < ss[i][j].end /\ ss[i][j].end <= v[i].end
          /\ v[h].start <= ss[h][m].start /\ ss[h][m].start < ss[h][m].end
      BY <1>2 DEF AreGliding
    <3>3. /\ v[i].end \in Int /\ v[h].start \in Int
          /\ ss[i][j].start \in Int /\ ss[i][j].end \in Int
          /\ ss[h][m].start \in Int /\ ss[h][m].end \in Int
      BY <1>2, <2>5 DEF SpanType
    <3>4. /\ ss[i][j].start <= ss[h][m].start /\ ss[i][j].end <= ss[h][m].end
      <4> DEFINE a == ss[i][j].start
                 b == ss[i][j].end
                 c == v[i].end
                 d == v[h].start
                 e == ss[h][m].start
                 f == ss[h][m].end
      <4>1. a < b /\ b <= c /\ c < d /\ d <= e /\ e < f
        BY <3>1, <3>2
      <4>2. a \in Int /\ b \in Int /\ c \in Int /\ d \in Int /\ e \in Int /\ f \in Int
        BY <3>3
      <4> HIDE DEF a, b, c, d, e, f
      <4>3. a <= e /\ b <= f
        BY <4>1, <4>2
      <4>4. QED
        BY <4>3 DEF a, b, e, f
    <3>5. QED
      BY <2>5, <3>4
  <2>10. QED
    BY <1>1, <2>7, <2>8, <2>9
<1>10. QED
  BY <1>4, <1>6, <1>7, <1>8, <1>9 DEF AreGliding, W

-----------------------------------------------------------------------------
(* Segments.                                                                  *)

Locals == ToSet(LocalNames)
SegmentType == [start : Int, end : Int, label : Locals, emb : BOOLEAN]

\* Windows with labels, and the segments they become, within the audio.
AreWithin(xs) ==
  /\ xs \in Seq(SegmentType)
  /\ \A i \in 1..Len(xs) :
       0 <= xs[i].start /\ xs[i].start < xs[i].end /\ xs[i].end <= Duration
AreVoices(xs) ==
  /\ AreWithin(xs) /\ xs # <<>>
  /\ \A i, j \in 1..Len(xs) : i < j => xs[i].start <= xs[j].start /\ xs[i].end <= xs[j].end

\* There is a name for each cluster that a window is in.
LEMMA LabelledVoices ==
  ASSUME NEW ws, AreGliding(ws, 0, Duration), NEW cluster \in [ToSet(ws) -> Clusters]
  PROVE  AreVoices(Labelled(ws, cluster))
<1> DEFINE n == Len(ws)
           of(i) == cluster[ws[i]]
           first(i) == CHOOSE j \in DOMAIN ws : of(j) = of(i) /\ \A k \in 1..j - 1 : of(k) # of(i)
           met(i) == {of(k) : k \in 1..first(i)}
           xs == Labelled(ws, cluster)
<1>1. /\ n \in Nat /\ DOMAIN ws = 1..n /\ ws \in Seq(SpanType) /\ ws # <<>> /\ n # 0
      /\ \A i \in 1..n : ws[i] \in SpanType
  BY LenProperties, EmptySeq, ElementOfSeq DEF AreGliding
<1>2. \A i \in 1..n : of(i) \in Clusters
  BY <1>1 DEF ToSet
<1>3. ASSUME NEW i \in 1..n PROVE first(i) \in 1..n
  <2> DEFINE T == {j \in 1..n : of(j) = of(i)}
  <2> HIDE DEF of
  <2>1. T \in SUBSET Nat /\ i \in T
    BY <1>1
  <2>2. PICK j \in T : \A k \in T : j <= k
    BY <2>1, LeastOf
  <2>3. j \in 1..n /\ of(j) = of(i)
    OBVIOUS
  <2>4. \A k \in 1..j - 1 : of(k) # of(i)
    <3>1. ASSUME NEW k \in 1..j - 1 PROVE k \notin T
      BY <2>2, <2>3
    <3>2. \A k \in 1..j - 1 : k \in 1..n
      BY <1>1, <2>3
    <3>3. QED
      BY <3>1, <3>2
  <2>5. \E l \in DOMAIN ws : of(l) = of(i) /\ \A k \in 1..l - 1 : of(k) # of(i)
    BY <1>1, <2>3, <2>4
  <2>6. QED
    BY <1>1, <2>5
<1>4. ASSUME NEW i \in 1..n PROVE LocalNames[Cardinality(met(i))] \in Locals
  <2>1. met(i) \in SUBSET Clusters /\ of(1) \in met(i)
    <3>1. first(i) \in 1..n
      BY <1>3
    <3> HIDE DEF of, first
    <3>2. 1 \in 1..first(i) /\ \A k \in 1..first(i) : k \in 1..n
      BY <1>1, <3>1
    <3>3. QED
      BY <1>2, <3>2
  <2> HIDE DEF met
  <2>2. /\ IsFiniteSet(met(i)) /\ Cardinality(met(i)) <= Cardinality(Clusters)
        /\ Cardinality(Clusters) \in Nat /\ Cardinality(Clusters) <= Len(LocalNames)
    BY <2>1, NamesAssumption, FS_Subset, FS_CardinalityType
  <2>3. Cardinality(met(i)) \in Nat /\ Cardinality(met(i)) # 0
    BY <2>1, <2>2, FS_CardinalityType, FS_EmptySet
  <2>4. Len(LocalNames) \in Nat /\ DOMAIN LocalNames = 1..Len(LocalNames)
    BY NamesAssumption, LenProperties
  <2>5. Cardinality(met(i)) \in DOMAIN LocalNames
    BY <2>2, <2>3, <2>4
  <2>6. QED
    BY <2>5 DEF Locals, ToSet
<1>5. xs = [i \in 1..n |-> [start |-> ws[i].start, end |-> ws[i].end,
                            label |-> LocalNames[Cardinality(met(i))], emb |-> TRUE]]
  BY <1>1 DEF Labelled
<1> HIDE DEF xs, met
<1>6. ASSUME NEW i \in 1..n
      PROVE  xs[i] \in SegmentType /\ xs[i].start = ws[i].start /\ xs[i].end = ws[i].end
  BY <1>1, <1>4, <1>5 DEF SegmentType, SpanType
<1>7. xs \in Seq(SegmentType) /\ Len(xs) = n
  <2>1. xs = [i \in 1..n |-> xs[i]]
    BY <1>5
  <2>2. QED
    BY <1>1, <1>6, <2>1, SeqDef
<1>8. xs # <<>>
  BY <1>1, <1>7, EmptySeq
<1>9. QED
  BY <1>6, <1>7, <1>8 DEF AreVoices, AreWithin, AreGliding, xs

\* Sorting by the start, as a permutation.
LEMMA ByStartSorts ==
  ASSUME NEW T, NEW xs \in Seq(T), \A x \in T : x.start \in Int
  PROVE  /\ ByStart(xs) \in Seq(T) /\ Len(ByStart(xs)) = Len(xs)
         /\ \E at : IsSort(at, Len(xs), [i \in 1..Len(xs) |-> xs[i].start], xs)
<1> DEFINE n == Len(xs)
           key == [i \in 1..n |-> xs[i].start]
<1>1. n \in Nat /\ DOMAIN xs = 1..n /\ \A i \in 1..n : xs[i] \in T
  BY LenProperties, ElementOfSeq
<1>2. key \in [1..n -> Int]
  BY <1>1
<1>3. ByStart(xs) = SortedBy(key, xs)
  BY <1>1 DEF ByStart
<1> HIDE DEF key, n
<1>4. PICK at : IsSort(at, n, key, xs)
  BY <1>1, <1>2, Sorts
<1>5. ByStart(xs) = [k \in 1..n |-> xs[at[k]]] /\ at \in [1..n -> 1..n]
  BY <1>3, <1>4 DEF IsSort
<1>8. \A k \in 1..n : xs[at[k]] \in T
  BY <1>1, <1>5
<1>6. ByStart(xs) \in Seq(T) /\ Len(ByStart(xs)) = n
  BY <1>1, <1>5, <1>8, SeqDef
<1>7. QED
  BY <1>4, <1>6 DEF n, key

\* Of voices it leaves the order of starts and ends as it is.
LEMMA VoicesSorted ==
  ASSUME NEW ws, AreVoices(ws)
  PROVE  /\ AreVoices(ByStart(ws)) /\ Len(ByStart(ws)) = Len(ws)
         /\ \A k \in 1..Len(ws) : \E i \in 1..Len(ws) : ByStart(ws)[k] = ws[i]
         /\ \A i \in 1..Len(ws) : \E k \in 1..Len(ws) : ByStart(ws)[k] = ws[i]
<1> DEFINE n == Len(ws)
           xs == ByStart(ws)
           key == [i \in 1..n |-> ws[i].start]
<1>1. ws \in Seq(SegmentType) /\ ws # <<>> /\ n \in Nat /\ n # 0
      /\ \A i \in 1..n : ws[i] \in SegmentType
  BY LenProperties, EmptySeq, ElementOfSeq DEF AreVoices, AreWithin
<1>2. \A x \in SegmentType : x.start \in Int
  BY DEF SegmentType
<1>3. xs \in Seq(SegmentType) /\ Len(xs) = n /\ \E at : IsSort(at, n, key, ws)
  BY <1>1, <1>2, ByStartSorts
<1>4. PICK at : IsSort(at, n, key, ws)
  BY <1>3
<1>5. /\ xs = [k \in 1..n |-> ws[at[k]]] /\ at \in [1..n -> 1..n]
      /\ \A i \in 1..n : \E k \in 1..n : at[k] = i
      /\ \A j, k \in 1..n : j < k =>
           ws[at[j]].start <= ws[at[k]].start /\ (ws[at[j]].start = ws[at[k]].start => at[j] < at[k])
  <2>1. xs = SortedBy(key, ws)
    BY <1>1, LenProperties DEF ByStart
  <2>2. at \in [1..n -> 1..n] /\ \A j \in 1..n : key[at[j]] = ws[at[j]].start
    BY <1>4 DEF IsSort
  <2> HIDE DEF key, xs
  <2>3. QED
    BY <1>4, <2>1, <2>2 DEF IsSort
<1> HIDE DEF xs, key
<1>6. \A k \in 1..n : xs[k] = ws[at[k]] /\ at[k] \in 1..n
  BY <1>5
<1>7. ASSUME NEW j \in 1..n, NEW k \in 1..n, j < k
      PROVE  xs[j].start <= xs[k].start /\ xs[j].end <= xs[k].end
  <2> DEFINE a == at[j]
             b == at[k]
  <2>1. /\ a \in 1..n /\ b \in 1..n /\ xs[j] = ws[a] /\ xs[k] = ws[b]
        /\ ws[a].start <= ws[b].start /\ (ws[a].start = ws[b].start => a < b)
    BY <1>5, <1>6, <1>7
  <2> HIDE DEF a, b
  <2>2. ws[a].start \in Int /\ ws[b].start \in Int /\ ws[a].end \in Int /\ ws[b].end \in Int
    BY <1>1, <2>1 DEF SegmentType
  <2>3. a < b => ws[a].end <= ws[b].end
    BY <2>1 DEF AreVoices
  <2>4. b < a => ws[b].start <= ws[a].start
    BY <2>1 DEF AreVoices
  <2>5. a = b => ws[a].end <= ws[b].end
    BY <2>2
  <2>6. ~(b < a)
    BY <2>1, <2>2, <2>4
  <2>7. QED
    BY <1>1, <2>1, <2>3, <2>5, <2>6
<1>8. xs # <<>>
  BY <1>1, <1>3, EmptySeq
<1>9. AreVoices(xs)
  BY <1>3, <1>6, <1>7, <1>8 DEF AreVoices, AreWithin
<1>10. QED
  BY <1>3, <1>5, <1>6, <1>9, ZenonT(30) DEF xs

\* What the first k of some voices have been merged into.
MergedUpTo(acc, xs, k) ==
  /\ AreWithin(acc)
  /\ k = 0 => acc = <<>>
  /\ k # 0 => /\ acc # <<>> /\ acc[Len(acc)].end = xs[k].end /\ acc[Len(acc)].label = xs[k].label
              /\ acc[Len(acc)].start <= xs[k].start
  /\ \A i, j \in 1..Len(acc) : i < j => acc[i].start <= acc[j].start
  /\ \A j \in 1..k : \A c \in Cells(xs[j]) :
       \E i \in 1..Len(acc) : acc[i].label = xs[j].label /\ c \in Cells(acc[i])
  /\ \A i \in 1..Len(acc) : \A c \in Cells(acc[i]) :
       \E j \in 1..k :
         /\ xs[j].label = acc[i].label
         /\ \/ c \in Cells(xs[j])
            \/ /\ xs[j].end <= c /\ c < xs[j].end + Gap
               /\ \A l \in 1..Len(xs) : c \notin Cells(xs[l])

\* A segment's parts, and a segment that is made to end elsewhere.
LEMMA SegmentFacts ==
  ASSUME NEW x \in SegmentType
  PROVE  /\ x.start \in Int /\ x.end \in Int /\ x.label \in Locals /\ Cells(x) = x.start..x.end - 1
         /\ \A e \in Int : /\ [x EXCEPT !.end = e] \in SegmentType
                           /\ [x EXCEPT !.end = e].start = x.start /\ [x EXCEPT !.end = e].end = e
                           /\ [x EXCEPT !.end = e].label = x.label
BY DEF SegmentType, Cells

\* Appending a segment.
LEMMA AppendSegment ==
  ASSUME NEW s \in Seq(SegmentType), NEW x \in SegmentType
  PROVE  /\ Append(s, x) \in Seq(SegmentType) /\ Len(Append(s, x)) = Len(s) + 1 /\ Len(s) \in Nat
         /\ Append(s, x)[Len(s) + 1] = x
         /\ \A i \in 1..Len(s) : Append(s, x)[i] = s[i] /\ s[i] \in SegmentType
BY AppendProperties, LenProperties, ElementOfSeq

\* One segment more: into the last, or behind it.
LastExtended(acc, e) == [acc EXCEPT ![Len(acc)].end = e]
\* The last segment made to end elsewhere.
LEMMA LastGrows ==
  ASSUME NEW s \in Seq(SegmentType), s # <<>>, NEW e \in Int
  PROVE  /\ Len(s) \in Nat \ {0} /\ Last(s) = s[Len(s)] /\ s[Len(s)] \in SegmentType
         /\ LastExtended(s, e) \in Seq(SegmentType) /\ Len(LastExtended(s, e)) = Len(s)
         /\ LastExtended(s, e)[Len(s)] = [s[Len(s)] EXCEPT !.end = e]
         /\ \A i \in 1..Len(s) - 1 : LastExtended(s, e)[i] = s[i]
<1> DEFINE m == Len(s)
           y == [s[m] EXCEPT !.end = e]
<1>1. m \in Nat \ {0} /\ Last(s) = s[m] /\ s[m] \in SegmentType /\ m \in 1..m
  BY LenProperties, EmptySeq, ElementOfSeq DEF Last
<1>2. y \in SegmentType
  BY <1>1, SegmentFacts
<1>3. LastExtended(s, e) = [s EXCEPT ![m] = y]
  BY DEF LastExtended
<1> HIDE DEF y
<1>4. /\ LastExtended(s, e) \in Seq(SegmentType) /\ Len(LastExtended(s, e)) = m
      /\ \A j \in 1..m : LastExtended(s, e)[j] = IF j = m THEN y ELSE s[j]
  BY <1>1, <1>2, <1>3, ExceptSeq
<1>5. QED
  BY <1>1, <1>4 DEF y

\* What one more window does to the segments so far.
LEMMA AdjacentIs ==
  ASSUME NEW acc \in Seq(SegmentType), NEW x \in SegmentType
  PROVE  /\ Adjacent(acc, x) \in Seq(SegmentType)
         /\ \/ Adjacent(acc, x) = Append(acc, x)
            \/ /\ acc # <<>> /\ x.label = acc[Len(acc)].label
               /\ x.start <= acc[Len(acc)].end + Gap
               /\ Adjacent(acc, x) = LastExtended(acc, Higher(acc[Len(acc)].end, x.end))
<1>1. Append(acc, x) \in Seq(SegmentType)
  BY AppendSegment
<1>2. CASE acc # <<>> /\ x.label = Last(acc).label /\ x.start <= Last(acc).end + Gap
  <2>1. Last(acc) = acc[Len(acc)] /\ acc[Len(acc)] \in SegmentType
    BY <1>2, LenProperties, EmptySeq, ElementOfSeq DEF Last
  <2> DEFINE e == Higher(acc[Len(acc)].end, x.end)
  <2>2. e \in Int
    BY <2>1, SegmentFacts DEF Higher
  <2>3. Adjacent(acc, x) = LastExtended(acc, e)
    BY <1>2 DEF Adjacent, LastExtended
  <2> HIDE DEF e
  <2>4. LastExtended(acc, e) \in Seq(SegmentType)
    BY <1>2, <2>2, LastGrows
  <2>5. QED
    BY <1>2, <2>1, <2>3, <2>4 DEF e
<1>3. CASE ~(acc # <<>> /\ x.label = Last(acc).label /\ x.start <= Last(acc).end + Gap)
  <2>1. Adjacent(acc, x) = Append(acc, x)
    BY <1>3 DEF Adjacent
  <2>2. QED
    BY <1>1, <2>1
<1>4. QED
  BY <1>2, <1>3

\* MergedUpTo() is kept by one more window.
LEMMA MergesOneMore ==
  ASSUME NEW xs, AreVoices(xs), NEW k \in 1..Len(xs), NEW acc, MergedUpTo(acc, xs, k - 1)
  PROVE  MergedUpTo(Adjacent(acc, xs[k]), xs, k)
<1> DEFINE n == Len(xs)
           x == xs[k]
           new == Adjacent(acc, x)
           m == Len(acc)
<1>1. /\ xs \in Seq(SegmentType) /\ n \in Nat
      /\ \A i \in 1..n : /\ xs[i] \in SegmentType /\ xs[i].start \in Int /\ xs[i].end \in Int
                         /\ Cells(xs[i]) = xs[i].start..xs[i].end - 1
                         /\ 0 <= xs[i].start /\ xs[i].start < xs[i].end /\ xs[i].end <= Duration
      /\ \A i, j \in 1..n : i < j => xs[i].start <= xs[j].start /\ xs[i].end <= xs[j].end
  BY LenProperties, ElementOfSeq, SegmentFacts DEF AreVoices, AreWithin
<1>2. /\ acc \in Seq(SegmentType) /\ m \in Nat
      /\ \A i \in 1..m : /\ acc[i] \in SegmentType /\ acc[i].start \in Int /\ acc[i].end \in Int
                         /\ Cells(acc[i]) = acc[i].start..acc[i].end - 1
                         /\ 0 <= acc[i].start /\ acc[i].start < acc[i].end /\ acc[i].end <= Duration
      /\ \A i, j \in 1..m : i < j => acc[i].start <= acc[j].start
  BY LenProperties, ElementOfSeq, SegmentFacts DEF MergedUpTo, AreWithin
<1>3. /\ x \in SegmentType /\ x.start \in Int /\ x.end \in Int /\ 0 <= x.start /\ x.start < x.end
      /\ x.end <= Duration /\ Cells(x) = x.start..x.end - 1
  BY <1>1
<1>4. \/ new = Append(acc, x)
      \/ /\ acc # <<>> /\ x.label = acc[m].label /\ x.start <= acc[m].end + Gap
         /\ new = LastExtended(acc, Higher(acc[m].end, x.end))
  BY <1>2, <1>3, AdjacentIs
<1>5. new \in Seq(SegmentType)
  BY <1>2, <1>3, AdjacentIs
<1>6. acc # <<>> => k - 1 \in 1..n /\ k - 1 # 0
  BY DEF MergedUpTo
<1>7. acc # <<>> => /\ acc[m].end = xs[k - 1].end /\ acc[m].label = xs[k - 1].label
                    /\ acc[m].start <= xs[k - 1].start /\ m \in 1..m
  BY <1>2, <1>6, EmptySeq DEF MergedUpTo
<1>8. acc # <<>> => xs[k - 1].start <= x.start /\ xs[k - 1].end <= x.end
  BY <1>1, <1>6
<1>9. \A j \in 1..k - 1 : j \in 1..n /\ j \in 1..k
  BY <1>1
<1>10. /\ \A j \in 1..k - 1 : \A c \in Cells(xs[j]) :
            \E i \in 1..m : acc[i].label = xs[j].label /\ c \in Cells(acc[i])
       /\ \A i \in 1..m : \A c \in Cells(acc[i]) :
            \E j \in 1..k - 1 :
              /\ xs[j].label = acc[i].label
              /\ \/ c \in Cells(xs[j])
                 \/ /\ xs[j].end <= c /\ c < xs[j].end + Gap
                    /\ \A l \in 1..n : c \notin Cells(xs[l])
  BY DEF MergedUpTo
<1>11. \A j \in 1..k : j = k \/ j \in 1..k - 1
  OBVIOUS
<1>12. CASE new = Append(acc, x)
  <2> HIDE DEF new, n, x, m
  <2>1. /\ Len(new) = m + 1 /\ new[m + 1] = x /\ \A i \in 1..m : new[i] = acc[i]
    BY <1>2, <1>3, <1>12, AppendSegment DEF m
  <2>2. new # <<>>
    BY <1>2, <1>5, <2>1, EmptySeq
  <2>3. \A i \in 1..m + 1 : i = m + 1 \/ i \in 1..m
    BY <1>2
  <2>4. m + 1 \in 1..m + 1 /\ \A i \in 1..m : i \in 1..m + 1
    BY <1>2
  <2>5. AreWithin(new)
    BY <1>2, <1>3, <1>5, <2>1, <2>3 DEF AreWithin
  <2>6. ASSUME NEW i \in 1..m + 1, NEW j \in 1..m + 1, i < j PROVE new[i].start <= new[j].start
    <3>1. i \in 1..m /\ acc # <<>>
      BY <1>2, <2>6, EmptySeq DEF m
    <3>2. CASE j \in 1..m
      BY <1>2, <2>1, <2>6, <3>1, <3>2
    <3>3. CASE j = m + 1
      <4>1. acc[i].start <= acc[m].start
        BY <1>2, <1>7, <3>1
      <4>2. acc[m].start <= xs[k - 1].start /\ xs[k - 1].start <= x.start
            /\ acc[m].start \in Int /\ xs[k - 1].start \in Int /\ acc[i].start \in Int
        BY <1>1, <1>2, <1>6, <1>7, <1>8, <3>1
      <4>3. QED
        BY <1>3, <2>1, <3>1, <3>3, <4>1, <4>2
    <3>4. QED
      BY <2>3, <3>2, <3>3
  <2>7. ASSUME NEW j \in 1..k, NEW c \in Cells(xs[j])
        PROVE  \E i \in 1..m + 1 : new[i].label = xs[j].label /\ c \in Cells(new[i])
    <3>1. CASE j = k
      BY <2>1, <2>4, <3>1 DEF x
    <3>2. CASE j \in 1..k - 1
      BY <1>10, <2>1, <2>4, <3>2, ZenonT(30)
    <3>3. QED
      BY <1>11, <3>1, <3>2
  <2>8. ASSUME NEW i \in 1..m + 1, NEW c \in Cells(new[i])
        PROVE  \E j \in 1..k :
                 /\ xs[j].label = new[i].label
                 /\ \/ c \in Cells(xs[j])
                    \/ /\ xs[j].end <= c /\ c < xs[j].end + Gap
                       /\ \A l \in 1..n : c \notin Cells(xs[l])
    <3>1. CASE i = m + 1
      <4>1. k \in 1..k /\ new[i] = xs[k]
        BY <2>1, <3>1 DEF x
      <4>2. QED
        BY <4>1
    <3>2. CASE i \in 1..m
      BY <1>9, <1>10, <2>1, <3>2, ZenonT(30)
    <3>3. QED
      BY <2>3, <3>1, <3>2
  <2>9. k # 0 /\ new[Len(new)].end = xs[k].end /\ new[Len(new)].label = xs[k].label
        /\ new[Len(new)].start <= xs[k].start
    BY <1>3, <2>1 DEF x
  <2>10. QED
    BY <2>1, <2>2, <2>5, <2>6, <2>7, <2>8, <2>9 DEF MergedUpTo, new, n, x
<1>13. CASE acc # <<>> /\ x.label = acc[m].label /\ x.start <= acc[m].end + Gap
            /\ new = LastExtended(acc, Higher(acc[m].end, x.end))
  <2>1. m \in 1..m /\ acc[m].end \in Int /\ acc[m].end <= x.end
    BY <1>2, <1>7, <1>8, <1>13
  <2>2. Higher(acc[m].end, x.end) = x.end
    BY <1>3, <2>1 DEF Higher
  <2>3. new = LastExtended(acc, x.end)
    BY <1>13, <2>2
  <2> HIDE DEF new, n, x
  <2>4. /\ Len(new) = m /\ new[m] = [acc[m] EXCEPT !.end = x.end]
        /\ \A i \in 1..m - 1 : new[i] = acc[i]
    BY <1>2, <1>3, <1>13, <2>3, LastGrows
  <2> HIDE DEF m
  <2>5. new[m].start = acc[m].start /\ new[m].end = x.end /\ new[m].label = acc[m].label
        /\ Cells(new[m]) = acc[m].start..x.end - 1 /\ new[m] \in SegmentType
    <3>1. acc[m] \in SegmentType /\ x.end \in Int
      BY <1>2, <1>3, <2>1
    <3> DEFINE y == [acc[m] EXCEPT !.end = x.end]
    <3>2. y \in SegmentType /\ y.start = acc[m].start /\ y.end = x.end /\ y.label = acc[m].label
      BY <3>1, SegmentFacts
    <3> HIDE DEF y
    <3>3. Cells(y) = y.start..y.end - 1
      BY <3>2, SegmentFacts
    <3>4. new[m] = y
      BY <2>4 DEF y
    <3>5. QED
      BY <3>2, <3>3, <3>4
  <2>6. \A i \in 1..m : /\ i = m \/ i \in 1..m - 1
                        /\ new[i].start = acc[i].start /\ new[i].label = acc[i].label
    <3>1. \A i \in 1..m : i = m \/ i \in 1..m - 1
      BY <1>2
    <3>2. QED
      BY <2>4, <2>5, <3>1
  <2>7. AreWithin(new)
    <3>1. acc[m].start < x.end
      BY <1>2, <1>3, <2>1
    <3>2. QED
      BY <1>2, <1>3, <1>5, <2>1, <2>4, <2>5, <2>6, <3>1 DEF AreWithin
  <2>8. \A i, j \in 1..m : i < j => new[i].start <= new[j].start
    BY <1>2, <2>6
  <2>9. ASSUME NEW j \in 1..k, NEW c \in Cells(xs[j])
        PROVE  \E i \in 1..m : new[i].label = xs[j].label /\ c \in Cells(new[i])
    <3>1. CASE j = k
      <4>1. c \in x.start..x.end - 1 /\ acc[m].start <= x.start
        <5>1. acc[m].start <= xs[k - 1].start /\ xs[k - 1].start <= x.start
              /\ acc[m].start \in Int /\ xs[k - 1].start \in Int
          BY <1>1, <1>2, <1>6, <1>7, <1>8, <1>13, <2>1
        <5>2. QED
          BY <1>3, <3>1, <5>1 DEF x
      <4>2. c \in acc[m].start..x.end - 1
        BY <1>2, <1>3, <2>1, <4>1
      <4>3. new[m].label = xs[j].label
        BY <1>13, <2>5, <3>1 DEF x
      <4>4. QED
        BY <2>1, <2>5, <4>2, <4>3
    <3>2. CASE j \in 1..k - 1
      <4>1. PICK i \in 1..m : acc[i].label = xs[j].label /\ c \in Cells(acc[i])
        BY <1>10, <3>2
      <4>2. CASE i = m
        <5>1. c \in acc[m].start..acc[m].end - 1
          BY <1>2, <2>1, <4>1, <4>2
        <5>2. c \in acc[m].start..x.end - 1
          BY <1>2, <1>3, <2>1, <5>1
        <5>3. QED
          BY <2>5, <2>6, <4>1, <4>2, <5>2
      <4>3. CASE i \in 1..m - 1
        BY <2>4, <4>1, <4>3
      <4>4. QED
        BY <2>6, <4>2, <4>3
    <3>3. QED
      BY <1>11, <3>1, <3>2
  <2>10. ASSUME NEW i \in 1..m, NEW c \in Cells(new[i])
         PROVE  \E j \in 1..k :
                  /\ xs[j].label = new[i].label
                  /\ \/ c \in Cells(xs[j])
                     \/ /\ xs[j].end <= c /\ c < xs[j].end + Gap
                        /\ \A l \in 1..n : c \notin Cells(xs[l])
    <3>1. CASE i \in 1..m - 1
      <4>1. new[i] = acc[i]
        BY <2>4, <3>1
      <4>2. QED
        BY <1>9, <1>10, <4>1
    <3>2. CASE i = m
      <4>1. c \in Int /\ acc[m].start <= c /\ c < x.end
        BY <1>2, <1>3, <2>1, <2>5, <3>2, SMTT(30)
      <4>2. CASE c < acc[m].end
        <5>1. c \in Cells(acc[m])
          BY <1>2, <2>1, <4>1, <4>2
        <5>2. QED
          BY <1>9, <1>10, <2>1, <2>5, <3>2, <5>1
      <4>3. CASE c >= x.start
        <5>1. c \in Cells(xs[k]) /\ k \in 1..k
          BY <1>3, <4>1, <4>3 DEF x
        <5>2. xs[k].label = new[i].label
          BY <1>13, <2>5, <3>2 DEF x
        <5>3. QED
          BY <5>1, <5>2
      <4>4. CASE acc[m].end <= c /\ c < x.start
        <5>1. k - 1 \in 1..k /\ k - 1 \in 1..n /\ xs[k - 1].label = new[i].label
          BY <1>6, <1>7, <1>13, <2>5, <3>2 DEF x
        <5>2. xs[k - 1].end <= c /\ c < xs[k - 1].end + Gap
          <6>1. xs[k - 1].end = acc[m].end /\ Gap \in Nat
            BY <1>7, <1>13, WindowAssumption
          <6>2. QED
            BY <1>3, <1>13, <2>1, <4>1, <4>4, <6>1
        <5>3. ASSUME NEW l \in 1..n PROVE c \notin Cells(xs[l])
          <6>4. /\ Cells(xs[l]) = xs[l].start..xs[l].end - 1
                /\ xs[l].start \in Int /\ xs[l].end \in Int /\ xs[k - 1].end \in Int
            BY <1>1, <5>1
          <6>1. CASE l < k
            <7>1. xs[l].end <= xs[k - 1].end
              <8>1. l = k - 1 \/ l < k - 1
                BY <1>1, <6>1
              <8>2. QED
                BY <1>1, <5>1, <8>1, <6>4
            <7>2. xs[l].end <= c
              BY <4>1, <5>2, <6>4, <7>1
            <7>3. QED
              BY <6>4, <7>2
          <6>2. CASE k <= l
            <7>1. x.start <= xs[l].start
              <8>1. k \in 1..n /\ (l = k \/ k < l) /\ x = xs[k]
                BY <1>1, <6>2 DEF n, x
              <8>2. QED
                BY <1>1, <8>1, <6>4
            <7>2. c < xs[l].start
              BY <1>3, <4>1, <4>4, <6>4, <7>1
            <7>3. QED
              BY <6>4, <7>2
          <6>3. QED
            BY <1>1, <6>1, <6>2 DEF n
        <5>4. QED
          BY <5>1, <5>2, <5>3
      <4>5. QED
        BY <1>3, <2>1, <4>1, <4>2, <4>3, <4>4
    <3>3. QED
      BY <2>6, <3>1, <3>2
  <2>11. k # 0 /\ new # <<>> /\ new[Len(new)].end = xs[k].end /\ new[Len(new)].label = xs[k].label
         /\ new[Len(new)].start <= xs[k].start
    <3>1. new # <<>>
      BY <1>2, <1>5, <2>1, <2>4, EmptySeq
    <3>2. acc[m].start <= x.start
      BY <1>1, <1>2, <1>3, <1>6, <1>7, <1>8, <1>13, <2>1
    <3>3. QED
      BY <1>13, <2>4, <2>5, <3>1, <3>2 DEF x
  <2>12. QED
    BY <2>4, <2>7, <2>8, <2>9, <2>10, <2>11 DEF MergedUpTo, new, n, x
<1>14. QED
  BY <1>4, <1>12, <1>13

\* And so holds of all of them.
LEMMA VoicesMerge ==
  ASSUME NEW xs, AreVoices(xs)
  PROVE  MergedUpTo(FoldLeft(Adjacent, <<>>, xs), xs, Len(xs))
<1> DEFINE n == Len(xs)
<1>1. n \in Nat /\ DOMAIN xs = 1..n /\ \A i \in 1..n : xs[i] \in SegmentType
  BY LenProperties, ElementOfSeq DEF AreVoices, AreWithin
<1> DEFINE Acc == Seq(SegmentType)
<1>2. <<>> \in Acc /\ \A k \in 1..n : \A a \in Acc : Adjacent(a, xs[k]) \in Acc
  BY <1>1, AdjacentIs, EmptySeq
<1> HIDE DEF n, Acc
<1>3. PICK g : AdjacentFoldIs(g, n, Acc, xs) /\ g[n] = FoldLeft(Adjacent, <<>>, xs)
  BY <1>1, <1>2, AdjacentFold
<1>4. g[0] = <<>> /\ \A k \in 1..n : g[k] = Adjacent(g[k - 1], xs[k])
  BY <1>3 DEF AdjacentFoldIs
<1> DEFINE D == {k \in 0..n : MergedUpTo(g[k], xs, k)}
<1>5. 0 \in D
  <2>1. MergedUpTo(<<>>, xs, 0)
    BY EmptySeq DEF MergedUpTo, AreWithin
  <2>2. QED
    BY <1>1, <1>4, <2>1
<1>6. ASSUME NEW k \in 1..n, k - 1 \in D PROVE k \in D
  <2>1. MergedUpTo(g[k - 1], xs, k - 1) /\ k \in 0..n
    BY <1>6
  <2>2. MergedUpTo(g[k], xs, k)
    BY <1>4, <2>1, MergesOneMore DEF n
  <2>3. QED
    BY <2>1, <2>2
<1>7. 0..n \subseteq D
  <2> HIDE DEF D
  <2>1. QED
    BY <1>1, <1>5, <1>6, UpTo
<1>8. QED
  BY <1>1, <1>3, <1>7 DEF n

\* Voices merged: nobody's moves, and none is lost.
LEMMA MergeIsFaithful ==
  ASSUME NEW ws, AreVoices(ws)
  PROVE  /\ AreWithin(MergeAdjacent(ws))
         /\ Covered(ws) \subseteq Covered(MergeAdjacent(ws))
         /\ \A l : /\ CellsOf(ws, l) \subseteq CellsOf(MergeAdjacent(ws), l)
                   /\ CellsOf(MergeAdjacent(ws), l) \ CellsOf(ws, l) \subseteq Behind(ws, l) \ Covered(ws)
         /\ \A i, j \in DOMAIN MergeAdjacent(ws) :
              i < j => MergeAdjacent(ws)[i].start <= MergeAdjacent(ws)[j].start
<1> DEFINE xs == ByStart(ws)
           ms == MergeAdjacent(ws)
           n == Len(ws)
           m == Len(ms)
<1>1. /\ AreVoices(xs) /\ Len(xs) = n
      /\ \A k \in 1..n : \E i \in 1..n : xs[k] = ws[i]
      /\ \A i \in 1..n : \E k \in 1..n : xs[k] = ws[i]
  BY VoicesSorted
<1>2. MergedUpTo(ms, xs, n)
  BY <1>1, VoicesMerge DEF MergeAdjacent
<1> HIDE DEF xs, ms
<1>3. AreWithin(ms) /\ DOMAIN ms = 1..m /\ DOMAIN ws = 1..n
  BY <1>2, LenProperties DEF MergedUpTo, AreWithin, AreVoices
<1> HIDE DEF n, m
<1>4. /\ \A i, j \in 1..m : i < j => ms[i].start <= ms[j].start
      /\ \A j \in 1..n : \A c \in Cells(xs[j]) :
           \E i \in 1..m : ms[i].label = xs[j].label /\ c \in Cells(ms[i])
      /\ \A i \in 1..m : \A c \in Cells(ms[i]) :
           \E j \in 1..n :
             /\ xs[j].label = ms[i].label
             /\ \/ c \in Cells(xs[j])
                \/ xs[j].end <= c /\ c < xs[j].end + Gap /\ \A l \in 1..n : c \notin Cells(xs[l])
  BY <1>1, <1>2 DEF MergedUpTo, m
<1>5. ASSUME NEW i \in 1..n, NEW c \in Cells(ws[i])
      PROVE  \E j \in 1..m : ms[j].label = ws[i].label /\ c \in Cells(ms[j])
  <2>1. PICK k \in 1..n : xs[k] = ws[i]
    BY <1>1
  <2>2. QED
    BY <1>4, <2>1
<1>6. ASSUME NEW i \in 1..m, NEW c \in Cells(ms[i])
      PROVE  \E j \in 1..n :
               /\ ws[j].label = ms[i].label
               /\ \/ c \in Cells(ws[j])
                  \/ ws[j].end <= c /\ c < ws[j].end + Gap /\ \A l \in 1..n : c \notin Cells(ws[l])
  <2>1. PICK k \in 1..n :
             /\ xs[k].label = ms[i].label
             /\ \/ c \in Cells(xs[k])
                \/ xs[k].end <= c /\ c < xs[k].end + Gap /\ \A l \in 1..n : c \notin Cells(xs[l])
    BY <1>4
  <2>2. PICK j \in 1..n : xs[k] = ws[j]
    BY <1>1
  <2>3. (\A l \in 1..n : c \notin Cells(xs[l])) => \A l \in 1..n : c \notin Cells(ws[l])
    BY <1>1
  <2>4. QED
    BY <2>1, <2>2, <2>3
<1>7. Covered(ws) \subseteq Covered(ms)
  BY <1>3, <1>5 DEF Covered
<1>8. ASSUME NEW l PROVE CellsOf(ws, l) \subseteq CellsOf(ms, l)
  BY <1>3, <1>5 DEF CellsOf
<1>9. ASSUME NEW l, NEW c \in CellsOf(ms, l), c \notin CellsOf(ws, l)
      PROVE  c \in Behind(ws, l) /\ c \notin Covered(ws)
  <2>1. PICK i \in 1..m : ms[i].label = l /\ c \in Cells(ms[i])
    BY <1>3, <1>9 DEF CellsOf
  <2>2. PICK j \in 1..n :
               /\ ws[j].label = ms[i].label
               /\ \/ c \in Cells(ws[j])
                  \/ ws[j].end <= c /\ c < ws[j].end + Gap /\ \A h \in 1..n : c \notin Cells(ws[h])
    BY <1>6, <2>1
  <2>3. c \notin Cells(ws[j])
    BY <1>3, <1>9, <2>1, <2>2 DEF CellsOf
  <2>4. ws[j].end <= c /\ c < ws[j].end + Gap /\ \A h \in 1..n : c \notin Cells(ws[h])
    BY <2>2, <2>3
  <2>5. ws[j].end \in Int /\ c \in Int
    <3>1. ms[i] \in SegmentType /\ ws[j] \in SegmentType
      BY <1>3, ElementOfSeq DEF AreVoices, AreWithin, m, n
    <3>2. QED
      BY <2>1, <3>1, SegmentFacts
  <2>6. c \in ws[j].end..ws[j].end + Gap - 1
    BY <2>4, <2>5, WindowAssumption
  <2>7. c \in Behind(ws, l)
    BY <1>3, <2>1, <2>2, <2>6 DEF Behind
  <2>8. QED
    BY <1>3, <2>4, <2>7 DEF Covered
<1>10. QED
  BY <1>3, <1>4, <1>7, <1>8, <1>9 DEF ms

-----------------------------------------------------------------------------
(* The owners of words, utterances and stretches.                             *)

\* The first of those that have the most.
IsFirstMost(i, S, f) == i \in S /\ \A j \in S : f[i] > f[j] \/ (f[i] = f[j] /\ i <= j)
\* Of finitely many some are first to have the most.
LEMMA FirstMost ==
  ASSUME NEW n \in Nat, NEW S \in SUBSET (1..n), S # {}, NEW f, \A i \in S : f[i] \in Int
  PROVE  \E i \in S : IsFirstMost(i, S, f)
<1> DEFINE U(k) == {i \in S : i <= k}
           D == {k \in 0..n : U(k) = {} \/ \E i \in U(k) : IsFirstMost(i, U(k), f)}
<1>1. 0 \in D
  <2>1. \A i \in S : ~(i <= 0)
    OBVIOUS
  <2>2. U(0) = {}
    BY <2>1
  <2>3. QED
    BY <2>2
<1>2. ASSUME NEW k \in 1..n, k - 1 \in D PROVE k \in D
  <2>1. \A i \in U(k) : i \in S /\ i \in 1..n /\ f[i] \in Int /\ (i = k \/ i \in U(k - 1))
    OBVIOUS
  <2>2. \A i \in U(k - 1) : i \in U(k) /\ i < k
    OBVIOUS
  <2>3. CASE k \notin S
    <3>1. U(k) = U(k - 1)
      BY <2>1, <2>2, <2>3
    <3>2. U(k - 1) = {} \/ \E i \in U(k - 1) : IsFirstMost(i, U(k - 1), f)
      BY <1>2
    <3> HIDE DEF U
    <3>3. QED
      BY <3>1, <3>2
  <2>4. CASE k \in S /\ U(k - 1) = {}
    <3>1. k \in U(k) /\ \A j \in U(k) : j = k
      BY <2>1, <2>4
    <3>2. IsFirstMost(k, U(k), f)
      BY <3>1 DEF IsFirstMost
    <3>3. QED
      BY <3>1, <3>2
  <2>5. CASE k \in S /\ \E i \in U(k - 1) : IsFirstMost(i, U(k - 1), f)
    <3>1. PICK i \in U(k - 1) : IsFirstMost(i, U(k - 1), f)
      BY <2>5
    <3>2. i \in U(k) /\ k \in U(k) /\ f[i] \in Int /\ f[k] \in Int /\ i < k /\ i \in Int
      BY <2>1, <2>2, <2>5, <3>1
    <3>3. \A j \in U(k - 1) : f[j] \in Int /\ j < k /\ (f[i] > f[j] \/ (f[i] = f[j] /\ i <= j))
      BY <2>1, <2>2, <3>1 DEF IsFirstMost
    <3> HIDE DEF U
    <3>4. CASE f[k] > f[i]
      <4>1. \A j \in U(k - 1) : f[k] > f[j]
        BY <3>2, <3>3, <3>4
      <4>2. IsFirstMost(k, U(k), f)
        BY <2>1, <3>2, <4>1 DEF IsFirstMost
      <4>3. QED
        BY <3>2, <4>2
    <3>5. CASE ~(f[k] > f[i])
      <4>1. f[i] > f[k] \/ (f[i] = f[k] /\ i <= k)
        BY <3>2, <3>5
      <4>2. IsFirstMost(i, U(k), f)
        BY <2>1, <3>2, <3>3, <4>1 DEF IsFirstMost
      <4>3. QED
        BY <3>2, <4>2
    <3>6. QED
      BY <3>4, <3>5
  <2>6. QED
    BY <1>2, <2>3, <2>4, <2>5
<1>3. n \in D
  <2> HIDE DEF D
  <2>1. QED
    BY <1>1, <1>2, UpTo
<1>4. U(n) = S
  <2>1. \A i \in S : i <= n
    OBVIOUS
  <2>2. QED
    BY <2>1
<1>5. QED
  BY <1>3, <1>4

\* Overlaps are numbers.
LEMMA OverlapIs ==
  ASSUME NEW x, NEW y, x.start \in Int, x.end \in Int, y.start \in Int, y.end \in Int
  PROVE  Overlap(x, y) \in Int /\ Overlap(x, y) <= Length(x)
BY DEF Overlap, Lower, Higher, Length

\* The segment of a word: one that overlaps it most, else one at its midpoint;
\* none only where there is neither.
ForWord(i, w, xs) ==
  IF i = 0 THEN \A j \in 1..Len(xs) : ~(Overlap(w, xs[j]) > 0) /\ ~Holds(xs[j], w)
  ELSE /\ i \in 1..Len(xs) /\ (Overlap(w, xs[i]) > 0 \/ Holds(xs[i], w))
       /\ \A j \in 1..Len(xs) : Overlap(w, xs[j]) <= Higher(0, Overlap(w, xs[i]))

MostUpTo(b, w, xs, k) ==
  /\ b \in 0..k /\ (b # 0 => Overlap(w, xs[b]) > 0)
  /\ \A j \in 1..k : Overlap(w, xs[j]) <= IF b = 0 THEN 0 ELSE Overlap(w, xs[b])

\* SegmentForWord() returns the segment that overlaps a word most, or one that
\* has its midpoint, or 0 when there is neither.
LEMMA SegmentFound ==
  ASSUME NEW n \in Nat, NEW xs, DOMAIN xs = 1..n, Len(xs) = n, NEW w,
         \A i \in 1..n : Overlap(w, xs[i]) \in Int
  PROVE  ForWord(SegmentForWord(w, xs), w, xs)
<1> DEFINE Acc == 0..n
           seq == [i \in DOMAIN xs |-> i]
<1>1. DOMAIN seq = 1..n /\ 0 \in Acc /\ \A k \in 1..n : seq[k] = k
  OBVIOUS
<1>2. \A k \in 1..n : \A a \in Acc : Looked(w, xs, a, seq[k]) \in Acc
  BY <1>1 DEF Looked
<1>3. seq = [i \in DOMAIN xs |-> i]
  OBVIOUS
<1> HIDE DEF Acc, seq
<1> DEFINE q == seq
<1>16. q = Places(xs) /\ DOMAIN q = 1..n /\ \A k \in 1..n : q[k] = k
  BY <1>1, <1>3 DEF Places
<1>17. \A k \in 1..n : \A a \in Acc : Looked(w, xs, a, q[k]) \in Acc
  BY <1>2
<1> HIDE DEF q
<1>4. PICK g : LookFoldIs(g, n, Acc, q, w, xs) /\ SegmentForWord(w, xs) = Found(w, xs, g[n])
  BY <1>1, <1>16, <1>17, LookFold
<1>5. g[0] = 0 /\ \A k \in 1..n : g[k] = Looked(w, xs, g[k - 1], k)
  BY <1>4, <1>16 DEF LookFoldIs
<1> DEFINE D == {k \in 0..n : MostUpTo(g[k], w, xs, k)}
<1>6. 0 \in D
  BY <1>5 DEF MostUpTo
<1>7. ASSUME NEW k \in 1..n, k - 1 \in D PROVE k \in D
  <2> DEFINE b == g[k - 1]
             most == IF b = 0 THEN 0 ELSE Overlap(w, xs[b])
  <2>1. b \in 0..k - 1 /\ (b # 0 => Overlap(w, xs[b]) > 0)
        /\ \A j \in 1..k - 1 : Overlap(w, xs[j]) <= most
    BY <1>7 DEF MostUpTo
  <2>2. g[k] = IF Overlap(w, xs[k]) > most THEN k ELSE b
    BY <1>5 DEF Looked
  <2>3. most \in Int /\ most >= 0 /\ Overlap(w, xs[k]) \in Int
        /\ \A j \in 1..k - 1 : Overlap(w, xs[j]) \in Int
    <3>1. b # 0 => b \in 1..n
      BY <2>1
    <3>2. QED
      BY <2>1, <3>1
  <2>4. \A j \in 1..k : j = k \/ j \in 1..k - 1
    OBVIOUS
  <2> HIDE DEF b
  <2>5. CASE Overlap(w, xs[k]) > most
    <3>1. g[k] = k /\ k # 0 /\ k \in 0..k
      BY <2>2, <2>5
    <3>2. \A j \in 1..k : Overlap(w, xs[j]) <= Overlap(w, xs[k])
      BY <2>1, <2>3, <2>4, <2>5
    <3>3. QED
      BY <2>3, <2>5, <3>1, <3>2 DEF MostUpTo
  <2>6. CASE ~(Overlap(w, xs[k]) > most)
    <3>1. g[k] = b /\ b \in 0..k
      BY <2>1, <2>2, <2>6
    <3>2. \A j \in 1..k : Overlap(w, xs[j]) <= most
      BY <2>1, <2>3, <2>4, <2>6
    <3>3. QED
      BY <2>1, <3>1, <3>2 DEF MostUpTo
  <2>7. QED
    BY <2>5, <2>6
<1>8. n \in D
  <2> HIDE DEF D
  <2>1. 0..n \subseteq D
    BY <1>6, <1>7, UpTo
  <2>2. QED
    BY <2>1
<1>9. MostUpTo(g[n], w, xs, n)
  BY <1>8
<1> DEFINE b == g[n]
           held == {i \in DOMAIN xs : Holds(xs[i], w)}
           found == SegmentForWord(w, xs)
<1>10. found = IF b # 0 \/ held = {} THEN b ELSE CHOOSE i \in held : \A j \in held : i <= j
  BY <1>4 DEF Found
<1> HIDE DEF b, found
<1>11. MostUpTo(b, w, xs, n)
  BY <1>9 DEF b
<1>12. CASE b # 0
  <2>1. b \in 1..n /\ found = b /\ Overlap(w, xs[b]) > 0 /\ Overlap(w, xs[b]) \in Int
        /\ \A j \in 1..n : Overlap(w, xs[j]) <= Overlap(w, xs[b])
    BY <1>10, <1>11, <1>12 DEF MostUpTo
  <2>2. Higher(0, Overlap(w, xs[b])) = Overlap(w, xs[b])
    BY <2>1 DEF Higher
  <2>3. QED
    BY <2>1, <2>2 DEF ForWord, found
<1>13. CASE b = 0 /\ held = {}
  <2>1. found = 0 /\ \A j \in 1..n : Overlap(w, xs[j]) <= 0 /\ ~Holds(xs[j], w)
    BY <1>10, <1>11, <1>13 DEF MostUpTo
  <2>2. QED
    BY <2>1 DEF ForWord, found
<1>14. CASE b = 0 /\ held # {}
  <2>1. held \in SUBSET Nat
    OBVIOUS
  <2>2. \E i \in held : \A j \in held : i <= j
    BY <1>14, <2>1, LeastOf
  <2>3. found \in held
    BY <1>10, <1>14, <2>2
  <2>4. found \in 1..n /\ found # 0 /\ Holds(xs[found], w) /\ \A j \in 1..n : Overlap(w, xs[j]) <= 0
    BY <1>11, <1>14, <2>3 DEF MostUpTo
  <2>5. \A j \in 1..n : Overlap(w, xs[j]) <= Higher(0, Overlap(w, xs[found]))
    BY <2>4 DEF Higher
  <2>6. QED
    BY <2>4, <2>5 DEF ForWord, found
<1>15. QED
  BY <1>12, <1>13, <1>14

\* Counting votes.
LEMMA TimesIs ==
  ASSUME NEW n \in Nat, NEW who, DOMAIN who = 1..n, NEW x
  PROVE  Times(who, x) \in 0..n
<1> DEFINE S == {i \in 1..n : who[i] = x}
<1>1. S \in SUBSET (1..n) /\ Times(who, x) = Cardinality(S)
  BY DEF Times
<1> HIDE DEF S
<1>2. IsFiniteSet(1..n) /\ Cardinality(1..n) = n
  BY FS_Interval
<1>3. IsFiniteSet(S) /\ Cardinality(S) <= n
  BY <1>1, <1>2, FS_Subset
<1>4. Cardinality(S) \in Nat
  BY <1>3, FS_CardinalityType
<1>5. QED
  BY <1>1, <1>3, <1>4

\* Renaming labels can only give a speaker more words.
LEMMA TimesGrow ==
  ASSUME NEW n \in Nat, NEW who, NEW new, DOMAIN who = 1..n, DOMAIN new = 1..n, NEW x, NEW y,
         \A i \in 1..n : who[i] = x => new[i] = y
  PROVE  Times(who, x) <= Times(new, y)
<1> DEFINE S == {i \in 1..n : who[i] = x}
           T == {i \in 1..n : new[i] = y}
<1>1. S \in SUBSET T /\ T \in SUBSET (1..n) /\ Times(who, x) = Cardinality(S)
      /\ Times(new, y) = Cardinality(T)
  BY DEF Times
<1> HIDE DEF S, T
<1>2. IsFiniteSet(1..n)
  BY FS_Interval
<1>3. IsFiniteSet(T)
  BY <1>1, <1>2, FS_Subset
<1>4. QED
  BY <1>1, <1>3, FS_Subset

\* The speaker of an utterance: Unknown only when all words are; mixed, or one
\* with the threshold's share of the words.
IsVoted(v, who, n, L) ==
  /\ v.speaker \in L \cup {Unknown, Mixed} /\ v.votes \in 0..n
  /\ v.speaker = Unknown => \A i \in 1..n : who[i] = Unknown
  /\ v.speaker \in L => /\ Times(who, v.speaker) = v.votes
                        /\ Times(who, v.speaker) * Den >= Num * n

\* UtteranceSpeaker() returns a speaker with the threshold's share of the words.
LEMMA Voted ==
  ASSUME NEW L, Unknown \notin L, Mixed \notin L, Mixed # Unknown,
         NEW n \in Nat, NEW who, DOMAIN who = 1..n, Len(who) = n,
         \A i \in 1..n : who[i] \in L \cup {Unknown}
  PROVE  IsVoted(UtteranceSpeaker(who), who, n, L)
<1> DEFINE known == {i \in DOMAIN who : who[i] # Unknown}
           f == [i \in known |-> Times(who, who[i])]
           ahead(i, j) == Times(who, who[i]) > Times(who, who[j])
                          \/ (Times(who, who[i]) = Times(who, who[j]) /\ i <= j)
           first == CHOOSE i \in known : \A j \in known : ahead(i, j)
           top == who[first]
           votes == Times(who, top)
           v == UtteranceSpeaker(who)
<1>1. v = IF known = {} THEN [speaker |-> Unknown, votes |-> 0]
          ELSE [speaker |-> IF votes * Den < Num * Len(who) THEN Mixed ELSE top, votes |-> votes]
  BY DEF UtteranceSpeaker
<1>2. known \in SUBSET (1..n) /\ \A i \in 1..n : i \notin known => who[i] = Unknown
  OBVIOUS
<1>3. \A x : Times(who, x) \in 0..n
  BY TimesIs
<1>4. \A i \in known : f[i] \in Int /\ f[i] = Times(who, who[i])
  BY <1>3
<1>5. known # {} => first \in known
  <2>1. ASSUME known # {} PROVE \E i \in known : \A j \in known : ahead(i, j)
    <3> HIDE DEF known, f
    <3>1. PICK i \in known : IsFirstMost(i, known, f)
      BY <1>2, <1>4, <2>1, FirstMost
    <3>2. QED
      BY <1>4, <3>1 DEF IsFirstMost
  <2>2. QED
    BY <2>1
<1>6. known # {} => top \in L
  BY <1>2, <1>5
<1>7. votes \in 0..n /\ Den \in Nat /\ Num \in Nat
  BY <1>3, VoteAssumption
<1> HIDE DEF known, f, first, top, v
<1>8. CASE known = {}
  <2>1. v = [speaker |-> Unknown, votes |-> 0]
    BY <1>1, <1>8
  <2>2. v.speaker = Unknown /\ v.votes = 0 /\ \A i \in 1..n : who[i] = Unknown
    BY <1>2, <1>8, <2>1
  <2>3. QED
    BY <2>2 DEF IsVoted, v
<1>9. CASE known # {} /\ votes * Den < Num * n
  <2>1. v = [speaker |-> Mixed, votes |-> votes]
    BY <1>1, <1>9
  <2>2. v.speaker = Mixed /\ v.votes = votes
    BY <2>1
  <2>3. QED
    BY <1>7, <2>2 DEF IsVoted, v
<1>10. CASE known # {} /\ ~(votes * Den < Num * n)
  <2>1. v = [speaker |-> top, votes |-> votes]
    BY <1>1, <1>10
  <2>2. v.speaker = top /\ v.votes = votes /\ top \in L
    BY <1>6, <1>10, <2>1
  <2>3. votes * Den \in Int /\ Num * n \in Int
    BY <1>7
  <2>4. votes * Den >= Num * n
    BY <1>10, <2>3
  <2>5. QED
    BY <1>7, <2>2, <2>4 DEF IsVoted, v
<1>11. QED
  BY <1>8, <1>9, <1>10

\* Who has how much of a stretch.
OwnedType == [start : Int, end : Int, owner : Speakers \cup {NoOne}]
\* A share is a natural number, and above 0 when some span of the owner's overlaps.
LEMMA ShareIs ==
  ASSUME NEW n \in Nat, NEW spns, DOMAIN spns = 1..n, NEW x, NEW id,
         \A j \in 1..n : Overlap(x, spns[j]) \in Int
  PROVE  /\ Share(x, spns, id) \in Nat
         /\ (\A j \in 1..n : spns[j].owner = id => ~(Overlap(x, spns[j]) > 0)) => Share(x, spns, id) = 0
<1> DEFINE add(k) == Part(x, spns[k], id)
           none == \A j \in 1..n : spns[j].owner = id => ~(Overlap(x, spns[j]) > 0)
<1>1. \A k \in 1..n : add(k) \in Nat /\ (none => add(k) = 0)
  BY DEF Higher, Part
<1>2. 0 \in Nat /\ \A k \in 1..n : \A a \in Nat : a + Part(x, spns[k], id) \in Nat
  BY <1>1
<1> DEFINE Acc == Nat
<1>8. 0 \in Acc /\ \A k \in 1..n : \A a \in Acc : a + Part(x, spns[k], id) \in Acc
  BY <1>2
<1>9. Acc = Nat
  OBVIOUS
<1> HIDE DEF Acc
<1>3. PICK g : ShareFoldIs(g, n, Acc, spns, x, id) /\ g[n] = Share(x, spns, id)
  BY <1>8, ShareFold
<1>4. g \in [0..n -> Nat] /\ g[0] = 0 /\ \A k \in 1..n : g[k] = g[k - 1] + add(k)
  BY <1>3, <1>9 DEF ShareFoldIs
<1>5. g[n] \in Nat
  BY <1>4
<1>6. ASSUME none PROVE g[n] = 0
  <2> DEFINE D == {k \in 0..n : g[k] = 0}
  <2>1. 0 \in D
    BY <1>4
  <2>2. ASSUME NEW k \in 1..n, k - 1 \in D PROVE k \in D
    <3>1. g[k] = g[k - 1] + add(k) /\ g[k - 1] = 0 /\ add(k) = 0
      BY <1>1, <1>4, <1>6, <2>2
    <3> HIDE DEF add
    <3>2. QED
      BY <3>1
  <2>3. 0..n \subseteq D
    <3> HIDE DEF D
    <3>1. QED
      BY <2>1, <2>2, UpTo
  <2>4. QED
    BY <2>3
<1>7. QED
  BY <1>3, <1>5, <1>6

\* The owner of a stretch: somebody who speaks in it if anybody does, and nobody
\* for longer.
IsOwner(o, x, spns) ==
  /\ o = NoOne => \A j \in 1..Len(spns) : spns[j].owner # NoOne => ~(Overlap(x, spns[j]) > 0)
  /\ o # NoOne =>
       /\ \E j \in 1..Len(spns) : spns[j].owner = o /\ Overlap(x, spns[j]) > 0
       /\ \A id \in Speakers : Share(x, spns, id) <= Share(x, spns, o)

\* MajorityOwner() returns the owner with the greatest share, or NoOne when no
\* span with an owner overlaps.
LEMMA OwnerFound ==
  ASSUME NEW spns \in Seq(OwnedType), NEW x, x.start \in Int, x.end \in Int
  PROVE  IsOwner(MajorityOwner(x, spns), x, spns)
<1> DEFINE n == Len(spns)
           met == {i \in DOMAIN spns : spns[i].owner # NoOne /\ Overlap(x, spns[i]) > 0}
           share(i) == Share(x, spns, spns[i].owner)
           f == [i \in met |-> share(i)]
           ahead(i, j) == share(i) > share(j) \/ (share(i) = share(j) /\ i <= j)
           first == CHOOSE i \in met : \A j \in met : ahead(i, j)
           o == MajorityOwner(x, spns)
<1>1. o = IF met = {} \/ Length(x) <= 0 THEN NoOne ELSE spns[first].owner
  BY DEF MajorityOwner
<1>2. n \in Nat /\ DOMAIN spns = 1..n
      /\ \A i \in 1..n : /\ spns[i].start \in Int /\ spns[i].end \in Int
                         /\ spns[i].owner \in Speakers \cup {NoOne}
  <2>1. n \in Nat /\ DOMAIN spns = 1..n /\ \A i \in 1..n : spns[i] \in OwnedType
    BY LenProperties, ElementOfSeq
  <2>2. QED
    BY <2>1 DEF OwnedType
<1>3. \A i \in 1..n : Overlap(x, spns[i]) \in Int /\ Overlap(x, spns[i]) <= Length(x)
  BY <1>2, OverlapIs
<1>4. \A id : /\ Share(x, spns, id) \in Nat
              /\ (\A j \in 1..n : spns[j].owner = id => ~(Overlap(x, spns[j]) > 0))
                   => Share(x, spns, id) = 0
  BY <1>2, <1>3, ShareIs
<1>5. /\ met \in SUBSET (1..n) /\ \A i \in met : f[i] \in Int /\ f[i] = share(i)
      /\ \A i \in 1..n : i \in met <=> spns[i].owner # NoOne /\ Overlap(x, spns[i]) > 0
  BY <1>2, <1>4
<1>6. Length(x) \in Int
  BY DEF Length
<1>7. met # {} => ~(Length(x) <= 0)
  BY <1>3, <1>5, <1>6
<1>8. met # {} => first \in met /\ \A j \in met : share(j) <= share(first)
  <2>1. ASSUME met # {} PROVE \E i \in met : \A j \in met : ahead(i, j)
    <3> HIDE DEF met, f
    <3>1. PICK i \in met : IsFirstMost(i, met, f)
      BY <1>2, <1>5, <2>1, FirstMost
    <3>2. QED
      BY <1>5, <3>1 DEF IsFirstMost
  <2>2. met # {} => first \in met /\ \A j \in met : ahead(first, j)
    BY <2>1
  <2> HIDE DEF first, met
  <2>3. \A j : share(j) \in Nat
    BY <1>4
  <2>4. QED
    BY <2>2, <2>3
<1> HIDE DEF met, first, o, n, f
<1>9. CASE met = {}
  <2>1. o = NoOne
    BY <1>1, <1>9
  <2>2. \A j \in 1..n : spns[j].owner # NoOne => ~(Overlap(x, spns[j]) > 0)
    BY <1>5, <1>9
  <2>3. QED
    BY <2>1, <2>2 DEF IsOwner, o, n
<1>10. CASE met # {}
  <2>1. o = spns[first].owner /\ first \in 1..n /\ o # NoOne /\ Overlap(x, spns[first]) > 0
    BY <1>1, <1>5, <1>7, <1>8, <1>10
  <2>2. ASSUME NEW id \in Speakers PROVE Share(x, spns, id) <= Share(x, spns, o)
    <3>1. CASE \E j \in met : spns[j].owner = id
      BY <1>8, <1>10, <2>1, <3>1
    <3>2. CASE \A j \in met : spns[j].owner # id
      <4>1. \A j \in 1..n : spns[j].owner = id => ~(Overlap(x, spns[j]) > 0)
        BY <1>5, <3>2, NamesAssumption
      <4>2. Share(x, spns, id) = 0 /\ Share(x, spns, o) \in Nat
        BY <1>4, <4>1
      <4>3. QED
        BY <4>2
    <3>3. QED
      BY <3>1, <3>2
  <2>3. QED
    BY <2>1, <2>2 DEF IsOwner, o, n
<1>11. QED
  BY <1>9, <1>10

-----------------------------------------------------------------------------
(* The run.                                                                   *)

ResultType == [start : Int, end : Int, label : Labels, emb : BOOLEAN]
IsTimed(xs) ==
  \A i \in 1..Len(xs) : 0 <= xs[i].start /\ xs[i].start <= xs[i].end /\ xs[i].end <= Duration

\* What holds of a word's speaker, and of an utterance.
WordOwned(who, w, xs) ==
  IF who = Unknown THEN \A j \in 1..Len(xs) : ~(Overlap(w, xs[j]) > 0) /\ ~Holds(xs[j], w)
  ELSE \E i \in 1..Len(xs) :
         /\ xs[i].label = who /\ (Overlap(w, xs[i]) > 0 \/ Holds(xs[i], w))
         /\ \A j \in 1..Len(xs) : Overlap(w, xs[j]) <= Higher(0, Overlap(w, xs[i]))
AlignedType(L) == [words : Seq(L \cup {Unknown}), speaker : L \cup {Unknown, Mixed}, votes : Nat]
IsAligned(a, words, xs, L) ==
  /\ a \in AlignedType(L) /\ Len(a.words) = Len(words) /\ a.votes <= Len(a.words)
  /\ \A n \in 1..Len(words) : WordOwned(a.words[n], words[n], xs)
  /\ a.speaker = Unknown => \A n \in 1..Len(words) : a.words[n] = Unknown
  /\ a.speaker \in L => /\ Times(a.words, a.speaker) >= a.votes
                        /\ Times(a.words, a.speaker) * Den >= Num * Len(words)
AllAligned(L) ==
  /\ DOMAIN aligned \subseteq DOMAIN transcript
  /\ \A u \in DOMAIN aligned : IsAligned(aligned[u], transcript[u], segs, L)

\* The stages before the registry has renamed the labels, and those of the
\* secondary.
Before == {"filter", "stt", "convert", "diarize", "align", "resolve"}
Secondary == {"convert second", "diarize second", "enroll"}

TypeInv ==
  /\ stage \in Stages /\ backend \in Backends /\ speakers \subseteq Speakers
  /\ dual \in {"none", "skipped", "enrolled", "failed"} /\ (dual # "none" => stage = "done")
  /\ transcript \in Seq(Seq(SpanType))
  /\ windows \in Seq(SegmentType) /\ second \in Seq(SegmentType) /\ segs \in Seq(ResultType)
  /\ IsTimed(windows) /\ IsTimed(second) /\ IsTimed(segs)
  /\ stage \in Before => segs \in Seq(SegmentType)
  /\ temp \in {0, 1} /\ spoilt \in Nat /\ stuck \in Nat

\* SpeechBrain's turn has been, which writes a temporary file at most: as the
\* primary, or as pyannote's secondary.
Turned ==
  IF backend = "speechbrain" THEN stage \notin {"filter", "stt", "convert"}
  ELSE stage \in {"diarize second", "enroll", "done"}
TempInv ==
  /\ temp # 0 => stage \in {"diarize", "diarize second"}
  /\ spoilt # 0 => stage = "raised" \/ dual = "failed"
  /\ temp # 0 => spoilt = 0 /\ stuck = 0
  /\ stuck # 0 => spoilt = 0 /\ stuck = 1
  /\ spoilt # 0 => spoilt = 1 /\ stuck = 0
  /\ ~Turned => temp = 0 /\ spoilt = 0 /\ stuck = 0

IdsInv ==
  /\ DOMAIN ids \subseteq Locals /\ \A l \in DOMAIN ids : ids[l] \in Speakers \cup {NoOne}

AlignInv ==
  /\ stage \in Before \ {"resolve"} => aligned = <<>>
  /\ AllAligned(IF stage \in Before THEN Locals ELSE Labels)

SpansInv ==
  /\ spans \in Seq(OwnedType)
  /\ stage \in Before => spans = <<>>
  /\ \A j \in 1..Len(spans) : spans[j].owner \in {ids[l] : l \in DOMAIN ids} \cup {NoOne}
  /\ stage \in Secondary \/ dual \in {"skipped", "enrolled"} =>
       /\ Len(spans) = Len(segs)
       /\ \A j \in 1..Len(segs) :
            /\ spans[j].start = segs[j].start /\ spans[j].end = segs[j].end
            /\ segs[j].label \in Speakers <=> spans[j].owner # NoOne

PrintsInv ==
  /\ stage \in Before \cup {"convert second", "diarize second"} => second = <<>>
  /\ prints \in Seq(Bucket(second)) /\ bucket \cup ToSet(prints) = Bucket(second)
  /\ bucket \cap ToSet(prints) = {}
  /\ \A j, k \in 1..Len(prints) : prints[j] = prints[k] => j = k
  /\ dual \in {"skipped", "enrolled"} => bucket = {}

RunInv == TypeInv /\ TempInv /\ IdsInv /\ AlignInv /\ SpansInv /\ PrintsInv /\ SegmentsFaithful

\* A diarization.
IsDiarized(d) ==
  /\ d.windows \in Seq(SegmentType) /\ d.segs \in Seq(SegmentType)
  /\ IsTimed(d.windows) /\ IsTimed(d.segs)
  /\ d.windows # <<>> => AreVoices(d.windows) /\ d.segs = MergeAdjacent(d.windows)

\* Segments within the audio have a start before their end.
LEMMA WithinTimed ==
  ASSUME NEW xs, AreWithin(xs)
  PROVE  xs \in Seq(SegmentType) /\ IsTimed(xs)
<1>1. xs \in Seq(SegmentType) /\ Len(xs) \in Nat
      /\ \A i \in 1..Len(xs) : /\ xs[i] \in SegmentType /\ 0 <= xs[i].start
                               /\ xs[i].start < xs[i].end /\ xs[i].end <= Duration
  BY LenProperties, ElementOfSeq DEF AreWithin
<1>2. \A i \in 1..Len(xs) : xs[i].start \in Int /\ xs[i].end \in Int
  BY <1>1 DEF SegmentType
<1>3. QED
  BY <1>1, <1>2 DEF IsTimed

\* What either backend returns.
LEMMA Diarized ==
  ASSUME NEW d \in Diarizations
  PROVE  IsDiarized(d)
<1>1. CASE IsTurn("speechbrain")
  <2>1. PICK ws \in SpeechBrainWindows : d = [windows |-> ws, segs |-> MergeAdjacent(ws)]
    BY <1>1 DEF Diarizations
  <2>2. PICK cells \in SUBSET (0..Duration - 1) :
             \E cluster \in [ToSet(Windows(Voiced(cells))) -> Clusters] :
               ws = Labelled(Windows(Voiced(cells)), cluster)
    BY <2>1 DEF SpeechBrainWindows
  <2> DEFINE vs == Windows(Voiced(cells))
  <2>3. PICK cluster \in [ToSet(vs) -> Clusters] : ws = Labelled(vs, cluster)
    BY <2>2
  <2>4. Duration \in Int
    BY AudioAssumption
  <2>5. AreGliding(vs, 0, Duration)
    <3>1. AreTidy(Voiced(cells), 0, Duration) /\ Voiced(cells) # <<>>
      BY VoicedTidy
    <3>2. QED
      BY <2>4, <3>1, WindowsGlide
  <2> HIDE DEF vs
  <2>6. AreVoices(ws)
    BY <2>3, <2>5, LabelledVoices
  <2>7. AreWithin(ws) /\ AreWithin(MergeAdjacent(ws))
    BY <2>6, MergeIsFaithful DEF AreVoices
  <2>8. /\ ws \in Seq(SegmentType) /\ IsTimed(ws)
        /\ MergeAdjacent(ws) \in Seq(SegmentType) /\ IsTimed(MergeAdjacent(ws))
    BY <2>7, WithinTimed
  <2>9. d.windows = ws /\ d.segs = MergeAdjacent(ws)
    BY <2>1
  <2>10. QED
    BY <2>6, <2>8, <2>9 DEF IsDiarized
<1>2. CASE ~IsTurn("speechbrain")
  <2>1. PICK r \in PyannoteResults : d = [windows |-> <<>>, segs |-> r]
    BY <1>2 DEF Diarizations
  <2>2. d.windows = <<>> /\ d.segs = r
    BY <2>1
  <2> DEFINE T == [start : Int, end : Int, label : STRING, emb : BOOLEAN]
             n == Len(r)
  <2>3. r \in Seq(T) /\ \A i \in DOMAIN r : IsSegment(r[i], Locals)
    BY AnswersAssumption DEF Locals
  <2>4. n \in Nat /\ DOMAIN r = 1..n /\ \A i \in 1..n : r[i] \in T
    <3> HIDE DEF T
    <3>1. QED
      BY <2>3, LenProperties, ElementOfSeq
  <2>5. Duration \in Int
    BY AudioAssumption
  <2>6. ASSUME NEW i \in 1..n
        PROVE  /\ r[i] \in SegmentType /\ 0 <= r[i].start /\ r[i].start <= r[i].end
               /\ r[i].end <= Duration
    <3>1. IsSegment(r[i], Locals) /\ r[i] \in T
      BY <2>3, <2>4
    <3>2. QED
      BY <2>5, <3>1 DEF IsSegment, SegmentType
  <2>7. r \in Seq(SegmentType)
    <3>1. r = [i \in 1..n |-> r[i]]
      BY <2>3, <2>4, SeqDef
    <3>2. QED
      BY <2>4, <2>6, <3>1, SeqDef
  <2>8. IsTimed(r)
    BY <2>6 DEF IsTimed
  <2>9. <<>> \in Seq(SegmentType) /\ IsTimed(<<>>)
    BY EmptySeq DEF IsTimed
  <2>10. QED
    BY <2>2, <2>7, <2>8, <2>9 DEF IsDiarized
<1>3. QED
  BY <1>1, <1>2

\* The local labels are labels, and none of them is a speaker's id, Unknown or Mixed.
LEMMA LocalsAreLabels ==
  /\ Locals \subseteq Labels /\ Speakers \subseteq Labels
  /\ Unknown \notin Labels /\ Mixed \notin Labels /\ NoOne \notin Labels
  /\ Unknown # Mixed /\ Locals \cap Speakers = {} /\ NoOne \notin Speakers
<1>1. Locals \subseteq Labels /\ Speakers \subseteq Labels
  BY DEF Locals, Labels
<1>2. Unknown \notin Labels /\ Mixed \notin Labels /\ NoOne \notin Labels
      /\ Locals \cap Speakers = {} /\ NoOne \notin Speakers
  BY NamesAssumption DEF Locals, Labels
<1>3. Unknown # Mixed
  <2>1. ASSUME Unknown = Mixed PROVE FALSE
    <3>1. {Unknown, Mixed, NoOne} = {Mixed, NoOne}
      BY <2>1
    <3>2. Cardinality({Mixed, NoOne}) <= 2
      <4>1. IsFiniteSet({NoOne}) /\ Cardinality({NoOne}) = 1
        BY FS_Singleton
      <4>2. {Mixed, NoOne} = {NoOne} \cup {Mixed}
        OBVIOUS
      <4>3. Cardinality({NoOne} \cup {Mixed}) = IF Mixed \in {NoOne} THEN 1 ELSE 2
        BY <4>1, FS_AddElement
      <4>4. QED
        BY <4>2, <4>3
    <3>3. Cardinality({Unknown, Mixed, NoOne}) = 3
      BY NamesAssumption
    <3> DEFINE three == Cardinality({Unknown, Mixed, NoOne})
               two == Cardinality({Mixed, NoOne})
    <3>4. three = 3 /\ three = two /\ two <= 2
      BY <3>1, <3>2, <3>3
    <3> HIDE DEF three, two
    <3>5. QED
      BY <3>4
  <2>2. QED
    BY <2>1
<1>4. QED
  BY <1>1, <1>2, <1>3

\* A segment with a local label has a label.
LEMMA LocalSegments == Seq(SegmentType) \subseteq Seq(ResultType)
<1>1. SegmentType \subseteq ResultType
  BY LocalsAreLabels DEF SegmentType, ResultType
<1>2. QED
  BY <1>1, SeqMonotonic

\* A result's parts.
LEMMA ResultFacts ==
  ASSUME NEW xs \in Seq(ResultType)
  PROVE  /\ Len(xs) \in Nat /\ DOMAIN xs = 1..Len(xs)
         /\ \A i \in 1..Len(xs) : /\ xs[i] \in ResultType /\ xs[i].start \in Int /\ xs[i].end \in Int
                                  /\ xs[i].label \in Labels
<1>1. Len(xs) \in Nat /\ DOMAIN xs = 1..Len(xs) /\ \A i \in 1..Len(xs) : xs[i] \in ResultType
  BY LenProperties, ElementOfSeq
<1>2. QED
  BY <1>1 DEF ResultType

\* What align() says of an utterance.
WhoSpeaks(w, xs) == LET i == SegmentForWord(w, xs) IN IF i = 0 THEN Unknown ELSE xs[i].label
\* The speaker align() gives a word is one whose segment it is.
LEMMA WordIsOwned ==
  ASSUME NEW xs \in Seq(SegmentType), NEW w \in SpanType
  PROVE  /\ WhoSpeaks(w, ByStart(xs)) \in Locals \cup {Unknown}
         /\ WordOwned(WhoSpeaks(w, ByStart(xs)), w, xs)
<1> DEFINE n == Len(xs)
           key == [i \in 1..n |-> xs[i].start]
           ys == ByStart(xs)
           i == SegmentForWord(w, ys)
           who == WhoSpeaks(w, ys)
<1>1. \A x \in SegmentType : x.start \in Int /\ x.end \in Int /\ x.label \in Locals
  BY DEF SegmentType
<1>2. ys \in Seq(SegmentType) /\ Len(ys) = n /\ \E at : IsSort(at, n, key, xs)
  BY <1>1, ByStartSorts
<1>3. PICK at : IsSort(at, n, key, xs)
  BY <1>2
<1>4. n \in Nat /\ DOMAIN xs = 1..n /\ DOMAIN ys = 1..n
      /\ \A j \in 1..n : xs[j] \in SegmentType /\ ys[j] \in SegmentType
  BY <1>2, LenProperties, ElementOfSeq
<1>5. /\ \A j \in 1..n : \E k \in 1..n : ys[k] = xs[j]
      /\ \A k \in 1..n : \E j \in 1..n : ys[k] = xs[j]
  <2>1. ys = SortedBy(key, xs)
    BY <1>4 DEF ByStart
  <2> HIDE DEF ys, key
  <2>2. ys = [k \in 1..n |-> xs[at[k]]] /\ at \in [1..n -> 1..n] /\ \A j \in 1..n : \E k \in 1..n : at[k] = j
    BY <1>3, <2>1 DEF IsSort
  <2>3. QED
    BY <2>2
<1>6. w.start \in Int /\ w.end \in Int
  BY DEF SpanType
<1>7. \A j \in 1..n : Overlap(w, ys[j]) \in Int
  BY <1>1, <1>4, <1>6, OverlapIs
<1>8. ForWord(i, w, ys)
  <2> HIDE DEF ys, n
  <2>1. QED
    BY <1>2, <1>4, <1>7, SegmentFound
<1>9. who = IF i = 0 THEN Unknown ELSE ys[i].label
  BY DEF WhoSpeaks
<1>10. Unknown \notin Locals
  BY LocalsAreLabels
<1> HIDE DEF ys, i, who, n
<1>11. CASE i = 0
  <2>1. who = Unknown /\ \A k \in 1..n : ~(Overlap(w, ys[k]) > 0) /\ ~Holds(ys[k], w)
    BY <1>2, <1>8, <1>9, <1>11 DEF ForWord
  <2>2. \A j \in 1..n : ~(Overlap(w, xs[j]) > 0) /\ ~Holds(xs[j], w)
    BY <1>5, <2>1
  <2>3. QED
    BY <2>1, <2>2 DEF WordOwned, n, who, ys
<1>12. CASE i # 0
  <2>1. /\ i \in 1..n /\ (Overlap(w, ys[i]) > 0 \/ Holds(ys[i], w))
        /\ \A k \in 1..n : Overlap(w, ys[k]) <= Higher(0, Overlap(w, ys[i]))
    BY <1>2, <1>8, <1>12 DEF ForWord
  <2>2. who = ys[i].label /\ who \in Locals /\ who # Unknown
    BY <1>1, <1>4, <1>9, <1>10, <1>12, <2>1
  <2>3. PICK j \in 1..n : ys[i] = xs[j]
    BY <1>5, <2>1
  <2>4. \A k \in 1..n : Overlap(w, xs[k]) <= Higher(0, Overlap(w, xs[j]))
    BY <1>5, <2>1, <2>3
  <2>5. xs[j].label = who /\ (Overlap(w, xs[j]) > 0 \/ Holds(xs[j], w))
    BY <2>1, <2>2, <2>3
  <2>6. WordOwned(who, w, xs)
    BY <2>2, <2>4, <2>5 DEF WordOwned, n
  <2>7. QED
    BY <2>2, <2>6 DEF who, ys
<1>13. QED
  BY <1>11, <1>12

SaidBy(words, xs) == [i \in DOMAIN words |-> WhoSpeaks(words[i], ByStart(xs))]
Utterance(words, xs) ==
  LET v == UtteranceSpeaker(SaidBy(words, xs)) IN
  [words |-> SaidBy(words, xs), speaker |-> v.speaker, votes |-> v.votes]
\* And an utterance's has the words it takes.
LEMMA UtteranceIsAligned ==
  ASSUME NEW xs \in Seq(SegmentType), NEW words \in Seq(SpanType)
  PROVE  IsAligned(Utterance(words, xs), words, xs, Locals)
<1> DEFINE n == Len(words)
           who == SaidBy(words, xs)
           v == UtteranceSpeaker(who)
           a == Utterance(words, xs)
<1>1. n \in Nat /\ DOMAIN words = 1..n /\ \A i \in 1..n : words[i] \in SpanType
  BY LenProperties, ElementOfSeq
<1>2. who = [i \in 1..n |-> WhoSpeaks(words[i], ByStart(xs))]
  BY <1>1 DEF SaidBy
<1> HIDE DEF who, n
<1>3. \A i \in 1..n : who[i] \in Locals \cup {Unknown} /\ WordOwned(who[i], words[i], xs)
  BY <1>1, <1>2, WordIsOwned
<1>4. who \in Seq(Locals \cup {Unknown}) /\ Len(who) = n /\ DOMAIN who = 1..n
  <2>1. who = [i \in 1..n |-> who[i]]
    BY <1>2
  <2>2. QED
    BY <1>1, <1>3, <2>1, SeqDef
<1>5. Unknown \notin Locals /\ Mixed \notin Locals /\ Mixed # Unknown
  BY LocalsAreLabels
<1>6. IsVoted(v, who, n, Locals)
  BY <1>1, <1>3, <1>4, <1>5, Voted
<1>7. a = [words |-> who, speaker |-> v.speaker, votes |-> v.votes]
  BY DEF Utterance, who
<1> HIDE DEF v
<1>8. a.words = who /\ a.speaker = v.speaker /\ a.votes = v.votes
  BY <1>7
<1>9. a \in AlignedType(Locals)
  <2>1. v.speaker \in Locals \cup {Unknown, Mixed} /\ v.votes \in Nat
    BY <1>1, <1>6 DEF IsVoted
  <2>2. QED
    BY <1>4, <1>7, <2>1 DEF AlignedType
<1> HIDE DEF a
<1>10. a.votes <= n /\ (a.speaker = Unknown => \A i \in 1..n : who[i] = Unknown)
       /\ (a.speaker \in Locals => /\ Times(who, a.speaker) >= a.votes
                                   /\ Times(who, a.speaker) * Den >= Num * n)
  <2>1. v.votes \in 0..n
    BY <1>6 DEF IsVoted
  <2>2. v.speaker \in Locals => /\ Times(who, v.speaker) = v.votes
                                /\ Times(who, v.speaker) * Den >= Num * n
    BY <1>6 DEF IsVoted
  <2>3. v.speaker = Unknown => \A i \in 1..n : who[i] = Unknown
    BY <1>6 DEF IsVoted
  <2>4. QED
    BY <1>1, <1>8, <2>1, <2>2, <2>3
<1>11. QED
  BY <1>3, <1>4, <1>8, <1>9, <1>10 DEF IsAligned, a, n

\* What is aligned with local labels is aligned with labels.
LEMMA Widened ==
  ASSUME NEW a, NEW words, NEW xs, IsAligned(a, words, xs, Locals)
  PROVE  IsAligned(a, words, xs, Labels)
<1>1. a \in AlignedType(Locals)
  BY DEF IsAligned
<1>2. Locals \cup {Unknown} \subseteq Labels \cup {Unknown} /\ Unknown \notin Labels /\ Mixed \notin Labels
  BY LocalsAreLabels
<1>3. a.words \in Seq(Labels \cup {Unknown})
  BY <1>1, <1>2, SeqMonotonic DEF AlignedType
<1>4. a \in AlignedType(Labels) /\ (a.speaker \in Labels => a.speaker \in Locals)
  BY <1>1, <1>2, <1>3 DEF AlignedType
<1>5. QED
  BY <1>4 DEF IsAligned

\* Names: a label keeps its segments and its words together.
LEMMA NamedIs ==
  ASSUME IdsInv
  PROVE  /\ \A l \in Locals : Named(l) \in Labels
         /\ Named(Unknown) = Unknown /\ Named(Mixed) = Mixed
         /\ \A l \in Locals : Named(l) \in Speakers <=> Owner(l) # NoOne
         /\ \A l \in Locals : Owner(l) \in {ids[k] : k \in DOMAIN ids} \cup {NoOne}
         /\ \A l \in Locals : Owner(l) \in Speakers \cup {NoOne}
<1>1. /\ Unknown \notin DOMAIN ids /\ Mixed \notin DOMAIN ids
      /\ \A l \in DOMAIN ids : ids[l] \in Speakers \cup {NoOne}
  BY LocalsAreLabels DEF IdsInv
<1>2. Owner(Unknown) = NoOne /\ Owner(Mixed) = NoOne
  BY <1>1 DEF Owner
<1>3. \A l \in Locals : Owner(l) \in Speakers \cup {NoOne}
                        /\ Owner(l) \in {ids[k] : k \in DOMAIN ids} \cup {NoOne}
  BY <1>1 DEF Owner
<1>4. \A l \in Locals : Named(l) = IF Owner(l) = NoOne THEN l ELSE Owner(l)
  BY DEF Named
<1>5. \A l \in Locals : Named(l) \in Speakers <=> Owner(l) # NoOne
  BY <1>3, <1>4, LocalsAreLabels
<1>6. \A l \in Locals : Named(l) \in Labels
  BY <1>3, <1>4, LocalsAreLabels
<1>7. QED
  BY <1>2, <1>3, <1>5, <1>6 DEF Named

Renamed(xs) == [i \in DOMAIN xs |-> [xs[i] EXCEPT !.label = Named(@)]]
\* The segments after Apply.
LEMMA RenamedIs ==
  ASSUME IdsInv, NEW xs \in Seq(SegmentType)
  PROVE  /\ Renamed(xs) \in Seq(ResultType) /\ Len(Renamed(xs)) = Len(xs)
         /\ \A i \in 1..Len(xs) :
              /\ Renamed(xs)[i].start = xs[i].start /\ Renamed(xs)[i].end = xs[i].end
              /\ Renamed(xs)[i].label = Named(xs[i].label)
<1> DEFINE n == Len(xs)
           ys == Renamed(xs)
<1>1. n \in Nat /\ DOMAIN xs = 1..n /\ \A i \in 1..n : xs[i] \in SegmentType
  BY LenProperties, ElementOfSeq
<1>2. ys = [i \in 1..n |-> [xs[i] EXCEPT !.label = Named(@)]]
  BY <1>1 DEF Renamed
<1> HIDE DEF ys
<1>3. ASSUME NEW i \in 1..n
      PROVE  /\ ys[i] \in ResultType /\ ys[i].start = xs[i].start /\ ys[i].end = xs[i].end
             /\ ys[i].label = Named(xs[i].label)
  <2> DEFINE m == Named(xs[i].label)
  <2>1. m \in Labels
    BY <1>1, NamedIs DEF SegmentType
  <2>2. ys[i] = [xs[i] EXCEPT !.label = m]
    BY <1>2
  <2> HIDE DEF m
  <2>3. xs[i] \in SegmentType
    BY <1>1
  <2>4. ys[i] \in ResultType /\ ys[i].start = xs[i].start /\ ys[i].end = xs[i].end /\ ys[i].label = m
    BY <2>1, <2>2, <2>3 DEF SegmentType, ResultType
  <2>5. QED
    BY <2>4 DEF m
<1>4. ys \in Seq(ResultType) /\ Len(ys) = n
  <2>1. ys = [i \in 1..n |-> ys[i]]
    BY <1>2
  <2>2. QED
    BY <1>1, <1>3, <2>1, SeqDef
<1>5. QED
  BY <1>3, <1>4 DEF ys

\* Renaming segments, words and utterances by one map keeps them aligned.
LEMMA RenamedAligned ==
  ASSUME IdsInv, NEW xs \in Seq(SegmentType), NEW words, NEW a, IsAligned(a, words, xs, Locals)
  PROVE  IsAligned(Relabelled(a), words, Renamed(xs), Labels)
<1> DEFINE ys == Renamed(xs)
           n == Len(words)
           m == Len(xs)
           b == Relabelled(a)
<1>1. /\ a \in AlignedType(Locals) /\ Len(a.words) = n /\ a.votes <= n
      /\ \A i \in 1..n : WordOwned(a.words[i], words[i], xs)
      /\ a.speaker = Unknown => \A i \in 1..n : a.words[i] = Unknown
      /\ a.speaker \in Locals => /\ Times(a.words, a.speaker) >= a.votes
                                 /\ Times(a.words, a.speaker) * Den >= Num * n
  BY DEF IsAligned
<1>2. /\ a.words \in Seq(Locals \cup {Unknown}) /\ a.speaker \in Locals \cup {Unknown, Mixed}
      /\ a.votes \in Nat
  BY <1>1 DEF AlignedType
<1>3. n \in Nat /\ DOMAIN a.words = 1..n /\ \A i \in 1..n : a.words[i] \in Locals \cup {Unknown}
  BY <1>1, <1>2, LenProperties, ElementOfSeq
<1>4. /\ ys \in Seq(ResultType) /\ Len(ys) = m
      /\ \A j \in 1..m : /\ ys[j].start = xs[j].start /\ ys[j].end = xs[j].end
                         /\ ys[j].label = Named(xs[j].label)
  BY RenamedIs
<1>5. b = [words |-> [i \in 1..n |-> Named(a.words[i])], speaker |-> Named(a.speaker), votes |-> a.votes]
  <2>1. b = [a EXCEPT !.speaker = Named(a.speaker), !.words = [i \in 1..n |-> Named(a.words[i])]]
    BY <1>3 DEF Relabelled
  <2>2. QED
    BY <1>1, <2>1 DEF AlignedType
<1> HIDE DEF b, ys, n, m
<1>6. /\ b.speaker = Named(a.speaker) /\ b.votes = a.votes
      /\ b.words = [i \in 1..n |-> Named(a.words[i])]
  BY <1>5
<1>7. \A i \in 1..n : b.words[i] = Named(a.words[i]) /\ b.words[i] \in Labels \cup {Unknown}
  BY <1>3, <1>6, NamedIs
<1>8. b.words \in Seq(Labels \cup {Unknown}) /\ Len(b.words) = n /\ DOMAIN b.words = 1..n
  <2>1. b.words = [i \in 1..n |-> b.words[i]] /\ DOMAIN b.words = 1..n
    BY <1>6
  <2>2. QED
    BY <1>3, <1>7, <2>1, SeqDef
<1>9. b.speaker \in Labels \cup {Unknown, Mixed}
  BY <1>2, <1>6, NamedIs
<1>10. b \in AlignedType(Labels)
  <2>1. b = [words |-> b.words, speaker |-> b.speaker, votes |-> b.votes]
    BY <1>5
  <2>2. QED
    BY <1>2, <1>6, <1>8, <1>9, <2>1 DEF AlignedType
<1>11. ASSUME NEW l \in Locals \cup {Unknown} PROVE Named(l) = Unknown <=> l = Unknown
  <2>1. l \in Locals => Named(l) \in Labels
    BY NamedIs
  <2>2. QED
    BY <2>1, NamedIs, LocalsAreLabels
<1>12. \A j \in 1..m : \A w : Overlap(w, ys[j]) = Overlap(w, xs[j]) /\ (Holds(ys[j], w) <=> Holds(xs[j], w))
  BY <1>4 DEF Overlap, Holds
<1>13. ASSUME NEW i \in 1..n PROVE WordOwned(b.words[i], words[i], ys)
  <2> DEFINE w == words[i]
             l == a.words[i]
  <2>1. WordOwned(l, w, xs) /\ l \in Locals \cup {Unknown} /\ b.words[i] = Named(l)
        /\ (Named(l) = Unknown <=> l = Unknown)
    BY <1>1, <1>3, <1>7, <1>11
  <2> HIDE DEF w, l
  <2>2. CASE l = Unknown
    <3>1. \A j \in 1..m : ~(Overlap(w, xs[j]) > 0) /\ ~Holds(xs[j], w)
      BY <2>1, <2>2 DEF WordOwned, m
    <3>2. \A j \in 1..m : ~(Overlap(w, ys[j]) > 0) /\ ~Holds(ys[j], w)
      BY <1>12, <3>1
    <3>3. WordOwned(Named(l), w, ys)
      BY <1>4, <2>1, <2>2, <3>2 DEF WordOwned
    <3>4. QED
      BY <2>1, <3>3 DEF w
  <2>3. CASE l # Unknown
    <3>1. PICK k \in 1..m :
               /\ xs[k].label = l /\ (Overlap(w, xs[k]) > 0 \/ Holds(xs[k], w))
               /\ \A j \in 1..m : Overlap(w, xs[j]) <= Higher(0, Overlap(w, xs[k]))
      BY <2>1, <2>3 DEF WordOwned, m
    <3>2. ys[k].label = Named(l) /\ (Overlap(w, ys[k]) > 0 \/ Holds(ys[k], w))
      BY <1>4, <1>12, <3>1
    <3>3. \A j \in 1..m : Overlap(w, ys[j]) <= Higher(0, Overlap(w, ys[k]))
      BY <1>12, <3>1
    <3>4. Named(l) # Unknown
      BY <2>1, <2>3
    <3>5. WordOwned(Named(l), w, ys)
      BY <1>4, <3>2, <3>3, <3>4 DEF WordOwned
    <3>6. QED
      BY <2>1, <3>5 DEF w
  <2>4. QED
    BY <2>2, <2>3
<1>14. b.speaker = Unknown => \A i \in 1..n : b.words[i] = Unknown
  <2>1. ASSUME b.speaker = Unknown PROVE a.speaker = Unknown
    BY <1>2, <1>6, <2>1, NamedIs, LocalsAreLabels
  <2>2. a.speaker = Unknown => \A i \in 1..n : b.words[i] = Unknown
    BY <1>1, <1>7, NamedIs
  <2>3. QED
    BY <2>1, <2>2
<1>15. ASSUME b.speaker \in Labels
       PROVE  Times(b.words, b.speaker) >= b.votes /\ Times(b.words, b.speaker) * Den >= Num * n
  <2>1. a.speaker \in Locals
    BY <1>2, <1>6, <1>15, NamedIs, LocalsAreLabels
  <2>2. \A i \in 1..n : a.words[i] = a.speaker => b.words[i] = b.speaker
    BY <1>6, <1>7
  <2> DEFINE s == Times(a.words, a.speaker)
             t == Times(b.words, b.speaker)
  <2>3. s <= t
    BY <1>3, <1>8, <2>2, TimesGrow
  <2>4. s \in Nat /\ t \in Nat /\ Den \in Nat /\ Num \in Nat
    <3>1. s \in 0..n /\ t \in 0..n
      BY <1>3, <1>8, TimesIs
    <3>2. QED
      BY <1>3, <3>1, VoteAssumption
  <2>5. s >= a.votes /\ s * Den >= Num * n
    BY <1>1, <2>1
  <2> HIDE DEF s, t
  <2>6. s * Den <= t * Den
    <3>1. (t - s) * Den >= 0
      BY <2>3, <2>4
    <3>2. (t - s) * Den = t * Den - s * Den /\ t * Den \in Int /\ s * Den \in Int
      BY <2>4
    <3>3. QED
      BY <3>1, <3>2
  <2>7. t * Den >= Num * n
    <3>1. t * Den \in Int /\ s * Den \in Int /\ Num * n \in Int
      BY <1>3, <2>4
    <3>2. QED
      BY <2>5, <2>6, <3>1
  <2>8. t >= b.votes
    BY <1>2, <1>6, <2>3, <2>4, <2>5
  <2>9. QED
    BY <2>7, <2>8 DEF t
<1>16. QED
  BY <1>1, <1>6, <1>8, <1>10, <1>13, <1>14, <1>15 DEF IsAligned, b, ys, n

\* The voiceprints the secondary owes: one for each speaker that is heard in its
\* segments, of the segments in which he is heard most.
LEMMA BucketIs ==
  ASSUME spans \in Seq(OwnedType), NEW xs \in Seq(SegmentType)
  PROVE  /\ \A b \in Bucket(xs) :
              /\ b.owner # NoOne /\ \E j \in 1..Len(spans) : spans[j].owner = b.owner
              /\ \A i \in b.of, id \in Speakers : Share(xs[i], spans, id) <= Share(xs[i], spans, b.owner)
         /\ \A b, c \in Bucket(xs) : b.owner = c.owner => b = c
         /\ \A i : (\E b \in Bucket(xs) : i \in b.of) <=>
              /\ i \in DOMAIN xs /\ xs[i].emb
              /\ \E j \in 1..Len(spans) : spans[j].owner # NoOne /\ Overlap(xs[i], spans[j]) > 0
<1> DEFINE n == Len(xs)
           o(i) == MajorityOwner(xs[i], spans)
           of(id) == {i \in Kept(xs) : o(i) = id}
           print(id) == [owner |-> id, of |-> of(id)]
<1>1. DOMAIN xs = 1..n /\ \A i \in 1..n : xs[i] \in SegmentType
  BY LenProperties, ElementOfSeq
<1>2. ASSUME NEW i \in 1..n PROVE IsOwner(o(i), xs[i], spans)
  <2>1. xs[i].start \in Int /\ xs[i].end \in Int
    BY <1>1 DEF SegmentType
  <2>2. QED
    BY <2>1, OwnerFound
<1>3. \A i : i \in Kept(xs) <=> i \in 1..n /\ xs[i].emb /\ o(i) # NoOne
  BY <1>1 DEF Kept
<1>4. Bucket(xs) = {print(id) : id \in {o(i) : i \in Kept(xs)}}
  BY DEF Bucket
<1> HIDE DEF o
<1>5. \A b \in Bucket(xs) : \E k \in Kept(xs) : b = print(o(k))
  BY <1>4
<1>6. \A k \in Kept(xs) : print(o(k)) \in Bucket(xs)
  BY <1>4
<1>7. ASSUME NEW b \in Bucket(xs)
      PROVE  /\ b.owner # NoOne /\ \E j \in 1..Len(spans) : spans[j].owner = b.owner
             /\ \A i \in b.of, id \in Speakers : Share(xs[i], spans, id) <= Share(xs[i], spans, b.owner)
  <2>1. PICK k \in Kept(xs) : b = print(o(k))
    BY <1>5
  <2>2. b.owner = o(k) /\ b.of = of(o(k))
    BY <2>1
  <2>3. k \in 1..n /\ o(k) # NoOne /\ IsOwner(o(k), xs[k], spans)
    BY <1>2, <1>3
  <2>4. \E j \in 1..Len(spans) : spans[j].owner = b.owner
    BY <2>2, <2>3 DEF IsOwner
  <2>5. ASSUME NEW i \in b.of, NEW id \in Speakers
        PROVE  Share(xs[i], spans, id) <= Share(xs[i], spans, b.owner)
    <3>1. i \in 1..n /\ o(i) = o(k) /\ o(i) # NoOne /\ IsOwner(o(i), xs[i], spans)
      BY <1>2, <1>3, <2>2
    <3>2. QED
      BY <2>2, <3>1 DEF IsOwner
  <2>6. QED
    BY <2>2, <2>3, <2>4, <2>5
<1>8. ASSUME NEW b \in Bucket(xs), NEW c \in Bucket(xs), b.owner = c.owner PROVE b = c
  <2>1. PICK k \in Kept(xs) : b = print(o(k))
    BY <1>5
  <2>2. PICK l \in Kept(xs) : c = print(o(l))
    BY <1>5
  <2>3. b.owner = o(k) /\ c.owner = o(l)
    BY <2>1, <2>2
  <2>4. QED
    BY <1>8, <2>1, <2>2, <2>3
<1>9. ASSUME NEW i
      PROVE  (\E b \in Bucket(xs) : i \in b.of) <=>
              /\ i \in DOMAIN xs /\ xs[i].emb
              /\ \E j \in 1..Len(spans) : spans[j].owner # NoOne /\ Overlap(xs[i], spans[j]) > 0
  <2>1. (\E b \in Bucket(xs) : i \in b.of) => i \in Kept(xs)
    <3>1. ASSUME NEW b \in Bucket(xs), i \in b.of PROVE i \in Kept(xs)
      BY <1>5, <3>1
    <3>2. QED
      BY <3>1
  <2>2. i \in Kept(xs) => \E b \in Bucket(xs) : i \in b.of
    <3>1. ASSUME i \in Kept(xs) PROVE i \in print(o(i)).of
      BY <3>1
    <3>2. QED
      BY <1>6, <3>1
  <2>3. ASSUME i \in 1..n
        PROVE  o(i) # NoOne <=>
                 \E j \in 1..Len(spans) : spans[j].owner # NoOne /\ Overlap(xs[i], spans[j]) > 0
    <3>1. IsOwner(o(i), xs[i], spans)
      BY <1>2, <2>3
    <3>2. QED
      BY <3>1 DEF IsOwner
  <2>4. QED
    BY <1>1, <1>3, <2>1, <2>2, <2>3
<1>10. QED
  BY <1>7, <1>8, <1>9

\* Nothing to enrol from no segments.
LEMMA NoBucket == Bucket(<<>>) = {}
<1>1. Kept(<<>>) = {}
  BY DEF Kept
<1>2. QED
  BY <1>1 DEF Bucket

\* Where a conversion leads.
LEMMA ConvertLeads ==
  ASSUME Convert
  PROVE  /\ \/ stage = "convert" /\ stage' = "diarize" /\ dual' = dual /\ spoilt' = spoilt
            \/ stage = "convert second" /\ stage' = "diarize second" /\ dual' = dual /\ spoilt' = spoilt
            \/ /\ stage = "convert" /\ stage' = "raised" /\ dual' = dual
               /\ spoilt' \in {spoilt, spoilt + 1} /\ temp' = temp
            \/ /\ stage = "convert second" /\ stage' = "done" /\ dual' = "failed"
               /\ spoilt' \in {spoilt, spoilt + 1} /\ temp' = temp
         /\ stage = "convert" /\ spoilt' # spoilt => backend = "speechbrain"
         /\ stage = "convert second" /\ (spoilt' # spoilt \/ (temp' # 0 /\ temp' # temp)) =>
              Other(backend) = "speechbrain"
         /\ stage = "convert" /\ temp' # 0 /\ temp' # temp => backend = "speechbrain"
         /\ temp' \in {0, 1, temp}
         /\ UNCHANGED <<early, backend, windows, segs, aligned, ids, spans, second, bucket, prints,
                        speakers, stuck>>
<1>1. stage = "convert" \/ stage = "convert second"
  BY DEF Convert
<1>2. Primary <=> stage = "convert"
  BY <1>1 DEF Primary
<1>3. UNCHANGED <<early, backend, windows, segs, aligned, ids, spans, second, bucket, prints, speakers>>
  BY DEF Convert
<1>31. stuck' = stuck
  BY DEF Convert
<1>4. CASE /\ stage' = (IF Primary THEN "diarize" ELSE "diarize second") /\ UNCHANGED <<dual, spoilt>>
           /\ temp' \in IF IsTurn("speechbrain") THEN {0, 1} ELSE {0}
  BY <1>1, <1>2, <1>3, <1>31, <1>4 DEF IsTurn
<1>5. CASE IsTurn("speechbrain") /\ spoilt' \in {spoilt, spoilt + 1} /\ Fail /\ temp' = temp
  BY <1>1, <1>2, <1>3, <1>31, <1>5 DEF Fail, IsTurn
<1>6. QED
  BY <1>4, <1>5 DEF Convert

\* What becomes of the temporary files when a diarization is over.
LEMMA Cleaned ==
  ASSUME TypeInv, CleanUp
  PROVE  /\ temp' = 0 /\ spoilt' = spoilt /\ stuck' \in Nat
         /\ stuck' # stuck => temp # 0 /\ stuck' = stuck + 1 /\ (stuck = 0 => stuck' = 1)
BY DEF CleanUp, TypeInv

\* ... which is kept when a diarization ends, well or not.
LEMMA Over ==
  ASSUME TypeInv, TempInv, CleanUp, backend' = backend,
         \/ stage = "diarize" /\ stage' \in {"align", "raised"}
         \/ stage = "diarize second" /\ stage' \in {"done", "enroll"}
  PROVE  TempInv'
<1>1. spoilt = 0 /\ spoilt' = 0 /\ temp' = 0
  BY Cleaned DEF TempInv, TypeInv
<1>2. stuck' # 0 => stuck' = 1
  <2>1. (temp # 0 => stuck = 0) /\ (stuck # 0 => stuck = 1)
    BY Zenon DEF TempInv
  <2>2. stuck' # stuck => temp # 0 /\ (stuck = 0 => stuck' = 1)
    BY Cleaned
  <2>3. QED
    BY <2>1, <2>2, Zenon
<1>3. ~Turned => stuck' = 0
  <2>1. ~Turned => temp = 0 /\ stuck = 0
    BY DEF TempInv
  <2>2. temp = 0 => stuck' = stuck
    BY Cleaned
  <2>3. QED
    BY <2>1, <2>2
<1>4. Turned => Turned'
  <2>1. CASE stage = "diarize" /\ stage' \in {"align", "raised"}
    BY <2>1, Zenon DEF Turned
  <2>2. CASE stage = "diarize second" /\ stage' \in {"done", "enroll"}
    BY <2>2, Zenon DEF Turned
  <2>3. QED
    BY <2>1, <2>2
<1>5. QED
  BY <1>1, <1>2, <1>3, <1>4 DEF TempInv

\* Each part of the invariant, step by step.
LEMMA TypeStep == RunInv /\ [RunNext]_runvars => TypeInv'
<1> SUFFICES ASSUME RunInv, [RunNext]_runvars PROVE TypeInv'
  OBVIOUS
<1> USE DEF Stages, Backends, Before, early, late, temps
<1>1. TypeInv /\ IdsInv /\ TempInv
  BY DEF RunInv
<1>2. CASE Extract
  BY <1>1, <1>2 DEF Extract, TypeInv
<1>3. CASE Recognized
  <2>1. Transcripts \subseteq Seq(Seq(SpanType))
    BY AnswersAssumption DEF SpanType
  <2>2. QED
    BY <1>1, <1>3, <2>1 DEF Recognized, TypeInv
<1>4. CASE Convert
  <2>1. /\ UNCHANGED <<early, backend, windows, segs, aligned, ids, spans, second, bucket, prints, speakers, stuck>>
        /\ temp' \in {0, 1, temp}
    BY <1>4, ConvertLeads
  <2>2. CASE stage = "convert" /\ stage' = "diarize" /\ dual' = dual /\ spoilt' = spoilt
    BY <1>1, <2>1, <2>2 DEF TypeInv
  <2>3. CASE stage = "convert second" /\ stage' = "diarize second" /\ dual' = dual /\ spoilt' = spoilt
    BY <1>1, <2>1, <2>3 DEF TypeInv
  <2>4. CASE /\ stage = "convert" /\ stage' = "raised" /\ dual' = dual
             /\ spoilt' \in {spoilt, spoilt + 1} /\ temp' = temp
    BY <1>1, <2>1, <2>4 DEF TypeInv
  <2>5. CASE /\ stage = "convert second" /\ stage' = "done" /\ dual' = "failed"
             /\ spoilt' \in {spoilt, spoilt + 1} /\ temp' = temp
    <3>1. /\ stage' \in Stages /\ stage' \notin Before /\ spoilt' \in Nat
          /\ dual' \in {"none", "skipped", "enrolled", "failed"}
      <4>1. spoilt \in Nat
        BY <1>1 DEF TypeInv
      <4>6. spoilt' = spoilt \/ spoilt' = spoilt + 1
        BY <2>5
      <4>2. spoilt' \in Nat
        BY <4>1, <4>6
      <4>3. stage' = "done" /\ dual' = "failed"
        BY <2>5
      <4>4. stage' \in Stages /\ stage' \notin Before /\ dual' \in {"none", "skipped", "enrolled", "failed"}
        BY <4>3
      <4>5. QED
        BY <4>2, <4>4
    <3>2. QED
      BY <1>1, <2>1, <2>5, <3>1 DEF TypeInv
  <2>6. QED
    BY <1>4, <2>2, <2>3, <2>4, <2>5, ConvertLeads
<1>5. CASE Diarize
  <2>1. PICK d \in Diarizations : windows' = d.windows /\ segs' = d.segs
    BY <1>5 DEF Diarize
  <2>2. IsDiarized(d)
    BY <2>1, Diarized
  <2>3. windows' \in Seq(SegmentType) /\ segs' \in Seq(SegmentType) /\ segs' \in Seq(ResultType)
        /\ IsTimed(windows') /\ IsTimed(segs')
    BY <2>1, <2>2, LocalSegments DEF IsDiarized
  <2>4. QED
    BY <1>1, <1>5, <2>3, Cleaned DEF Diarize, TypeInv
<1>6. CASE DiarizeFails
  BY <1>1, <1>6, Cleaned DEF DiarizeFails, Primary, Fail, TypeInv
<1>7. CASE Align
  BY <1>1, <1>7 DEF Align, TypeInv
<1>8. CASE Resolve
  BY <1>1, <1>8 DEF Resolve, TypeInv
<1>9. CASE Apply
  <2>1. segs \in Seq(SegmentType) /\ segs' = Renamed(segs)
    BY <1>1, <1>9 DEF Apply, Renamed, TypeInv
  <2>2. /\ segs' \in Seq(ResultType) /\ Len(segs') = Len(segs)
        /\ \A i \in 1..Len(segs) : segs'[i].start = segs[i].start /\ segs'[i].end = segs[i].end
    BY <1>1, <2>1, RenamedIs
  <2>3. IsTimed(segs')
    BY <1>1, <2>2 DEF IsTimed, TypeInv
  <2>4. QED
    BY <1>1, <1>9, <2>2, <2>3 DEF Apply, TypeInv
<1>10. CASE DiarizeSecond
  <2>1. PICK d \in Diarizations : second' = d.segs
    BY <1>10 DEF DiarizeSecond
  <2>2. second' \in Seq(SegmentType) /\ IsTimed(second')
    BY <2>1, Diarized DEF IsDiarized
  <2>3. QED
    BY <1>1, <1>10, <2>2, Cleaned DEF DiarizeSecond, TypeInv
<1>11. CASE Enroll
  BY <1>1, <1>11 DEF Enroll, Primary, Fail, TypeInv
<1>12. CASE Delete
  BY <1>1, <1>12 DEF Delete, TypeInv
<1>13. CASE UNCHANGED runvars
  BY <1>1, <1>13 DEF runvars, TypeInv
<1>14. QED
  BY <1>2, <1>3, <1>4, <1>5, <1>6, <1>7, <1>8, <1>9, <1>10, <1>11, <1>12, <1>13 DEF RunNext, Run

\* The temporary file: every way out of a diarization removes it.
LEMMA TempStep == RunInv /\ [RunNext]_runvars => TempInv'
<1> SUFFICES ASSUME RunInv, [RunNext]_runvars PROVE TempInv'
  OBVIOUS
<1> USE DEF early, late, temps, Turned, Backends, Stages
<1>1. TempInv /\ TypeInv
  BY DEF RunInv
<1>2. CASE Extract
  BY <1>1, <1>2 DEF Extract, TempInv, TypeInv
<1>3. CASE Recognized
  BY <1>1, <1>3 DEF Recognized, TempInv, TypeInv
<1>4. CASE Convert
  <2>1. /\ UNCHANGED <<early, backend, windows, segs, aligned, ids, spans, second, bucket, prints, speakers, stuck>>
        /\ temp' \in {0, 1, temp}
    BY <1>4, ConvertLeads
  <2>2. CASE stage = "convert" /\ stage' = "diarize" /\ dual' = dual /\ spoilt' = spoilt
    BY <1>1, <1>4, <2>1, <2>2, ConvertLeads DEF TempInv, TypeInv, Other
  <2>3. CASE stage = "convert second" /\ stage' = "diarize second" /\ dual' = dual /\ spoilt' = spoilt
    BY <1>1, <1>4, <2>1, <2>3, ConvertLeads DEF TempInv, TypeInv, Other
  <2>4. CASE /\ stage = "convert" /\ stage' = "raised" /\ dual' = dual
             /\ spoilt' \in {spoilt, spoilt + 1} /\ temp' = temp
    BY <1>1, <1>4, <2>1, <2>4, ConvertLeads DEF TempInv, TypeInv, Other
  <2>5. CASE /\ stage = "convert second" /\ stage' = "done" /\ dual' = "failed"
             /\ spoilt' \in {spoilt, spoilt + 1} /\ temp' = temp
    <3>1. temp = 0 /\ temp' = 0 /\ stuck' = stuck /\ backend' = backend
      BY <1>1, <2>1, <2>5 DEF TempInv
    <3>2. CASE spoilt' = spoilt
      BY <1>1, <2>5, <3>1, <3>2 DEF TempInv, TypeInv
    <3>3. CASE spoilt' # spoilt
      <4>1. backend # "speechbrain"
        <5>1. spoilt' # spoilt => IsTurn("speechbrain")
          BY <1>4, <2>5, Zenon DEF Convert
        <5>2. ~Primary
          BY <2>5, Zenon DEF Primary
        <5>3. Other(backend) = "speechbrain"
          BY <3>3, <5>1, <5>2, Zenon DEF IsTurn
        <5>4. QED
          BY <5>3 DEF Other
      <4>2. spoilt = 0 /\ stuck = 0
        <5>1. ~Turned
          BY <2>5, <4>1, Zenon DEF Turned
        <5>2. ~Turned => temp = 0 /\ spoilt = 0 /\ stuck = 0
          BY <1>1, Zenon DEF TempInv
        <5>3. QED
          BY <5>1, <5>2, Zenon
      <4>3. spoilt' = 1
        <5>1. spoilt' \in {spoilt, spoilt + 1}
          BY <2>5
        <5>2. QED
          BY <3>3, <4>2, <5>1
      <4>4. QED
        BY <2>5, <3>1, <4>1, <4>2, <4>3 DEF TempInv
    <3>4. QED
      BY <3>2, <3>3
  <2>6. QED
    BY <1>4, <2>2, <2>3, <2>4, <2>5, ConvertLeads
<1>5. CASE Diarize
  <2>1. CleanUp /\ backend' = backend /\ stage = "diarize" /\ stage' = "align"
    BY <1>5 DEF Diarize
  <2>2. QED
    BY <1>1, <2>1, Over
<1>6. CASE DiarizeFails
  <2>1. CleanUp /\ backend' = backend /\ stage \in {"diarize", "diarize second"} /\ Fail
    BY <1>6 DEF DiarizeFails
  <2>2. \/ stage = "diarize" /\ stage' = "raised" /\ dual' = dual
        \/ stage = "diarize second" /\ stage' = "done" /\ dual' = "failed"
    BY <2>1 DEF Primary, Fail
  <2>3. QED
    BY <1>1, <2>1, <2>2, Over
<1>7. CASE Align
  BY <1>1, <1>7 DEF Align, TempInv, TypeInv
<1>8. CASE Resolve
  BY <1>1, <1>8 DEF Resolve, TempInv, TypeInv
<1>9. CASE Apply
  BY <1>1, <1>9 DEF Apply, TempInv, TypeInv
<1>10. CASE DiarizeSecond
  <2>1. /\ CleanUp /\ backend' = backend /\ stage = "diarize second"
        /\ stage' \in {"done", "enroll"}
    BY <1>10 DEF DiarizeSecond
  <2>2. QED
    BY <1>1, <2>1, Over
<1>11. CASE Enroll
  BY <1>1, <1>11 DEF Enroll, Primary, Fail, TempInv, TypeInv
<1>12. CASE Delete
  BY <1>1, <1>12 DEF Delete, TempInv, TypeInv
<1>13. CASE UNCHANGED runvars
  BY <1>1, <1>13 DEF runvars, TempInv, TypeInv
<1>14. QED
  BY <1>2, <1>3, <1>4, <1>5, <1>6, <1>7, <1>8, <1>9, <1>10, <1>11, <1>12, <1>13 DEF RunNext, Run

\* Verdicts are of local labels.
LEMMA IdsStep == RunInv /\ [RunNext]_runvars => IdsInv'
<1> SUFFICES ASSUME RunInv, [RunNext]_runvars PROVE IdsInv'
  OBVIOUS
<1> USE DEF early, late, temps
<1>1. IdsInv /\ TypeInv
  BY DEF RunInv
<1>2. CASE Resolve
  <2>1. CASE ids' = ids
    BY <1>1, <2>1 DEF IdsInv
  <2>2. CASE \E id \in Speakers \cup {NoOne} : Unresolved # {} /\ Verdict(id)
    <3>1. PICK id \in Speakers \cup {NoOne} : Unresolved # {} /\ Verdict(id)
      BY <2>2
    <3> DEFINE i == CHOOSE i \in Unresolved : \A j \in Unresolved : i <= j
    <3>2. ids' = [l \in DOMAIN ids \cup {segs[i].label} |-> IF l \in DOMAIN ids THEN ids[l] ELSE id]
      BY <3>1 DEF Verdict
    <3>3. segs \in Seq(SegmentType)
      BY <1>1, <1>2 DEF Resolve, TypeInv, Before
    <3>4. DOMAIN segs = 1..Len(segs) /\ \A k \in 1..Len(segs) : segs[k] \in SegmentType
      BY <3>3, LenProperties, ElementOfSeq
    <3>5. i \in Unresolved
      <4>1. Unresolved \in SUBSET Nat
        BY <3>4 DEF Unresolved
      <4>2. \E k \in Unresolved : \A j \in Unresolved : k <= j
        BY <3>1, <4>1, LeastOf
      <4>3. QED
        BY <4>2
    <3> HIDE DEF i
    <3>6. segs[i].label \in Locals
      BY <3>4, <3>5 DEF Unresolved, SegmentType
    <3>7. QED
      BY <1>1, <3>2, <3>6 DEF IdsInv
  <2>3. speakers \subseteq Speakers
    BY <1>1 DEF TypeInv
  <2>4. QED
    BY <1>2, <2>1, <2>2, <2>3 DEF Resolve
<1>3. CASE ~Resolve
  <2>1. ids' = ids
    BY <1>3 DEF RunNext, Run, Extract, Recognized, Convert, Diarize, DiarizeFails, Align, Apply,
                DiarizeSecond, Enroll, Delete, runvars
  <2>2. QED
    BY <1>1, <2>1 DEF IdsInv
<1>4. QED
  BY <1>2, <1>3

\* Align makes it so, and Apply renames all of it.
LEMMA AlignStep == RunInv /\ [RunNext]_runvars => AlignInv'
<1> SUFFICES ASSUME RunInv, [RunNext]_runvars PROVE AlignInv'
  OBVIOUS
<1> USE DEF early, late, temps
<1>1. AlignInv /\ TypeInv /\ IdsInv
  BY DEF RunInv
<1>2. \A L : AllAligned(L) => aligned # <<>> \/ DOMAIN aligned = {}
  OBVIOUS
<1>3. CASE aligned = <<>> /\ aligned' = <<>>
  BY <1>3 DEF AlignInv, AllAligned
<1>4. CASE Align
  <2>1. /\ stage = "align" /\ segs' = segs /\ transcript' = transcript /\ stage' \in {"resolve", "done"}
        /\ aligned' = [u \in DOMAIN transcript |-> Utterance(transcript[u], segs)]
    BY <1>4 DEF Align, Utterance, SaidBy, WhoSpeaks
  <2>2. segs \in Seq(SegmentType) /\ transcript \in Seq(Seq(SpanType))
    BY <1>1, <2>1 DEF TypeInv, Before
  <2>3. \A u \in DOMAIN transcript : transcript[u] \in Seq(SpanType)
    BY <2>2, LenProperties, ElementOfSeq
  <2>4. \A u \in DOMAIN transcript : IsAligned(aligned'[u], transcript[u], segs, Locals)
    BY <2>1, <2>2, <2>3, UtteranceIsAligned
  <2>5. CASE stage' = "resolve"
    BY <2>1, <2>4, <2>5 DEF AlignInv, AllAligned, Before
  <2>6. CASE stage' = "done"
    <3>1. \A u \in DOMAIN transcript : IsAligned(aligned'[u], transcript[u], segs, Labels)
      BY <2>4, Widened
    <3>2. QED
      BY <2>1, <2>6, <3>1 DEF AlignInv, AllAligned, Before
  <2>7. QED
    BY <2>1, <2>5, <2>6
<1>5. CASE Apply
  <2>1. /\ stage = "resolve" /\ stage' \in {"convert second", "done"} /\ transcript' = transcript
        /\ segs' = Renamed(segs) /\ aligned' = [u \in DOMAIN aligned |-> Relabelled(aligned[u])]
    BY <1>5 DEF Apply, Renamed
  <2>2. /\ segs \in Seq(SegmentType) /\ DOMAIN aligned \subseteq DOMAIN transcript
        /\ \A u \in DOMAIN aligned : IsAligned(aligned[u], transcript[u], segs, Locals)
    BY <1>1, <2>1 DEF TypeInv, AlignInv, AllAligned, Before
  <2>3. \A u \in DOMAIN aligned : IsAligned(aligned'[u], transcript[u], segs', Labels)
    BY <1>1, <2>1, <2>2, RenamedAligned
  <2>4. QED
    BY <2>1, <2>2, <2>3 DEF AlignInv, AllAligned, Before
<1>6. CASE Resolve
  <2>1. stage = "resolve" /\ stage' \in {"resolve", "raised"} /\ UNCHANGED <<aligned, segs, transcript>>
    BY <1>6 DEF Resolve
  <2>2. DOMAIN aligned \subseteq DOMAIN transcript
        /\ \A u \in DOMAIN aligned : IsAligned(aligned[u], transcript[u], segs, Locals)
    BY <1>1, <2>1 DEF AlignInv, AllAligned, Before
  <2>3. \A u \in DOMAIN aligned : IsAligned(aligned[u], transcript[u], segs, Labels)
    BY <2>2, Widened
  <2>4. QED
    BY <2>1, <2>2, <2>3 DEF AlignInv, AllAligned, Before
<1>7. CASE Extract \/ Recognized \/ Diarize \/ (Convert /\ stage = "convert")
           \/ (DiarizeFails /\ stage = "diarize")
  <2>1. aligned' = aligned /\ stage \in Before \ {"resolve"}
    BY <1>7 DEF Extract, Recognized, Diarize, Convert, DiarizeFails, Before
  <2>2. QED
    BY <1>1, <1>3, <2>1 DEF AlignInv
<1>8. CASE DiarizeSecond \/ Enroll \/ (Convert /\ stage = "convert second")
           \/ (DiarizeFails /\ stage = "diarize second")
  <2>1. stage \notin Before /\ stage' \notin Before /\ UNCHANGED <<aligned, segs, transcript>>
    <3>1. CASE DiarizeSecond
      BY <3>1 DEF DiarizeSecond, Before
    <3>2. CASE Enroll
      BY <3>2 DEF Enroll, Primary, Fail, Before
    <3>3. CASE Convert /\ stage = "convert second"
      BY <3>3, ConvertLeads DEF Before
    <3>4. CASE DiarizeFails /\ stage = "diarize second"
      BY <3>4 DEF DiarizeFails, Primary, Fail, Before
    <3>5. QED
      BY <1>8, <3>1, <3>2, <3>3, <3>4
  <2>2. QED
    BY <1>1, <2>1 DEF AlignInv, AllAligned, Before
<1>9. CASE Delete \/ UNCHANGED runvars
  <2>1. UNCHANGED <<stage, aligned, segs, transcript>>
    BY <1>9 DEF Delete, runvars
  <2>2. QED
    BY <1>1, <2>1 DEF AlignInv, AllAligned
<1>10. Convert => stage = "convert" \/ stage = "convert second"
  BY DEF Convert
<1>11. DiarizeFails => stage = "diarize" \/ stage = "diarize second"
  BY DEF DiarizeFails
<1>12. QED
  BY <1>4, <1>5, <1>6, <1>7, <1>8, <1>9, <1>10, <1>11 DEF RunNext, Run

\* Apply makes the spans, with the owners the labels have then.
LEMMA SpansStep == RunInv /\ [RunNext]_runvars => SpansInv'
<1> SUFFICES ASSUME RunInv, [RunNext]_runvars PROVE SpansInv'
  OBVIOUS
<1> USE DEF early, late, temps
<1>1. SpansInv /\ TypeInv /\ IdsInv
  BY DEF RunInv
<1>2. ASSUME spans = <<>>, spans' = <<>>, stage' \notin Secondary, dual' = "none" PROVE SpansInv'
  <2>1. Len(spans') = 0 /\ spans' \in Seq(OwnedType)
    BY <1>2, EmptySeq
  <2>2. QED
    BY <1>2, <2>1 DEF SpansInv
<1>3. CASE stage \in Before /\ ~Apply
  <2>1. spans = <<>> /\ dual = "none"
    BY <1>1, <1>3 DEF SpansInv, TypeInv, Before
  <2>2. spans' = spans /\ dual' = dual /\ stage' \notin Secondary
    <3>1. CASE Extract
      BY <3>1 DEF Extract, Secondary
    <3>2. CASE Recognized
      BY <3>2 DEF Recognized, Secondary
    <3>3. CASE Convert
      BY <1>3, <3>3, ConvertLeads DEF Secondary, Before
    <3>4. CASE Diarize
      BY <3>4 DEF Diarize, Secondary
    <3>5. CASE DiarizeFails
      BY <1>3, <3>5 DEF DiarizeFails, Fail, Primary, Secondary, Before
    <3>6. CASE Align
      BY <3>6 DEF Align, Secondary
    <3>7. CASE Resolve
      BY <3>7 DEF Resolve, Secondary
    <3>8. CASE DiarizeSecond \/ Enroll
      BY <1>3, <3>8 DEF DiarizeSecond, Enroll, Before
    <3>9. CASE Delete \/ UNCHANGED runvars
      BY <1>3, <3>9 DEF Delete, runvars, Before, Secondary
    <3>10. QED
      BY <1>3, <3>1, <3>2, <3>3, <3>4, <3>5, <3>6, <3>7, <3>8, <3>9 DEF RunNext, Run
  <2>3. QED
    BY <1>2, <2>1, <2>2
<1>4. CASE Apply
  <2>1. /\ stage' \in {"convert second", "done"} /\ segs' = Renamed(segs) /\ ids' = ids /\ dual' = dual
        /\ spans' = IF stage' = "done" THEN <<>> ELSE PrimarySpans(segs)
    BY <1>4 DEF Apply, Renamed
  <2>2. stage = "resolve" /\ dual = "none" /\ segs \in Seq(SegmentType) /\ spans = <<>>
    BY <1>1, <1>4 DEF Apply, TypeInv, SpansInv, Before
  <2>3. CASE stage' = "done"
    BY <1>2, <2>1, <2>2, <2>3 DEF Secondary
  <2>4. CASE stage' = "convert second"
    <3> DEFINE n == Len(segs)
    <3>1. spans' = PrimarySpans(segs)
      BY <2>1, <2>4
    <3>2. n \in Nat /\ DOMAIN segs = 1..n /\ \A i \in 1..n : segs[i] \in SegmentType
      BY <2>2, LenProperties, ElementOfSeq
    <3>3. spans' = [i \in 1..n |-> [start |-> segs[i].start, end |-> segs[i].end, owner |-> Owner(segs[i].label)]]
      BY <3>1, <3>2 DEF PrimarySpans
    <3>4. ASSUME NEW i \in 1..n
          PROVE  /\ spans'[i] \in OwnedType /\ spans'[i].start = segs[i].start
                 /\ spans'[i].end = segs[i].end /\ spans'[i].owner = Owner(segs[i].label)
                 /\ segs[i].label \in Locals
      <4>1. segs[i].start \in Int /\ segs[i].end \in Int /\ segs[i].label \in Locals
        BY <3>2 DEF SegmentType
      <4>2. Owner(segs[i].label) \in Speakers \cup {NoOne}
        BY <1>1, <4>1, NamedIs
      <4>3. QED
        BY <3>3, <4>1, <4>2 DEF OwnedType
    <3>5. spans' \in Seq(OwnedType) /\ Len(spans') = n
      <4>1. spans' = [i \in 1..n |-> spans'[i]]
        BY <3>3
      <4>2. QED
        BY <3>2, <3>4, <4>1, SeqDef
    <3>6. /\ Len(segs') = n
          /\ \A i \in 1..n : /\ segs'[i].start = segs[i].start /\ segs'[i].end = segs[i].end
                             /\ segs'[i].label = Named(segs[i].label)
      BY <1>1, <2>1, <2>2, RenamedIs
    <3>7. \A i \in 1..n : /\ segs'[i].label \in Speakers <=> spans'[i].owner # NoOne
                          /\ spans'[i].owner \in {ids[l] : l \in DOMAIN ids} \cup {NoOne}
      BY <1>1, <3>4, <3>6, NamedIs
    <3>8. stage' \notin Before
      BY <2>4 DEF Before
    <3>9. \A j \in 1..Len(spans') : spans'[j].owner \in {ids'[l] : l \in DOMAIN ids'} \cup {NoOne}
      BY <2>1, <3>5, <3>7
    <3>10. /\ Len(spans') = Len(segs')
           /\ \A j \in 1..Len(segs') :
                /\ spans'[j].start = segs'[j].start /\ spans'[j].end = segs'[j].end
                /\ segs'[j].label \in Speakers <=> spans'[j].owner # NoOne
      BY <3>4, <3>5, <3>6, <3>7
    <3>11. QED
      BY <3>5, <3>8, <3>9, <3>10 DEF SpansInv
  <2>5. QED
    BY <2>1, <2>3, <2>4
<1>5. CASE stage \notin Before
  <2>1. UNCHANGED <<spans, segs, ids>> /\ stage' \notin Before
        /\ (stage' \in Secondary \/ dual' \in {"skipped", "enrolled"} =>
              stage \in Secondary \/ dual \in {"skipped", "enrolled"})
    <3>1. CASE Convert
      BY <1>5, <3>1, ConvertLeads DEF Before, Secondary
    <3>2. CASE DiarizeFails
      BY <1>5, <3>2 DEF DiarizeFails, Fail, Primary, Secondary, Before
    <3>3. CASE DiarizeSecond
      BY <3>3 DEF DiarizeSecond, Secondary, Before
    <3>4. CASE Enroll
      BY <3>4 DEF Enroll, Fail, Primary, Secondary, Before
    <3>5. CASE Delete \/ UNCHANGED runvars
      BY <1>5, <3>5 DEF Delete, runvars
    <3>6. CASE Extract \/ Recognized \/ Diarize \/ Align \/ Resolve \/ Apply
      BY <1>5, <3>6 DEF Extract, Recognized, Diarize, Align, Resolve, Apply, Before
    <3>7. QED
      BY <3>1, <3>2, <3>3, <3>4, <3>5, <3>6 DEF RunNext, Run
  <2>2. QED
    BY <1>1, <2>1 DEF SpansInv
<1>6. QED
  BY <1>3, <1>4, <1>5 DEF Apply, Before

\* Each voiceprint comes out of the bucket once.
LEMMA PrintsStep == RunInv /\ [RunNext]_runvars => PrintsInv'
<1> SUFFICES ASSUME RunInv, [RunNext]_runvars PROVE PrintsInv'
  OBVIOUS
<1> DEFINE Early == Before \cup {"convert second", "diarize second"}
           Done(d) == d \in {"skipped", "enrolled"}
<1> USE DEF early, late, temps
<1>1. PrintsInv /\ TypeInv /\ SpansInv
  BY DEF RunInv
<1>2. ASSUME UNCHANGED <<second, bucket, prints>>, stage' \in Early => stage \in Early,
             Done(dual') => Done(dual), spans' = spans \/ second = <<>>
      PROVE  PrintsInv'
  <2>1. Bucket(second)' = Bucket(second)
    <3>1. CASE spans' = spans
      <4>1. second' = second
        BY <1>2
      <4>2. QED
        BY <3>1, <4>1 DEF Bucket, Kept
    <3>2. CASE second = <<>>
      <4>1. Bucket(second) = {}
        BY <3>2, NoBucket
      <4>2. Kept(second)' = {}
        <5>1. second' = <<>>
          BY <1>2, <3>2
        <5>2. QED
          BY <5>1 DEF Kept
      <4>3. Bucket(second)' = {}
        BY <4>2 DEF Bucket
      <4>4. QED
        BY <4>1, <4>3
    <3>3. QED
      BY <1>2, <3>1, <3>2
  <2>2. QED
    BY <1>1, <1>2, <2>1 DEF PrintsInv
<1>3. CASE DiarizeSecond
  <2>1. PICK d \in Diarizations :
             /\ second' = d.segs /\ bucket' = Bucket(d.segs)
             /\ IF bucket' = {} THEN stage' = "done" /\ dual' = "skipped"
                ELSE stage' = "enroll" /\ dual' = dual
    BY <1>3 DEF DiarizeSecond
  <2>2. second = <<>> /\ prints' = prints /\ spans' = spans /\ dual = "none"
    BY <1>1, <1>3 DEF DiarizeSecond, PrintsInv, TypeInv
  <2>3. Bucket(second) = {}
    BY <2>2, NoBucket
  <2>4. prints = <<>>
    <3>1. prints \in Seq({})
      BY <1>1, <2>3 DEF PrintsInv
    <3>2. Len(prints) \in Nat /\ \A k \in 1..Len(prints) : FALSE
      BY <3>1, LenProperties, ElementOfSeq
    <3>3. Len(prints) = 0
      BY <3>2
    <3>4. QED
      BY <3>1, <3>3, EmptySeq
  <2>5. Bucket(second)' = Bucket(d.segs)
    BY <2>1, <2>2 DEF Bucket, Kept
  <2>6. prints' = <<>> /\ Len(prints') = 0 /\ prints' \in Seq(Bucket(second)') /\ ToSet(prints') = {}
    BY <2>2, <2>4, EmptySeq DEF ToSet
  <2>7. stage' \notin Early
    BY <2>1 DEF Before
  <2>8. Done(dual') => bucket' = {}
    BY <2>1, <2>2
  <2>9. bucket' \cup ToSet(prints') = Bucket(second)' /\ bucket' \cap ToSet(prints') = {}
    BY <2>1, <2>5, <2>6
  <2>10. \A j, k \in 1..Len(prints') : prints'[j] = prints'[k] => j = k
    BY <2>6
  <2>11. QED
    BY <2>6, <2>7, <2>8, <2>9, <2>10 DEF PrintsInv
<1>4. CASE Enroll
  <2>1. UNCHANGED <<second, spans>> /\ stage = "enroll" /\ dual = "none"
    BY <1>1, <1>4 DEF Enroll, TypeInv
  <2>2. CASE UNCHANGED <<prints, bucket>> /\ Fail
    <3>1. stage' = "done" /\ dual' = "failed"
      BY <2>1, <2>2 DEF Fail, Primary
    <3>2. QED
      BY <1>2, <2>1, <2>2, <3>1 DEF Before
  <2>3. CASE \E b \in bucket :
               /\ prints' = Append(prints, b) /\ bucket' = bucket \ {b}
               /\ IF bucket' = {} THEN stage' = "done" /\ dual' = "enrolled" ELSE UNCHANGED <<stage, dual>>
    <3>1. PICK b \in bucket :
               /\ prints' = Append(prints, b) /\ bucket' = bucket \ {b}
               /\ IF bucket' = {} THEN stage' = "done" /\ dual' = "enrolled" ELSE UNCHANGED <<stage, dual>>
      BY <2>3
    <3> DEFINE B == Bucket(second)
               n == Len(prints)
    <3>2. Bucket(second)' = B
      BY <2>1 DEF Bucket, Kept
    <3>3. /\ prints \in Seq(B) /\ bucket \cup ToSet(prints) = B /\ bucket \cap ToSet(prints) = {}
          /\ \A j, k \in 1..n : prints[j] = prints[k] => j = k
      BY <1>1 DEF PrintsInv
    <3> HIDE DEF B
    <3>4. b \in B /\ n \in Nat /\ DOMAIN prints = 1..n /\ ToSet(prints) = {prints[k] : k \in 1..n}
      BY <3>3, LenProperties DEF ToSet
    <3>5. /\ prints' \in Seq(B) /\ Len(prints') = n + 1 /\ prints'[n + 1] = b
          /\ \A k \in 1..n : prints'[k] = prints[k]
      BY <3>1, <3>3, <3>4, AppendProperties
    <3>6. \A k \in 1..n + 1 : k = n + 1 \/ k \in 1..n
      BY <3>4
    <3>7. \A k \in 1..n : k \in 1..n + 1 /\ n + 1 \in 1..n + 1
      BY <3>4
    <3>8. DOMAIN prints' = 1..n + 1
      BY <3>5, LenProperties
    <3>9. ToSet(prints') = ToSet(prints) \cup {b}
      <4>1. ToSet(prints') = {prints'[k] : k \in 1..n + 1}
        BY <3>8 DEF ToSet
      <4>2. n + 1 \in 1..n + 1
        BY <3>4
      <4>3. QED
        BY <3>4, <3>5, <3>6, <3>7, <4>1, <4>2
    <3>10. bucket' \cup ToSet(prints') = B /\ bucket' \cap ToSet(prints') = {}
      BY <3>1, <3>3, <3>9
    <3>11. ASSUME NEW j \in 1..n + 1, NEW k \in 1..n + 1, prints'[j] = prints'[k] PROVE j = k
      <4>1. \A i \in 1..n : prints'[i] # b
        BY <3>3, <3>4, <3>5
      <4>2. QED
        BY <3>3, <3>5, <3>6, <3>11, <4>1
    <3>12. stage' \notin Early /\ (Done(dual') => bucket' = {})
      BY <2>1, <3>1 DEF Before
    <3>13. QED
      BY <3>2, <3>5, <3>10, <3>11, <3>12 DEF PrintsInv
  <2>4. QED
    BY <1>4, <2>2, <2>3 DEF Enroll
<1>5. CASE stage \in Early /\ ~DiarizeSecond
  <2>1. second = <<>> /\ dual = "none"
    BY <1>1, <1>5 DEF PrintsInv, TypeInv, Before
  <2>2. UNCHANGED <<second, bucket, prints>> /\ ~Done(dual')
    <3>1. CASE Extract
      BY <2>1, <3>1 DEF Extract
    <3>2. CASE Recognized
      BY <2>1, <3>2 DEF Recognized
    <3>3. CASE Convert
      BY <2>1, <3>3, ConvertLeads
    <3>4. CASE Diarize
      BY <2>1, <3>4 DEF Diarize
    <3>5. CASE DiarizeFails
      BY <2>1, <3>5 DEF DiarizeFails, Fail
    <3>6. CASE Align
      BY <2>1, <3>6 DEF Align
    <3>7. CASE Resolve
      BY <2>1, <3>7 DEF Resolve
    <3>8. CASE Apply
      BY <2>1, <3>8 DEF Apply
    <3>9. CASE Enroll
      BY <1>5, <3>9 DEF Enroll, Before
    <3>10. CASE Delete \/ UNCHANGED runvars
      BY <2>1, <3>10 DEF Delete, runvars
    <3>11. QED
      BY <1>5, <3>1, <3>2, <3>3, <3>4, <3>5, <3>6, <3>7, <3>8, <3>9, <3>10 DEF RunNext, Run
  <2>3. QED
    BY <1>2, <1>5, <2>1, <2>2
<1>6. CASE stage \notin Early /\ ~Enroll
  <2>1. UNCHANGED <<second, bucket, prints, stage, dual, spans>>
    <3>1. Delete \/ UNCHANGED runvars
      BY <1>6 DEF RunNext, Run, Extract, Recognized, Convert, Diarize, DiarizeFails, Align, Resolve, Apply,
                  DiarizeSecond, Before
    <3>2. QED
      BY <3>1 DEF Delete, runvars
  <2>2. QED
    BY <1>2, <1>6, <2>1
<1>7. QED
  BY <1>3, <1>4, <1>5, <1>6

\* Diarize makes it so; before Align nothing else changes segments.
LEMMA FaithfulStep == RunInv /\ [RunNext]_runvars => SegmentsFaithful'
<1> SUFFICES ASSUME RunInv, [RunNext]_runvars PROVE SegmentsFaithful'
  OBVIOUS
<1> USE DEF early, late, temps
<1>1. SegmentsFaithful /\ TypeInv
  BY DEF RunInv
<1>2. CASE Diarize
  <2>1. PICK d \in Diarizations : windows' = d.windows /\ segs' = d.segs
    BY <1>2 DEF Diarize
  <2>2. IsDiarized(d)
    BY <2>1, Diarized
  <2>3. ASSUME windows' # <<>>
        PROVE  /\ Covered(windows') \subseteq Covered(segs')
               /\ \A l \in Labels :
                    /\ CellsOf(windows', l) \subseteq CellsOf(segs', l)
                    /\ CellsOf(segs', l) \ CellsOf(windows', l) \subseteq Behind(windows', l) \ Covered(windows')
               /\ \A i, j \in DOMAIN segs' : i < j => segs'[i].start <= segs'[j].start
    <3> DEFINE ws == windows'
               ms == segs'
    <3>1. AreVoices(ws) /\ ms = MergeAdjacent(ws)
      BY <2>1, <2>2, <2>3 DEF IsDiarized
    <3> HIDE DEF ws, ms
    <3>2. /\ Covered(ws) \subseteq Covered(ms)
          /\ \A l : /\ CellsOf(ws, l) \subseteq CellsOf(ms, l)
                    /\ CellsOf(ms, l) \ CellsOf(ws, l) \subseteq Behind(ws, l) \ Covered(ws)
          /\ \A i, j \in DOMAIN ms : i < j => ms[i].start <= ms[j].start
      BY <3>1, MergeIsFaithful
    <3>3. QED
      BY <3>2 DEF ws, ms
  <2>4. QED
    BY <2>3 DEF SegmentsFaithful
<1>3. CASE ~Diarize
  <2>1. stage' = "align" => UNCHANGED <<stage, windows, segs>>
    <3>1. CASE Extract
      BY <3>1 DEF Extract
    <3>2. CASE Recognized
      BY <3>2 DEF Recognized
    <3>3. CASE Convert
      BY <3>3, ConvertLeads
    <3>4. CASE DiarizeFails
      BY <3>4 DEF DiarizeFails, Fail
    <3>5. CASE Align
      BY <3>5 DEF Align
    <3>6. CASE Resolve
      BY <3>6 DEF Resolve
    <3>7. CASE Apply
      BY <3>7 DEF Apply
    <3>8. CASE DiarizeSecond
      BY <3>8 DEF DiarizeSecond
    <3>9. CASE Enroll
      BY <3>9 DEF Enroll, Fail
    <3>10. CASE Delete \/ UNCHANGED runvars
      BY <3>10 DEF Delete, runvars
    <3>11. QED
      BY <1>3, <3>1, <3>2, <3>3, <3>4, <3>5, <3>6, <3>7, <3>8, <3>9, <3>10 DEF RunNext, Run
  <2>2. CASE stage' = "align"
    BY <1>1, <2>1, <2>2 DEF SegmentsFaithful
  <2>3. CASE stage' # "align"
    BY <2>3 DEF SegmentsFaithful
  <2>4. QED
    BY <2>2, <2>3
<1>4. QED
  BY <1>2, <1>3

\* The first state.
LEMMA RunStarts == RunInit => RunInv
<1> SUFFICES ASSUME RunInit PROVE RunInv
  OBVIOUS
<1> USE DEF RunInit
<1>1. /\ \A S : <<>> \in Seq(S) /\ Len(<<>>) = 0 /\ DOMAIN <<>> = {}
      /\ IsTimed(<<>>) /\ ToSet(<<>>) = {}
  BY EmptySeq DEF IsTimed, ToSet
<1>2. TypeInv
  BY <1>1 DEF TypeInv, Stages, Backends
<1>3. TempInv
  <2>1. temp = 0 /\ spoilt = 0 /\ stuck = 0
    OBVIOUS
  <2>2. QED
    BY <2>1 DEF TempInv
<1>4. IdsInv
  BY <1>1 DEF IdsInv
<1>5. AlignInv
  BY <1>1 DEF AlignInv, AllAligned
<1>6. SpansInv
  BY <1>1 DEF SpansInv, Secondary
<1>7. PrintsInv
  <2>1. second = <<>> /\ prints = <<>> /\ bucket = {} /\ dual = "none"
    OBVIOUS
  <2>2. Bucket(second) = {}
    BY <2>1, NoBucket
  <2>3. prints \in Seq(Bucket(second)) /\ Len(prints) = 0 /\ ToSet(prints) = {}
    BY <1>1, <2>1
  <2>4. \A j, k \in 1..Len(prints) : j = k
    BY <2>3
  <2>5. QED
    BY <2>1, <2>2, <2>3, <2>4 DEF PrintsInv
<1>8. SegmentsFaithful
  BY DEF SegmentsFaithful
<1>9. QED
  BY <1>2, <1>3, <1>4, <1>5, <1>6, <1>7, <1>8 DEF RunInv

\* The inductive invariant.
LEMMA RunInvHolds == RunSpec => []RunInv
<1>1. RunInv /\ [RunNext]_runvars => RunInv'
  BY TypeStep, TempStep, IdsStep, AlignStep, SpansStep, PrintsStep, FaithfulStep DEF RunInv
<1>2. QED
  BY RunStarts, <1>1, PTL DEF RunSpec

\* What follows from the invariant.
LEMMA RunTyped == RunInv => RunTypeOK
<1> SUFFICES ASSUME RunInv PROVE RunTypeOK
  OBVIOUS
<1>1. TypeInv /\ IdsInv /\ AlignInv
  BY DEF RunInv
<1>2. Duration \in Int
  BY AudioAssumption
<1>3. ASSUME NEW xs \in Seq(ResultType), IsTimed(xs), NEW i \in DOMAIN xs
      PROVE  IsSegment(xs[i], Labels)
  <2>1. i \in 1..Len(xs) /\ xs[i].start \in Int /\ xs[i].end \in Int /\ xs[i].label \in Labels
    BY <1>3, ResultFacts
  <2>2. 0 <= xs[i].start /\ xs[i].start <= xs[i].end /\ xs[i].end <= Duration
    BY <1>3, <2>1 DEF IsTimed
  <2>3. QED
    BY <1>2, <2>1, <2>2 DEF IsSegment
<1>4. \A xs \in {windows, segs, second} : xs \in Seq(ResultType) /\ IsTimed(xs)
  BY <1>1, LocalSegments DEF TypeInv
<1>5. \A xs \in {windows, segs, second} : \A i \in DOMAIN xs : IsSegment(xs[i], Labels)
  BY <1>3, <1>4
<1>6. ASSUME NEW u \in DOMAIN aligned
      PROVE  /\ aligned[u].speaker \in Labels \cup {Unknown, Mixed}
             /\ aligned[u].votes \in 0..Len(aligned[u].words)
  <2> DEFINE a == aligned[u]
  <2>1. \E L \in {Locals, Labels} : IsAligned(a, transcript[u], segs, L)
    BY <1>1 DEF AlignInv, AllAligned
  <2>2. PICK L \in {Locals, Labels} : IsAligned(a, transcript[u], segs, L)
    BY <2>1
  <2> HIDE DEF a
  <2>3. a \in AlignedType(L) /\ a.votes <= Len(a.words)
    BY <2>2 DEF IsAligned
  <2>4. a.words \in Seq(L \cup {Unknown}) /\ a.speaker \in L \cup {Unknown, Mixed} /\ a.votes \in Nat
    BY <2>3 DEF AlignedType
  <2>5. Len(a.words) \in Nat
    BY <2>4, LenProperties
  <2>6. a.votes \in 0..Len(a.words)
    BY <2>3, <2>4, <2>5
  <2>7. a.speaker \in Labels \cup {Unknown, Mixed}
    BY <2>2, <2>4, LocalsAreLabels
  <2>8. QED
    BY <2>6, <2>7 DEF a
<1>7. DOMAIN ids \subseteq ToSet(LocalNames) /\ \A l \in DOMAIN ids : ids[l] \in Speakers \cup {NoOne}
  BY <1>1 DEF IdsInv, Locals
<1>8. stage \in Stages /\ backend \in Backends /\ speakers \subseteq Speakers
      /\ dual \in {"none", "skipped", "enrolled", "failed"}
  BY <1>1 DEF TypeInv
<1>9. QED
  BY <1>5, <1>6, <1>7, <1>8 DEF RunTypeOK

\* A temporary WAV is there only while it is being diarized, whatever fails; a run
\* leaves one behind at most, because writing it failed, and then the run, or the
\* secondary's enrolment, says that it failed, or because removing it did
\* (_ensure_wav_16k, _cleanup_temp): the run's TempRemoved.
THEOREM FilesRemoved == RunSpec => []TempRemoved
<1>1. RunInv => TempRemoved
  <2> SUFFICES ASSUME RunInv PROVE TempRemoved
    OBVIOUS
  <2>1. temp \in {0, 1} /\ spoilt \in Nat /\ stuck \in Nat
    BY DEF RunInv, TypeInv
  <2>2. TempInv
    BY DEF RunInv
  <2>3. /\ temp # 0 => spoilt = 0 /\ stuck = 0
        /\ stuck # 0 => spoilt = 0 /\ stuck = 1
        /\ spoilt # 0 => spoilt = 1 /\ stuck = 0
    BY <2>2 DEF TempInv
  <2>4. temp + spoilt + stuck <= 1 /\ (temp > 0 => temp # 0) /\ (spoilt > 0 => spoilt # 0)
    BY <2>1, <2>3
  <2>5. QED
    BY <2>2, <2>4, RunTyped DEF TempInv, TempRemoved
<1>2. QED
  BY RunInvHolds, <1>1, PTL

\* Merging windows into segments moves nobody's voice and loses none
\* (_merge_adjacent), of any length of audio, any clustering and any windows.
THEOREM FaithfulSegments == RunSpec => []SegmentsFaithful
<1>1. RunInv => SegmentsFaithful
  BY DEF RunInv
<1>2. QED
  BY RunInvHolds, <1>1, PTL

\* In the end words and utterances are aligned with the segments as renamed.
LEMMA FinalAligned ==
  ASSUME RunInv, Final, NEW u \in DOMAIN aligned
  PROVE  /\ IsAligned(aligned[u], transcript[u], segs, Labels)
         /\ DOMAIN aligned[u].words = 1..Len(transcript[u]) /\ Len(aligned[u].words) = Len(transcript[u])
         /\ segs \in Seq(ResultType)
<1>1. AlignInv /\ TypeInv /\ stage = "done"
  BY DEF RunInv, Final
<1>2. IsAligned(aligned[u], transcript[u], segs, Labels)
  BY <1>1 DEF AlignInv, AllAligned, Before
<1>3. aligned[u].words \in Seq(Labels \cup {Unknown}) /\ Len(aligned[u].words) = Len(transcript[u])
  BY <1>2 DEF IsAligned, AlignedType
<1>4. DOMAIN aligned[u].words = 1..Len(transcript[u])
  BY <1>3, LenProperties
<1>5. QED
  BY <1>1, <1>2, <1>3, <1>4 DEF TypeInv

\* Of the result, after the registry's renaming: a word is Unknown only where
\* nobody speaks, else its speaker speaks there, and nobody for longer
\* (_segment_for_word, _apply_registry).
THEOREM OwnedWords == RunSpec => []WordsOwned
<1>1. ASSUME RunInv PROVE WordsOwned
  <2> SUFFICES ASSUME Final, NEW u \in DOMAIN aligned, NEW n \in DOMAIN aligned[u].words
               PROVE  LET who == aligned[u].words[n] w == transcript[u][n] IN
                      IF who = Unknown THEN \A l \in Labels : ~SpokenBy(w, l)
                      ELSE /\ SpokenBy(w, who)
                           /\ \A i \in DOMAIN segs : \E j \in DOMAIN segs :
                                segs[j].label = who /\ Overlap(w, segs[i]) <= Higher(0, Overlap(w, segs[j]))
    BY DEF WordsOwned
  <2> DEFINE who == aligned[u].words[n]
             w == transcript[u][n]
  <2>1. /\ IsAligned(aligned[u], transcript[u], segs, Labels) /\ n \in 1..Len(transcript[u])
        /\ segs \in Seq(ResultType)
    BY <1>1, FinalAligned
  <2>2. WordOwned(who, w, segs)
    BY <2>1 DEF IsAligned
  <2>3. DOMAIN segs = 1..Len(segs)
    BY <2>1, LenProperties
  <2> HIDE DEF who, w
  <2>4. CASE who = Unknown
    <3>1. \A j \in 1..Len(segs) : ~(Overlap(w, segs[j]) > 0) /\ ~Holds(segs[j], w)
      BY <2>2, <2>4 DEF WordOwned
    <3>2. \A l \in Labels : ~SpokenBy(w, l)
      BY <2>3, <3>1 DEF SpokenBy
    <3>3. QED
      BY <2>4, <3>2 DEF who, w
  <2>5. CASE who # Unknown
    <3>1. PICK i \in 1..Len(segs) :
               /\ segs[i].label = who /\ (Overlap(w, segs[i]) > 0 \/ Holds(segs[i], w))
               /\ \A j \in 1..Len(segs) : Overlap(w, segs[j]) <= Higher(0, Overlap(w, segs[i]))
      BY <2>2, <2>5 DEF WordOwned
    <3>2. SpokenBy(w, who)
      BY <2>3, <3>1 DEF SpokenBy
    <3>3. \A j \in DOMAIN segs : \E k \in DOMAIN segs :
            segs[k].label = who /\ Overlap(w, segs[j]) <= Higher(0, Overlap(w, segs[k]))
      BY <2>3, <3>1
    <3>4. QED
      BY <2>5, <3>2, <3>3 DEF who, w
  <2>6. QED
    BY <2>4, <2>5
<1>2. RunInv => WordsOwned
  BY <1>1
<1>3. QED
  BY RunInvHolds, <1>2, PTL

\* An utterance that names a speaker has the threshold's share of words of his,
\* and its confidence claims no more, also when the registry has found several
\* labels to be one speaker (_utterance_speaker, _apply_registry).
THEOREM HeldVotes == RunSpec => []VoteHolds
<1>1. ASSUME RunInv PROVE VoteHolds
  <2> SUFFICES ASSUME Final, NEW u \in DOMAIN aligned
               PROVE  LET a == aligned[u] IN
                      IF a.speaker = Unknown THEN \A i \in DOMAIN a.words : a.words[i] = Unknown
                      ELSE a.speaker # Mixed =>
                        /\ Times(a.words, a.speaker) * Den >= Num * Len(a.words)
                        /\ Times(a.words, a.speaker) >= a.votes
    BY DEF VoteHolds
  <2> DEFINE a == aligned[u]
  <2>1. /\ IsAligned(a, transcript[u], segs, Labels) /\ DOMAIN a.words = 1..Len(transcript[u])
        /\ Len(a.words) = Len(transcript[u])
    BY <1>1, FinalAligned
  <2> HIDE DEF a
  <2>2. /\ a.speaker \in Labels \cup {Unknown, Mixed}
        /\ a.speaker = Unknown => \A i \in 1..Len(transcript[u]) : a.words[i] = Unknown
        /\ a.speaker \in Labels => /\ Times(a.words, a.speaker) >= a.votes
                                   /\ Times(a.words, a.speaker) * Den >= Num * Len(transcript[u])
    BY <2>1 DEF IsAligned, AlignedType
  <2>3. QED
    BY <2>1, <2>2 DEF a
<1>2. RunInv => VoteHolds
  BY <1>1
<1>3. QED
  BY RunInvHolds, <1>2, PTL

\* The secondary's voiceprints go to speakers the primary resolved, each segment
\* to the one who speaks for most of it, one voiceprint per speaker; and when it
\* says enrolled, nobody that was heard is left out (_majority_owner,
\* _dual_enroll).
THEOREM OwnersOfSecond == RunSpec => []SecondaryOwners
<1>1. ASSUME RunInv PROVE SecondaryOwners
  <2> DEFINE B == Bucket(second)
             n == Len(prints)
  <2>1. PrintsInv /\ SpansInv /\ TypeInv
    BY <1>1 DEF RunInv
  <2>2. /\ prints \in Seq(B) /\ bucket \cup ToSet(prints) = B
        /\ \A j, k \in 1..n : prints[j] = prints[k] => j = k
        /\ dual \in {"skipped", "enrolled"} => bucket = {}
    BY <2>1 DEF PrintsInv
  <2>3. spans \in Seq(OwnedType) /\ second \in Seq(SegmentType) /\ segs \in Seq(ResultType)
        /\ \A j \in 1..Len(spans) : spans[j].owner \in {ids[l] : l \in DOMAIN ids} \cup {NoOne}
    BY <2>1 DEF SpansInv, TypeInv
  <2>4. /\ \A b \in B :
              /\ b.owner # NoOne /\ \E j \in 1..Len(spans) : spans[j].owner = b.owner
              /\ \A i \in b.of, id \in Speakers : Share(second[i], spans, id) <= Share(second[i], spans, b.owner)
        /\ \A b, c \in B : b.owner = c.owner => b = c
        /\ \A i : (\E b \in B : i \in b.of) <=>
              /\ i \in DOMAIN second /\ second[i].emb
              /\ \E j \in 1..Len(spans) : spans[j].owner # NoOne /\ Overlap(second[i], spans[j]) > 0
    BY <2>3, BucketIs
  <2> HIDE DEF B
  <2>5. n \in Nat /\ DOMAIN prints = 1..n /\ \A k \in 1..n : prints[k] \in B
    BY <2>2, LenProperties, ElementOfSeq
  <2>6. ASSUME NEW k \in DOMAIN prints
        PROVE  /\ prints[k].owner \in {ids[l] : l \in DOMAIN ids} \ {NoOne}
               /\ \A i \in prints[k].of, id \in Speakers :
                    Share(second[i], spans, id) <= Share(second[i], spans, prints[k].owner)
               /\ \A j \in DOMAIN prints : prints[j].owner = prints[k].owner => j = k
    <3>1. prints[k] \in B /\ k \in 1..n
      BY <2>5
    <3>2. prints[k].owner \in {ids[l] : l \in DOMAIN ids} \ {NoOne}
      BY <2>3, <2>4, <3>1
    <3>3. \A j \in DOMAIN prints : prints[j].owner = prints[k].owner => j = k
      BY <2>2, <2>4, <2>5, <3>1
    <3>4. QED
      BY <2>4, <3>1, <3>2, <3>3
  <2>7. ASSUME stage = "done", dual \in {"enrolled", "skipped"}
        PROVE  UNION {prints[k].of : k \in DOMAIN prints} =
                 {i \in DOMAIN second : second[i].emb /\ \E j \in DOMAIN segs :
                    segs[j].label \in Speakers /\ Overlap(second[i], segs[j]) > 0}
    <3>1. ToSet(prints) = B
      BY <2>2, <2>7
    <3>2. \A i : i \in UNION {prints[k].of : k \in DOMAIN prints} <=> \E b \in B : i \in b.of
      BY <3>1 DEF ToSet
    <3>3. /\ Len(spans) = Len(segs)
          /\ \A j \in 1..Len(segs) :
               /\ spans[j].start = segs[j].start /\ spans[j].end = segs[j].end
               /\ segs[j].label \in Speakers <=> spans[j].owner # NoOne
      BY <2>1, <2>7 DEF SpansInv
    <3>4. DOMAIN segs = 1..Len(segs)
      BY <2>3, LenProperties
    <3>5. \A i : \A j \in 1..Len(segs) : Overlap(second[i], spans[j]) = Overlap(second[i], segs[j])
      BY <3>3 DEF Overlap
    <3>6. \A i : (\E j \in 1..Len(spans) : spans[j].owner # NoOne /\ Overlap(second[i], spans[j]) > 0)
                   <=> \E j \in DOMAIN segs : segs[j].label \in Speakers /\ Overlap(second[i], segs[j]) > 0
      BY <3>3, <3>4, <3>5
    <3>7. QED
      BY <2>4, <3>2, <3>6
  <2>8. QED
    BY <2>6, <2>7 DEF SecondaryOwners
<1>2. RunInv => SecondaryOwners
  BY <1>1
<1>3. QED
  BY RunInvHolds, <1>2, PTL

-----------------------------------------------------------------------------
(* The filter.                                                                *)

\* Sorted by the start: the same spans, and none before one that starts earlier.
IsShuffle(ys, xs) ==
  /\ ys \in Seq(SpanType) /\ Len(ys) = Len(xs)
  /\ \A j \in 1..Len(xs) : \E k \in 1..Len(xs) : ys[k] = xs[j]
  /\ \A k \in 1..Len(xs) : \E j \in 1..Len(xs) : ys[k] = xs[j]
\* SortedBy() of spans is a shuffle of them.
LEMMA SortShuffles ==
  ASSUME NEW n \in Nat, NEW key, key \in [1..n -> Int], NEW xs \in Seq(SpanType), Len(xs) = n
  PROVE  /\ IsShuffle(SortedBy(key, xs), xs)
         /\ key = [i \in 1..n |-> xs[i].start] =>
              \A j, k \in 1..n : j < k => SortedBy(key, xs)[j].start <= SortedBy(key, xs)[k].start
<1> DEFINE ys == SortedBy(key, xs)
<1>1. \A j \in 1..n : xs[j] \in SpanType
  BY ElementOfSeq
<1>2. PICK at : IsSort(at, n, key, xs)
  BY Sorts
<1>3. /\ ys = [k \in 1..n |-> xs[at[k]]] /\ at \in [1..n -> 1..n]
      /\ \A i \in 1..n : \E k \in 1..n : at[k] = i
      /\ \A j, k \in 1..n : j < k => key[at[j]] <= key[at[k]]
  BY <1>2 DEF IsSort
<1> HIDE DEF ys
<1>4. \A k \in 1..n : ys[k] = xs[at[k]] /\ at[k] \in 1..n /\ ys[k] \in SpanType
  BY <1>1, <1>3
<1>5. ys \in Seq(SpanType) /\ Len(ys) = n
  <2>1. ys = [k \in 1..n |-> ys[k]]
    BY <1>3
  <2>2. QED
    BY <1>4, <2>1, SeqDef
<1>6. /\ \A j \in 1..n : \E k \in 1..n : ys[k] = xs[j]
      /\ \A k \in 1..n : \E j \in 1..n : ys[k] = xs[j]
  BY <1>3, <1>4
<1>7. ASSUME key = [i \in 1..n |-> xs[i].start], NEW j \in 1..n, NEW k \in 1..n, j < k
      PROVE  ys[j].start <= ys[k].start
  <2>1. key[at[j]] = ys[j].start /\ key[at[k]] = ys[k].start
    BY <1>4, <1>7
  <2>2. QED
    BY <1>3, <1>7, <2>1
<1>8. IsShuffle(ys, xs)
  BY <1>5, <1>6 DEF IsShuffle
<1>9. QED
  BY <1>7, <1>8 DEF ys

\* list.sort() of spans is one, in order of start.
LEMMA InOrderSorts ==
  ASSUME NEW xs \in Seq(SpanType)
  PROVE  /\ IsShuffle(InOrder(xs), xs)
         /\ \A j, k \in 1..Len(xs) : j < k => InOrder(xs)[j].start <= InOrder(xs)[k].start
<1> DEFINE n == Len(xs)
           ends == [i \in 1..n |-> xs[i].end]
           ys == SortedBy(ends, xs)
           starts == [i \in 1..n |-> ys[i].start]
           zs == SortedBy(starts, ys)
<1>1. n \in Nat /\ DOMAIN xs = 1..n /\ \A i \in 1..n : xs[i] \in SpanType
  BY LenProperties, ElementOfSeq
<1>2. ends \in [1..n -> Int] /\ ByEnd(xs) = ys
  BY <1>1 DEF ByEnd, SpanType
<1> HIDE DEF ends
<1>3. IsShuffle(ys, xs)
  BY <1>1, <1>2, SortShuffles
<1> HIDE DEF ys
<1>4. ys \in Seq(SpanType) /\ Len(ys) = n /\ DOMAIN ys = 1..n /\ \A i \in 1..n : ys[i] \in SpanType
  BY <1>1, <1>3, LenProperties, ElementOfSeq DEF IsShuffle
<1>5. starts \in [1..n -> Int] /\ ByStart(ys) = zs /\ starts = [i \in 1..n |-> ys[i].start]
  BY <1>4 DEF ByStart, SpanType
<1> HIDE DEF starts
<1>6. IsShuffle(zs, ys) /\ \A j, k \in 1..n : j < k => zs[j].start <= zs[k].start
  BY <1>1, <1>4, <1>5, SortShuffles
<1>7. InOrder(xs) = zs
  BY <1>2, <1>5 DEF InOrder
<1> HIDE DEF zs
<1>8. /\ zs \in Seq(SpanType) /\ Len(zs) = n
      /\ \A j \in 1..n : \E k \in 1..n : zs[k] = xs[j]
      /\ \A k \in 1..n : \E j \in 1..n : zs[k] = xs[j]
  <2>1. /\ \A j \in 1..n : \E k \in 1..n : ys[k] = xs[j]
        /\ \A k \in 1..n : \E j \in 1..n : ys[k] = xs[j]
    BY <1>3 DEF IsShuffle
  <2>2. /\ zs \in Seq(SpanType) /\ Len(zs) = n
        /\ \A j \in 1..n : \E k \in 1..n : zs[k] = ys[j]
        /\ \A k \in 1..n : \E j \in 1..n : zs[k] = ys[j]
    BY <1>4, <1>6 DEF IsShuffle
  <2>3. ASSUME NEW j \in 1..n PROVE \E k \in 1..n : zs[k] = xs[j]
    <3>1. PICK i \in 1..n : ys[i] = xs[j]
      BY <2>1
    <3>2. PICK k \in 1..n : zs[k] = ys[i]
      BY <2>2
    <3>3. QED
      BY <3>1, <3>2
  <2>4. ASSUME NEW k \in 1..n PROVE \E j \in 1..n : zs[k] = xs[j]
    <3>1. PICK i \in 1..n : zs[k] = ys[i]
      BY <2>2
    <3>2. PICK j \in 1..n : ys[i] = xs[j]
      BY <2>1
    <3>3. QED
      BY <3>1, <3>2
  <2>5. QED
    BY <2>2, <2>3, <2>4
<1>9. IsShuffle(zs, xs)
  BY <1>8 DEF IsShuffle, n
<1>10. QED
  BY <1>6, <1>7, <1>9 DEF n

\* What the first k of some spans have been merged into.
MetUpTo(acc, ys, k, lo, hi) ==
  /\ AreTidy(acc, lo, hi)
  /\ k = 0 => acc = <<>>
  /\ k # 0 => acc # <<>> /\ acc[Len(acc)].start <= ys[k].start
  /\ \A c \in Int : (\E i \in 1..Len(acc) : c \in Cells(acc[i])) <=> (\E j \in 1..k : c \in Cells(ys[j]))

\* A span's parts, and a span that is made to end elsewhere.
LEMMA SpanFacts ==
  ASSUME NEW x \in SpanType
  PROVE  /\ x.start \in Int /\ x.end \in Int
         /\ \A c \in Int : c \in Cells(x) <=> x.start <= c /\ c < x.end
         /\ \A e \in Int : /\ [x EXCEPT !.end = e] \in SpanType
                           /\ [x EXCEPT !.end = e].start = x.start /\ [x EXCEPT !.end = e].end = e
<1>1. x.start \in Int /\ x.end \in Int
  BY DEF SpanType
<1>2. \A c \in Int : c \in Cells(x) <=> x.start <= c /\ c < x.end
  BY <1>1 DEF Cells
<1>3. QED
  BY <1>1, <1>2 DEF SpanType

\* The last span made to end elsewhere.
LEMMA LastSpanGrows ==
  ASSUME NEW s \in Seq(SpanType), s # <<>>, NEW e \in Int
  PROVE  /\ Len(s) \in Nat \ {0} /\ Last(s) = s[Len(s)] /\ s[Len(s)] \in SpanType
         /\ LastExtended(s, e) \in Seq(SpanType) /\ Len(LastExtended(s, e)) = Len(s)
         /\ LastExtended(s, e)[Len(s)] = [s[Len(s)] EXCEPT !.end = e]
         /\ \A i \in 1..Len(s) - 1 : LastExtended(s, e)[i] = s[i]
<1> DEFINE m == Len(s)
           y == [s[m] EXCEPT !.end = e]
<1>1. m \in Nat \ {0} /\ Last(s) = s[m] /\ s[m] \in SpanType /\ m \in 1..m
  BY LenProperties, EmptySeq, ElementOfSeq DEF Last
<1>2. y \in SpanType
  BY <1>1, SpanFacts
<1>3. LastExtended(s, e) = [s EXCEPT ![m] = y]
  BY DEF LastExtended
<1> HIDE DEF y
<1>4. /\ LastExtended(s, e) \in Seq(SpanType) /\ Len(LastExtended(s, e)) = m
      /\ \A j \in 1..m : LastExtended(s, e)[j] = IF j = m THEN y ELSE s[j]
  BY <1>1, <1>2, <1>3, ExceptSeq
<1>5. QED
  BY <1>1, <1>4 DEF y

\* What one more span does to the spans merged so far.
LEMMA MeetIs ==
  ASSUME NEW acc \in Seq(SpanType), NEW x \in SpanType
  PROVE  /\ Meet(acc, x) \in Seq(SpanType)
         /\ \/ /\ acc = <<>> \/ ~(x.start <= acc[Len(acc)].end)
               /\ Meet(acc, x) = Append(acc, x)
            \/ /\ acc # <<>> /\ x.start <= acc[Len(acc)].end
               /\ Meet(acc, x) = LastExtended(acc, Higher(acc[Len(acc)].end, x.end))
<1>1. Append(acc, x) \in Seq(SpanType)
  BY AppendSpan
<1>2. acc # <<>> => Last(acc) = acc[Len(acc)] /\ acc[Len(acc)] \in SpanType
  BY LenProperties, EmptySeq, ElementOfSeq DEF Last
<1>3. CASE acc # <<>> /\ x.start <= Last(acc).end
  <2> DEFINE e == Higher(acc[Len(acc)].end, x.end)
  <2>1. e \in Int
    BY <1>2, <1>3, SpanFacts DEF Higher
  <2>2. Meet(acc, x) = LastExtended(acc, e)
    BY <1>3, <1>2 DEF Meet, LastExtended
  <2> HIDE DEF e
  <2>3. LastExtended(acc, e) \in Seq(SpanType)
    BY <1>3, <2>1, LastSpanGrows
  <2>4. QED
    BY <1>2, <1>3, <2>2, <2>3 DEF e
<1>4. CASE ~(acc # <<>> /\ x.start <= Last(acc).end)
  <2>1. Meet(acc, x) = Append(acc, x)
    BY <1>4 DEF Meet
  <2>2. QED
    BY <1>1, <1>2, <1>4, <2>1
<1>5. QED
  BY <1>3, <1>4

\* MetUpTo() is kept by one more span.
LEMMA MeetsOneMore ==
  ASSUME NEW lo \in Int, NEW hi \in Int, NEW ys \in Seq(SpanType), NEW k \in 1..Len(ys),
         \A j \in 1..Len(ys) : lo <= ys[j].start /\ ys[j].start < ys[j].end /\ ys[j].end <= hi,
         \A i, j \in 1..Len(ys) : i < j => ys[i].start <= ys[j].start,
         NEW acc, MetUpTo(acc, ys, k - 1, lo, hi)
  PROVE  MetUpTo(Meet(acc, ys[k]), ys, k, lo, hi)
<1> DEFINE x == ys[k]
           new == Meet(acc, x)
           m == Len(acc)
<1>1. /\ x \in SpanType /\ x.start \in Int /\ x.end \in Int
      /\ lo <= x.start /\ x.start < x.end /\ x.end <= hi
      /\ \A c \in Int : c \in Cells(x) <=> x.start <= c /\ c < x.end
  BY ElementOfSeq, SpanFacts
<1>2. /\ acc \in Seq(SpanType) /\ m \in Nat
      /\ \A i \in 1..m : /\ acc[i] \in SpanType /\ acc[i].start \in Int /\ acc[i].end \in Int
                         /\ lo <= acc[i].start /\ acc[i].start < acc[i].end /\ acc[i].end <= hi
                         /\ \A c \in Int : c \in Cells(acc[i]) <=> acc[i].start <= c /\ c < acc[i].end
      /\ \A i, j \in 1..m : i < j => acc[i].end < acc[j].start
  BY LenProperties, ElementOfSeq, SpanFacts DEF MetUpTo, AreTidy
<1>3. \A c \in Int : (\E i \in 1..m : c \in Cells(acc[i])) <=> (\E j \in 1..k - 1 : c \in Cells(ys[j]))
  BY DEF MetUpTo
<1>4. acc # <<>> => m \in 1..m /\ acc[m].start <= x.start
  <2>1. acc # <<>> => k - 1 # 0 /\ acc[m].start <= ys[k - 1].start
    BY DEF MetUpTo
  <2>2. acc # <<>> => m \in 1..m
    BY <1>2, EmptySeq
  <2>3. Len(ys) \in Nat
    BY LenProperties
  <2>4. k - 1 # 0 => /\ k - 1 \in 1..Len(ys) /\ k - 1 < k
    BY <2>3
  <2>5. k - 1 # 0 => ys[k - 1].start <= x.start /\ ys[k - 1].start \in Int
    BY <2>4, ElementOfSeq, SpanFacts
  <2>6. QED
    BY <1>1, <1>2, <2>1, <2>2, <2>5
<1>5. \/ /\ acc = <<>> \/ ~(x.start <= acc[m].end)
         /\ new = Append(acc, x)
      \/ /\ acc # <<>> /\ x.start <= acc[m].end
         /\ new = LastExtended(acc, Higher(acc[m].end, x.end))
  BY <1>1, <1>2, MeetIs
<1>6. new \in Seq(SpanType)
  BY <1>1, <1>2, MeetIs
<1>7. \A j \in 1..k : j = k \/ j \in 1..k - 1
  OBVIOUS
<1>8. k \in 1..k /\ \A j \in 1..k - 1 : j \in 1..k
  OBVIOUS
<1>9. \A c \in Int : (\E j \in 1..k : c \in Cells(ys[j])) <=>
                       c \in Cells(x) \/ \E i \in 1..m : c \in Cells(acc[i])
  BY <1>3, <1>7, <1>8
<1>10. CASE (acc = <<>> \/ ~(x.start <= acc[m].end)) /\ new = Append(acc, x)
  <2> HIDE DEF new, x, m
  <2>1. /\ Len(new) = m + 1 /\ new[m + 1] = x /\ \A i \in 1..m : new[i] = acc[i]
    BY <1>1, <1>2, <1>10, AppendSpan DEF m
  <2>2. \A i \in 1..m + 1 : i = m + 1 \/ i \in 1..m
    BY <1>2
  <2>3. m + 1 \in 1..m + 1 /\ \A i \in 1..m : i \in 1..m + 1
    BY <1>2
  <2>4. ASSUME NEW i \in 1..m + 1, NEW j \in 1..m + 1, i < j PROVE new[i].end < new[j].start
    <3>1. i \in 1..m /\ m \in 1..m
      BY <1>2, <2>4
    <3>2. acc # <<>>
      BY <1>2, <3>1, EmptySeq DEF m
    <3>3. acc[m].end < x.start
      BY <1>1, <1>2, <1>10, <3>1, <3>2
    <3>4. acc[i].end <= acc[m].end
      <4>1. i = m \/ i < m
        BY <1>2, <3>1
      <4>2. i < m => acc[i].end < acc[m].start /\ acc[m].start < acc[m].end
        BY <1>2, <3>1
      <4>3. QED
        BY <1>2, <3>1, <4>1, <4>2
    <3>5. CASE j = m + 1
      BY <1>1, <1>2, <2>1, <3>1, <3>3, <3>4, <3>5, SMTT(30)
    <3>6. CASE j \in 1..m
      BY <1>2, <2>1, <2>4, <3>1, <3>6
    <3>7. QED
      BY <2>2, <3>5, <3>6
  <2>5. AreTidy(new, lo, hi)
    <3>1. \A i \in 1..m + 1 : lo <= new[i].start /\ new[i].start < new[i].end /\ new[i].end <= hi
      BY <1>1, <1>2, <2>1, <2>2
    <3>2. QED
      BY <1>6, <2>1, <2>4, <3>1 DEF AreTidy
  <2>6. \A c : (\E i \in 1..m + 1 : c \in Cells(new[i])) <=>
                 c \in Cells(x) \/ \E i \in 1..m : c \in Cells(acc[i])
    BY <2>1, <2>2, <2>3
  <2>7. new # <<>>
    BY <1>2, <1>6, <2>1, EmptySeq
  <2>8. k # 0 /\ new[Len(new)].start <= x.start
    BY <1>1, <2>1
  <2>9. QED
    BY <1>9, <2>1, <2>5, <2>6, <2>7, <2>8 DEF MetUpTo, new, x
<1>11. CASE /\ acc # <<>> /\ x.start <= acc[m].end
            /\ new = LastExtended(acc, Higher(acc[m].end, x.end))
  <2> DEFINE e == Higher(acc[m].end, x.end)
             y == [acc[m] EXCEPT !.end = e]
  <2> HIDE DEF new, x
  <2>1. m \in 1..m /\ acc[m] \in SpanType /\ acc[m].start \in Int /\ acc[m].end \in Int
        /\ acc[m].start <= x.start
    BY <1>2, <1>4, <1>11
  <2>2. e \in Int /\ acc[m].end <= e /\ x.end <= e /\ e <= hi /\ acc[m].start < e
        /\ (e = acc[m].end \/ e = x.end)
    BY <1>1, <1>2, <2>1 DEF Higher
  <2>3. new = LastExtended(acc, e)
    BY <1>11
  <2> HIDE DEF e
  <2>4. /\ Len(new) = m /\ new[m] = y /\ \A i \in 1..m - 1 : new[i] = acc[i]
    BY <1>2, <1>11, <2>2, <2>3, LastSpanGrows
  <2>5. y \in SpanType /\ y.start = acc[m].start /\ y.end = e
    BY <2>1, <2>2, SpanFacts
  <2> HIDE DEF y, m
  <2>6. \A c \in Int : c \in Cells(y) <=> acc[m].start <= c /\ c < e
    BY <2>5, SpanFacts
  <2>7. \A c \in Int : c \in Cells(y) <=> c \in Cells(acc[m]) \/ c \in Cells(x)
    BY <1>1, <1>2, <1>11, <2>1, <2>2, <2>6, SMTT(30)
  <2>8. \A i \in 1..m : i = m \/ i \in 1..m - 1
    BY <1>2
  <2>9. \A i \in 1..m - 1 : i \in 1..m
    BY <1>2
  <2>10. \A i \in 1..m : new[i].start = acc[i].start
    BY <2>4, <2>5, <2>8
  <2>11. ASSUME NEW i \in 1..m, NEW j \in 1..m, i < j PROVE new[i].end < new[j].start
    <3>1. i \in 1..m - 1
      BY <1>2, <2>11
    <3>2. QED
      BY <1>2, <2>4, <2>10, <2>11, <3>1
  <2>12. \A i \in 1..m : lo <= new[i].start /\ new[i].start < new[i].end /\ new[i].end <= hi
    BY <1>2, <2>2, <2>4, <2>5, <2>8
  <2>13. AreTidy(new, lo, hi)
    BY <1>6, <2>4, <2>11, <2>12 DEF AreTidy
  <2>14. \A c \in Int : (\E i \in 1..m : c \in Cells(new[i])) <=>
                 c \in Cells(x) \/ \E i \in 1..m : c \in Cells(acc[i])
    <3>1. ASSUME NEW c \in Int, NEW i \in 1..m, c \in Cells(new[i])
          PROVE  c \in Cells(x) \/ \E j \in 1..m : c \in Cells(acc[j])
      BY <2>1, <2>4, <2>7, <2>8, <3>1
    <3>2. ASSUME NEW c \in Int, c \in Cells(x) PROVE \E j \in 1..m : c \in Cells(new[j])
      BY <2>1, <2>4, <2>7, <3>2
    <3>3. ASSUME NEW c \in Int, NEW i \in 1..m, c \in Cells(acc[i])
          PROVE  \E j \in 1..m : c \in Cells(new[j])
      BY <2>1, <2>4, <2>7, <2>8, <3>3
    <3>4. QED
      BY <3>1, <3>2, <3>3
  <2>15. k # 0 /\ new # <<>> /\ new[Len(new)].start <= x.start
    <3>1. new # <<>>
      BY <1>2, <1>6, <2>1, <2>4, EmptySeq
    <3>2. QED
      BY <2>1, <2>4, <2>5, <3>1
  <2>16. QED
    BY <1>9, <2>4, <2>13, <2>14, <2>15 DEF MetUpTo, new, x
<1>12. QED
  BY <1>5, <1>10, <1>11

\* And so holds of all of them.
LEMMA SpansMeet ==
  ASSUME NEW lo \in Int, NEW hi \in Int, NEW ys \in Seq(SpanType),
         \A j \in 1..Len(ys) : lo <= ys[j].start /\ ys[j].start < ys[j].end /\ ys[j].end <= hi,
         \A i, j \in 1..Len(ys) : i < j => ys[i].start <= ys[j].start
  PROVE  MetUpTo(FoldLeft(Meet, <<>>, ys), ys, Len(ys), lo, hi)
<1> DEFINE n == Len(ys)
           Acc == Seq(SpanType)
<1>1. n \in Nat /\ DOMAIN ys = 1..n /\ \A i \in 1..n : ys[i] \in SpanType
  BY LenProperties, ElementOfSeq
<1>2. <<>> \in Acc /\ \A k \in 1..n : \A a \in Acc : Meet(a, ys[k]) \in Acc
  BY <1>1, MeetIs, EmptySeq
<1> HIDE DEF Acc
<1>3. PICK g : MeetFoldIs(g, n, Acc, ys) /\ g[n] = FoldLeft(Meet, <<>>, ys)
  <2> HIDE DEF n
  <2>1. QED
    BY <1>1, <1>2, MeetFold
<1>4. g[0] = <<>> /\ \A k \in 1..n : g[k] = Meet(g[k - 1], ys[k])
  BY <1>3 DEF MeetFoldIs
<1> DEFINE D == {k \in 0..n : MetUpTo(g[k], ys, k, lo, hi)}
<1>5. 0 \in D
  <2>1. MetUpTo(<<>>, ys, 0, lo, hi)
    BY EmptySeq DEF MetUpTo, AreTidy
  <2>2. QED
    BY <1>1, <1>4, <2>1
<1>6. ASSUME NEW k \in 1..n, k - 1 \in D PROVE k \in D
  <2>1. MetUpTo(g[k - 1], ys, k - 1, lo, hi) /\ k \in 0..n
    BY <1>6
  <2>2. MetUpTo(Meet(g[k - 1], ys[k]), ys, k, lo, hi)
    BY <2>1, MeetsOneMore
  <2>3. QED
    BY <1>4, <2>1, <2>2
<1>7. 0..n \subseteq D
  <2> HIDE DEF D
  <2>1. QED
    BY <1>1, <1>5, <1>6, UpTo
<1>8. QED
  BY <1>1, <1>3, <1>7

\* Spans apart from each other count each tick once.
LEMMA TidyLength ==
  ASSUME NEW v, NEW lo, NEW hi, AreTidy(v, lo, hi), NEW t
  PROVE  SpeechCoverage(v, t) = Lower(t, Cardinality(Covered(v)))
<1> DEFINE n == Len(v)
           Upto(k) == UNION {Cells(v[i]) : i \in 1..k}
           Acc == Int
<1>1. /\ n \in Nat /\ DOMAIN v = 1..n
      /\ \A i \in 1..n : v[i] \in SpanType /\ v[i].start \in Int /\ v[i].end \in Int /\ v[i].start < v[i].end
      /\ \A i, j \in 1..n : i < j => v[i].end < v[j].start
  BY LenProperties, ElementOfSeq, SpanFacts DEF AreTidy
<1>2. 0 \in Acc /\ \A k \in 1..n : \A a \in Acc : a + Length(v[k]) \in Acc
  BY <1>1 DEF Length
<1> HIDE DEF Acc
<1>3. PICK g : LengthFoldIs(g, n, Acc, v) /\ \A u : SpeechCoverage(v, u) = Lower(u, g[n])
  <2> HIDE DEF n
  <2>1. QED
    BY <1>1, <1>2, LengthFold
<1>4. g[0] = 0 /\ \A k \in 1..n : g[k] = g[k - 1] + Length(v[k])
  BY <1>3 DEF LengthFoldIs
<1> DEFINE D == {k \in 0..n : IsFiniteSet(Upto(k)) /\ g[k] = Cardinality(Upto(k))}
<1>5. 0 \in D
  <2>1. Upto(0) = {}
    OBVIOUS
  <2> HIDE DEF Upto
  <2>2. IsFiniteSet(Upto(0)) /\ Cardinality(Upto(0)) = 0
    BY <2>1, FS_EmptySet
  <2>3. QED
    BY <1>1, <1>4, <2>2
<1>6. ASSUME NEW k \in 1..n, k - 1 \in D PROVE k \in D
  <2> DEFINE S == Upto(k - 1)
             T == Cells(v[k])
  <2>1. IsFiniteSet(S) /\ g[k - 1] = Cardinality(S) /\ k \in 0..n
    BY <1>6
  <2>2. Upto(k) = S \cup T
    <3>1. \A i \in 1..k : i = k \/ i \in 1..k - 1
      OBVIOUS
    <3>2. k \in 1..k /\ \A i \in 1..k - 1 : i \in 1..k
      OBVIOUS
    <3>3. QED
      BY <3>1, <3>2
  <2>3. IsFiniteSet(T) /\ Cardinality(T) = Length(v[k])
    <3> DEFINE a == v[k].start
               b == v[k].end
               z == b - 1
    <3>1. a \in Int /\ b \in Int /\ a < b
      BY <1>1
    <3>2. Cells(v[k]) = a..z /\ Length(v[k]) = b - a
      BY DEF Cells, Length
    <3> HIDE DEF a, b
    <3>3. z \in Int /\ z >= a /\ z - a + 1 = b - a
      BY <3>1
    <3> HIDE DEF z
    <3>4. IsFiniteSet(a..z) /\ Cardinality(a..z) = IF a > z THEN 0 ELSE z - a + 1
      BY <3>1, <3>3, FS_Interval
    <3>5. Cardinality(a..z) = z - a + 1
      BY <3>1, <3>3, <3>4
    <3>6. QED
      BY <3>2, <3>3, <3>4, <3>5
  <2>4. S \cap T = {}
    <3>1. ASSUME NEW c \in T, NEW i \in 1..k - 1, c \in Cells(v[i]) PROVE FALSE
      <4>1. i \in 1..n /\ i < k /\ k \in 1..n
        BY <1>1
      <4>2. v[i].end < v[k].start
        BY <1>1, <4>1
      <4>3. c \in Int /\ c <= v[i].end - 1 /\ v[k].start <= c
        <5> DEFINE a == v[k].start
                   b == v[k].end
                   e == v[i].end
                   s == v[i].start
        <5>1. a \in Int /\ b \in Int /\ e \in Int /\ s \in Int
          BY <1>1, <4>1
        <5>2. c \in a..b - 1 /\ c \in s..e - 1
          BY <3>1 DEF Cells
        <5> HIDE DEF a, b, e, s
        <5>3. c \in Int /\ c <= e - 1 /\ a <= c
          BY <5>1, <5>2
        <5>4. QED
          BY <5>3 DEF a, e
      <4>4. QED
        BY <1>1, <4>1, <4>2, <4>3
    <3>2. QED
      BY <3>1
  <2> HIDE DEF S, T, Upto
  <2>5. /\ IsFiniteSet(Upto(k))
        /\ Cardinality(Upto(k)) = Cardinality(S) + Cardinality(T) - Cardinality(S \cap T)
    BY <2>1, <2>2, <2>3, FS_Union
  <2>6. Cardinality(S \cap T) = 0 /\ Cardinality(S) \in Nat /\ Cardinality(T) \in Nat
    BY <2>1, <2>3, <2>4, FS_EmptySet, FS_CardinalityType
  <2>7. Cardinality(Upto(k)) = g[k - 1] + Length(v[k])
    BY <2>1, <2>3, <2>5, <2>6
  <2>8. QED
    BY <1>4, <2>1, <2>5, <2>7
<1>7. n \in D
  <2> HIDE DEF D
  <2>1. 0..n \subseteq D
    BY <1>1, <1>5, <1>6, UpTo
  <2>2. QED
    BY <1>1, <2>1
<1>8. Upto(n) = Covered(v)
  BY <1>1 DEF Covered
<1>9. QED
  BY <1>3, <1>7, <1>8

\* What the filter makes of the loud frames.
Filtered == PostProcess(RmsSpans(loud, Samples \div Frame, Frame), Samples, MinSpeech, Pad)
\* The filter returns tidy spans that cover exactly the speech.
LEMMA FilteredIsTidy ==
  ASSUME loud \in SUBSET (0..(Samples \div Frame) - 1)
  PROVE  AreTidy(Filtered, 0, Samples) /\ Covered(Filtered) = Speech
<1> DEFINE n == Samples \div Frame
           r == RmsSpans(loud, n, Frame)
           long == AtLeast(MinSpeech, r)
           padded == [i \in DOMAIN long |-> Padded(long[i], Samples, Pad)]
           zs == InOrder(padded)
           m == Len(long)
           near(x, c) == x.start - Pad <= c /\ c < x.end + Pad /\ 0 <= c /\ c < Samples
<1>1. /\ Samples \in Nat /\ Frame \in Nat \ {0} /\ Pad \in Nat /\ MinSpeech \in Nat
      /\ n \in Nat /\ n * Frame <= Samples /\ n * Frame \in Int
  BY AudioAssumption, Divided
<1> HIDE DEF n
<1>2. loud \in SUBSET (0..n - 1)
  BY DEF n
<1>3. AreRuns(r, loud, n, Frame) /\ AreTidy(r, 0, n * Frame)
  BY <1>1, <1>2, RmsRuns, RunsTidy
<1> HIDE DEF r
<1>4. r \in Seq(SpanType) /\ Len(r) \in Nat /\ DOMAIN r = 1..Len(r)
      /\ \A i \in 1..Len(r) : r[i] \in SpanType /\ r[i].start \in Int /\ r[i].end \in Int
  BY <1>3, LenProperties, ElementOfSeq, SpanFacts DEF AreTidy
<1>5. AreTidy(long, 0, n * Frame)
  BY <1>3, AtLeastTidy
<1>6. PICK at : IsPick(at, m, Long(MinSpeech, r), r)
  BY <1>4, AtLeastIs
<1>7. /\ \A k \in 1..m : \E i \in 1..Len(r) : long[k] = r[i] /\ Length(r[i]) >= MinSpeech
      /\ \A i \in 1..Len(r) : Length(r[i]) >= MinSpeech => \E k \in 1..m : long[k] = r[i]
  <2>1. /\ at \in [1..m -> Long(MinSpeech, r)] /\ long = [k \in 1..m |-> r[at[k]]]
        /\ \A i \in Long(MinSpeech, r) : \E k \in 1..m : at[k] = i
    BY <1>6 DEF IsPick, AtLeast, Long
  <2>2. \A i : i \in Long(MinSpeech, r) <=> i \in 1..Len(r) /\ Length(r[i]) >= MinSpeech
    BY <1>4 DEF Long
  <2> HIDE DEF long, m
  <2>3. \A k \in 1..m : long[k] = r[at[k]] /\ at[k] \in Long(MinSpeech, r)
    BY <2>1
  <2>4. QED
    BY <2>1, <2>2, <2>3
<1> HIDE DEF long
<1>8. /\ m \in Nat /\ DOMAIN long = 1..m
      /\ \A k \in 1..m : /\ long[k] \in SpanType /\ long[k].start \in Int /\ long[k].end \in Int
                         /\ 0 <= long[k].start /\ long[k].start < long[k].end /\ long[k].end <= n * Frame
  BY <1>5, LenProperties, ElementOfSeq, SpanFacts DEF AreTidy
<1> HIDE DEF m
<1>9. padded = [k \in 1..m |-> Padded(long[k], Samples, Pad)]
  BY <1>8
<1> HIDE DEF padded
<1>10. ASSUME NEW k \in 1..m
       PROVE  /\ padded[k] \in SpanType /\ 0 <= padded[k].start /\ padded[k].start < padded[k].end
              /\ padded[k].end <= Samples
              /\ \A c \in Int : c \in Cells(padded[k]) <=> near(long[k], c)
  <2> DEFINE s == Higher(0, long[k].start - Pad)
             e == Lower(Samples, long[k].end + Pad)
  <2>0. ASSUME NEW a \in Int, NEW b \in Int, 0 <= a, b <= Samples
        PROVE  /\ Higher(0, a - Pad) \in Int /\ Lower(Samples, b + Pad) \in Int
               /\ 0 <= Higher(0, a - Pad) /\ Higher(0, a - Pad) <= a
               /\ b <= Lower(Samples, b + Pad) /\ Lower(Samples, b + Pad) <= Samples
               /\ \A c \in Int : Higher(0, a - Pad) <= c <=> 0 <= c /\ a - Pad <= c
               /\ \A c \in Int : c < Lower(Samples, b + Pad) <=> c < Samples /\ c < b + Pad
    BY <1>1, <2>0 DEF Higher, Lower
  <2>a. long[k].end <= Samples
    BY <1>1, <1>8
  <2>1. /\ s \in Int /\ e \in Int /\ 0 <= s /\ s <= long[k].start /\ e <= Samples
        /\ \A c \in Int : s <= c <=> 0 <= c /\ long[k].start - Pad <= c
        /\ \A c \in Int : c < e <=> c < Samples /\ c < long[k].end + Pad
    BY <1>8, <2>0, <2>a
  <2>2. long[k].end <= e
    BY <1>8, <2>0, <2>a
  <2>3. padded[k] = Span(s, e)
    BY <1>9 DEF Padded
  <2> HIDE DEF s, e
  <2>4. padded[k] \in SpanType /\ padded[k].start = s /\ padded[k].end = e
    BY <2>1, <2>3, SpanIs
  <2>5. \A c \in Int : c \in Cells(padded[k]) <=> s <= c /\ c < e
    BY <2>4, SpanFacts
  <2>6. s < e
    BY <1>8, <2>1, <2>2
  <2>7. QED
    BY <2>1, <2>4, <2>5, <2>6
<1>11. padded \in Seq(SpanType) /\ Len(padded) = m
  <2>1. padded = [k \in 1..m |-> padded[k]]
    BY <1>9
  <2>2. QED
    BY <1>8, <1>10, <2>1, SeqDef
<1>12. /\ IsShuffle(zs, padded)
       /\ \A j, k \in 1..m : j < k => zs[j].start <= zs[k].start
  BY <1>11, InOrderSorts
<1> HIDE DEF zs
<1>13. /\ zs \in Seq(SpanType) /\ Len(zs) = m
       /\ \A j \in 1..m : \E k \in 1..m : zs[k] = padded[j]
       /\ \A k \in 1..m : \E j \in 1..m : zs[k] = padded[j]
  BY <1>11, <1>12 DEF IsShuffle
<1>14. Filtered = FoldLeft(Meet, <<>>, zs)
  BY DEF Filtered, PostProcess, zs, padded, long, r, n
<1>15. MetUpTo(Filtered, zs, m, 0, Samples)
  <2>1. \A k \in 1..m : 0 <= zs[k].start /\ zs[k].start < zs[k].end /\ zs[k].end <= Samples
    BY <1>10, <1>13
  <2>2. 0 \in Int /\ Samples \in Int
    BY <1>1
  <2>3. QED
    BY <1>12, <1>13, <1>14, <2>1, <2>2, SpansMeet
<1>16. AreTidy(Filtered, 0, Samples)
  BY <1>15 DEF MetUpTo
<1>17. DOMAIN Filtered = 1..Len(Filtered) /\ \A i \in 1..Len(Filtered) : Filtered[i] \in SpanType
  BY <1>16, LenProperties, ElementOfSeq DEF AreTidy
<1>18. Covered(Filtered) \subseteq Int
  BY <1>17, SpanFacts DEF Covered, Cells
<1>19. ASSUME NEW c \in Int
       PROVE  c \in Covered(Filtered) <=> \E k \in 1..m : near(long[k], c)
  <2>1. c \in Covered(Filtered) <=> \E i \in 1..Len(Filtered) : c \in Cells(Filtered[i])
    BY <1>17 DEF Covered
  <2>2. (\E i \in 1..Len(Filtered) : c \in Cells(Filtered[i])) <=> \E k \in 1..m : c \in Cells(zs[k])
    BY <1>15 DEF MetUpTo
  <2>3. (\E k \in 1..m : c \in Cells(zs[k])) <=> \E k \in 1..m : c \in Cells(padded[k])
    BY <1>13
  <2>4. QED
    BY <1>10, <2>1, <2>2, <2>3
<1>20. ASSUME NEW c \in Int
       PROVE  c \in Speech <=> /\ 0 <= c /\ c < Samples
                               /\ \E a, b \in 0..n : /\ IsRun(a, b) /\ a * Frame - Pad <= c
                                                     /\ c < b * Frame + Pad
  <2>1. Frames = 0..n
    BY DEF Frames, n
  <2>2. \A a, b \in 0..n : /\ a * Frame - Pad \in Int /\ b * Frame + Pad \in Int
                           /\ c \in a * Frame - Pad..b * Frame + Pad - 1 <=>
                                a * Frame - Pad <= c /\ c < b * Frame + Pad
    <3>1. ASSUME NEW a \in 0..n, NEW b \in 0..n
          PROVE  /\ a * Frame - Pad \in Int /\ b * Frame + Pad \in Int
                 /\ c \in a * Frame - Pad..b * Frame + Pad - 1 <=>
                      a * Frame - Pad <= c /\ c < b * Frame + Pad
      <4> DEFINE s == a * Frame
                 e == b * Frame
      <4>1. s \in Int /\ e \in Int
        BY <1>1
      <4> HIDE DEF s, e
      <4>2. /\ s - Pad \in Int /\ e + Pad \in Int
            /\ c \in s - Pad..e + Pad - 1 <=> s - Pad <= c /\ c < e + Pad
        BY <1>1, <4>1
      <4>3. QED
        BY <4>2 DEF s, e
    <3>2. QED
      BY <3>1
  <2>3. c \in Speech <=> /\ c \in 0..Samples - 1
                         /\ \E a, b \in 0..n : /\ IsRun(a, b)
                                               /\ c \in a * Frame - Pad..b * Frame + Pad - 1
    <3> DEFINE R == {q \in (0..n) \X (0..n) : IsRun(q[1], q[2])}
    <3>1. Speech = (UNION {q[1] * Frame - Pad..q[2] * Frame + Pad - 1 : q \in R}) \cap (0..Samples - 1)
      BY <2>1 DEF Speech
    <3>2. ASSUME NEW q \in R, c \in q[1] * Frame - Pad..q[2] * Frame + Pad - 1
          PROVE  \E a, b \in 0..n : IsRun(a, b) /\ c \in a * Frame - Pad..b * Frame + Pad - 1
      BY <3>2
    <3>3. ASSUME NEW a \in 0..n, NEW b \in 0..n, IsRun(a, b), c \in a * Frame - Pad..b * Frame + Pad - 1
          PROVE  \E q \in R : c \in q[1] * Frame - Pad..q[2] * Frame + Pad - 1
      <4>1. <<a, b>> \in R /\ <<a, b>>[1] = a /\ <<a, b>>[2] = b
        BY <3>3
      <4>2. QED
        BY <3>3, <4>1
    <3> DEFINE U == UNION {q[1] * Frame - Pad..q[2] * Frame + Pad - 1 : q \in R}
    <3>4. c \in U <=> \E q \in R : c \in q[1] * Frame - Pad..q[2] * Frame + Pad - 1
      BY Zenon
    <3>5. c \in Speech <=> c \in U /\ c \in 0..Samples - 1
      BY <3>1
    <3> HIDE DEF R, U
    <3>6. QED
      BY <3>2, <3>3, <3>4, <3>5
  <2>4. c \in 0..Samples - 1 <=> 0 <= c /\ c < Samples
    BY <1>1
  <2>5. QED
    BY <2>2, <2>3, <2>4
<1>21. ASSUME NEW a \in 0..n, NEW b \in 0..n
       PROVE  /\ Span(a * Frame, b * Frame).start = a * Frame /\ Span(a * Frame, b * Frame).end = b * Frame
              /\ IsRun(a, b) <=> /\ IsMaxRun(loud, a, b)
                                 /\ Length(Span(a * Frame, b * Frame)) >= MinSpeech
  <2>1. a * Frame \in Int /\ b * Frame \in Int /\ (b - a) * Frame = b * Frame - a * Frame
    BY <1>1
  <2>2. Span(a * Frame, b * Frame).start = a * Frame /\ Span(a * Frame, b * Frame).end = b * Frame
    BY <2>1, SpanIs
  <2>3. Length(Span(a * Frame, b * Frame)) = (b - a) * Frame
    BY <2>1, <2>2 DEF Length
  <2>4. QED
    BY <2>2, <2>3 DEF IsRun, IsMaxRun
<1>22. ASSUME NEW c \in Int
       PROVE  (\E k \in 1..m : near(long[k], c)) <=> c \in Speech
  <2>1. ASSUME NEW k \in 1..m, near(long[k], c) PROVE c \in Speech
    <3>1. PICK i \in 1..Len(r) : long[k] = r[i] /\ Length(r[i]) >= MinSpeech
      BY <1>7
    <3>2. PICK a, b \in 0..n : r[i] = Span(a * Frame, b * Frame) /\ IsMaxRun(loud, a, b)
      BY <1>3 DEF AreRuns
    <3>3. IsRun(a, b) /\ a * Frame - Pad <= c /\ c < b * Frame + Pad /\ 0 <= c /\ c < Samples
      BY <1>21, <2>1, <3>1, <3>2
    <3>4. QED
      BY <1>20, <3>3
  <2>2. ASSUME c \in Speech PROVE \E k \in 1..m : near(long[k], c)
    <3>1. 0 <= c /\ c < Samples
      BY <1>20, <2>2
    <3>2. PICK a, b \in 0..n : IsRun(a, b) /\ a * Frame - Pad <= c /\ c < b * Frame + Pad
      BY <1>20, <2>2
    <3>3. IsMaxRun(loud, a, b) /\ Length(Span(a * Frame, b * Frame)) >= MinSpeech
      BY <1>21, <3>2
    <3>4. PICK i \in 1..Len(r) : r[i] = Span(a * Frame, b * Frame)
      BY <1>3, <3>3 DEF AreRuns
    <3>5. PICK k \in 1..m : long[k] = r[i]
      BY <1>7, <3>3, <3>4
    <3>6. near(long[k], c)
      BY <1>21, <3>1, <3>2, <3>4, <3>5
    <3>7. QED
      BY <3>6
  <2>3. QED
    BY <2>1, <2>2
<1>23. Speech \subseteq Int
  <2> DEFINE I == 0..Samples - 1
  <2>1. Speech \subseteq I
    <3> HIDE DEF I
    <3>1. QED
      BY DEF Speech, I
  <2>2. I \subseteq Int
    BY <1>1
  <2>3. QED
    BY <2>1, <2>2
<1>24. Covered(Filtered) = Speech
  BY <1>18, <1>19, <1>22, <1>23
<1>25. QED
  BY <1>16, <1>24

\* The frames heard are the audio's; what the filter was not called for it has
\* not touched, and what it returns is what it makes of the loud frames.
SpeechInv ==
  /\ loud \in SUBSET (0..(Samples \div Frame) - 1)
  /\ \/ loud = {} /\ speech = <<>>
     \/ stage = "filter"
     \/ stage = "done" /\ speech = Filtered

\* Only Extract changes what the filter returned.
LEMMA SpeechInvHolds == RunSpec => []SpeechInv
<1>1. RunInit => SpeechInv
  BY DEF RunInit, SpeechInv
<1>2. ASSUME SpeechInv, [RunNext]_runvars PROVE SpeechInv'
  <2> USE DEF early, late, temps
  <2>1. CASE Extract
    BY <1>2, <2>1 DEF Extract, SpeechInv, Filtered
  <2>2. CASE Run \/ Delete
    <3>1. stage # "filter" /\ stage # "done" /\ loud' = loud /\ speech' = speech
      <4>1. CASE Recognized \/ Convert \/ Diarize
        BY <4>1 DEF Recognized, Convert, Diarize
      <4>2. CASE DiarizeFails \/ Align \/ Resolve
        BY <4>2 DEF DiarizeFails, Align, Resolve, Primary
      <4>3. CASE Apply \/ DiarizeSecond \/ Enroll
        BY <4>3 DEF Apply, DiarizeSecond, Enroll
      <4>4. CASE Delete
        BY <4>4 DEF Delete
      <4>5. QED
        BY <2>2, <4>1, <4>2, <4>3, <4>4 DEF Run
    <3>2. QED
      BY <1>2, <3>1 DEF SpeechInv
  <2>3. CASE UNCHANGED runvars
    BY <1>2, <2>3 DEF SpeechInv, Filtered, runvars
  <2>4. QED
    BY <1>2, <2>1, <2>2, <2>3 DEF RunNext
<1>3. QED
  BY <1>1, <1>2, PTL DEF RunSpec

\* What the filter returns is in order, apart from each other, and exactly the
\* speech, each tick of it counted once (extract_speech_windows, _rms_spans,
\* _post_process, speech_coverage), for audio of any length, any loud frames and
\* any frame, padding and shortest length of speech.
THEOREM TidySpeech == RunSpec => []TidySpans
<1>1. ASSUME SpeechInv, stage = "done" /\ transcript = <<>>
      PROVE  /\ Covered(speech) = Speech
             /\ \A i, j \in DOMAIN speech : i < j => speech[i].end < speech[j].start
             /\ SpeechCoverage(speech, Samples) = Cardinality(Speech)
  <2> DEFINE v == speech
  <2>1. /\ loud \in SUBSET (0..(Samples \div Frame) - 1)
        /\ (loud = {} /\ v = <<>>) \/ v = Filtered
    BY <1>1 DEF SpeechInv
  <2>2. Samples \in Nat /\ 0 <= Samples
    BY AudioAssumption
  <2>3. AreTidy(v, 0, Samples) /\ Covered(v) = Speech
    <3>1. CASE loud = {} /\ v = <<>>
      <4>1. AreTidy(<<>>, 0, Samples) /\ Covered(<<>>) = {}
        BY EmptySeq DEF AreTidy, Covered
      <4>2. \A a, b \in Frames : ~IsRun(a, b)
        <5>1. ASSUME NEW a \in Frames, NEW b \in Frames, IsRun(a, b) PROVE FALSE
          <6>1. a \in Int /\ b \in Int
            BY DEF Frames
          <6>2. a \in a..b - 1
            BY <5>1, <6>1 DEF IsRun
          <6>3. QED
            BY <3>1, <5>1, <6>2 DEF IsRun
        <5>2. QED
          BY <5>1
      <4>3. Speech = {}
        BY <4>2 DEF Speech
      <4>4. QED
        BY <3>1, <4>1, <4>3
    <3>2. CASE v = Filtered
      BY <2>1, <3>2, FilteredIsTidy
    <3>3. QED
      BY <2>1, <3>1, <3>2
  <2> HIDE DEF v
  <2>4. SpeechCoverage(v, Samples) = Lower(Samples, Cardinality(Speech))
    BY <2>3, TidyLength
  <2>5. Cardinality(Speech) <= Samples /\ Cardinality(Speech) \in Nat
    <3> DEFINE I == 0..Samples - 1
               z == Samples - 1
    <3>1. Speech \subseteq I
      <4> HIDE DEF I
      <4>1. QED
        BY DEF Speech, I
    <3>2. z \in Int /\ z - 0 + 1 = Samples /\ (0 > z => Samples = 0)
      BY <2>2
    <3>3. I = 0..z
      OBVIOUS
    <3> HIDE DEF I, z
    <3>4. IsFiniteSet(I) /\ Cardinality(I) = IF 0 > z THEN 0 ELSE z - 0 + 1
      BY <3>2, <3>3, FS_Interval
    <3>5. Cardinality(I) = Samples
      BY <3>2, <3>4
    <3>6. IsFiniteSet(Speech) /\ Cardinality(Speech) <= Cardinality(I)
      BY <3>1, <3>4, FS_Subset
    <3>7. QED
      BY <3>5, <3>6, FS_CardinalityType
  <2>6. SpeechCoverage(v, Samples) = Cardinality(Speech)
    BY <2>2, <2>4, <2>5 DEF Lower
  <2>7. DOMAIN v = 1..Len(v)
    BY <2>3, LenProperties DEF AreTidy
  <2>8. QED
    BY <2>3, <2>6, <2>7 DEF AreTidy, v
<1>2. SpeechInv => TidySpans
  BY <1>1 DEF TidySpans
<1>3. QED
  BY SpeechInvHolds, <1>2, PTL
=============================================================================
