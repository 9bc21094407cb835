----------------------------- MODULE Drift_proofs -----------------------------
(***************************************************************************)
(* Proofs about training and about the statistics of a commit, for every   *)
(* set of rows, every number of centroids and centers and every capacity   *)
(* of the sample: no row seeds two centroids, no iteration represents the  *)
(* rows worse, a training that stops early stopped at a fixpoint, and a    *)
(* trained model is saved and read back.                                   *)
(***************************************************************************)
EXTENDS Drift, TLAPS, FiniteSetTheorems, SequenceTheorems, WellFoundedInduction

-----------------------------------------------------------------------------
(* Least and greatest elements. *)

\* A set of naturals that is not empty has a least element.
LEMMA LeastNatural ==
    ASSUME NEW T, T \subseteq Nat, T # {}
    PROVE  \E x \in T : \A y \in T : ~ (y < x)
  <1> DEFINE R == {ss \in Nat \X Nat : ss[1] < ss[2]}
  <1>0. IsWellFoundedOn(R, Nat)
    BY NatLessThanWellFounded DEF OpToRel
  <1> HIDE DEF R
  <1>1. PICK x \in T : \A y \in T : ~ (<<y, x>> \in R)
    BY <1>0, WFMin
  <1>2. ASSUME NEW y \in T, y < x PROVE <<y, x>> \in R
    BY <1>2 DEF R
  <1>3. QED
    BY <1>1, <1>2

\* The least and the greatest of some of the first naturals.
LEMMA MinIs ==
    ASSUME NEW d, d \subseteq Nat, d # {}
    PROVE  Min(d) \in d /\ \A y \in d : Min(d) <= y
  <1>1. PICK x \in d : \A y \in d : ~ (y < x)
    BY LeastNatural
  <1>2. \A y \in d : x <= y
    BY <1>1
  <1>3. QED
    BY <1>2 DEF Min

LEMMA MaxIs ==
    ASSUME NEW n \in Nat, NEW d \in SUBSET (1 .. n), d # {}
    PROVE  Max(d) \in d /\ \A y \in d : Max(d) >= y
  <1> DEFINE T == {n - x : x \in d}
  <1>1. T \subseteq Nat /\ T # {}
    <2>1. \A x \in d : n - x \in Nat
      BY SMT
    <2>2. QED
      BY <2>1
  <1> HIDE DEF T
  <1>2. PICK k \in T : \A y \in T : ~ (y < k)
    BY <1>1, LeastNatural
  <1>3. PICK x \in d : k = n - x
    BY DEF T
  <1>4. \A y \in d : x >= y
    <2>1. TAKE y \in d
    <2>2. n - y \in T
      BY DEF T
    <2>3. ~ (n - y < n - x)
      BY <1>2, <1>3, <2>2
    <2>4. QED
      BY <2>3
  <1>5. QED
    BY <1>4 DEF Max

\* Finitely many integers have a lower bound.
LEMMA BoundedBelow ==
    ASSUME NEW n \in Nat, NEW f, \A i \in 1 .. n : f[i] \in Int
    PROVE  \E b \in Int : \A i \in 1 .. n : b <= f[i]
  <1> DEFINE Bad == {k \in 0 .. n : ~ \E b \in Int : \A i \in 1 .. k : b <= f[i]}
  <1>1. Bad = {}
    <2>1. SUFFICES ASSUME Bad # {} PROVE FALSE
      OBVIOUS
    <2>2. PICK k \in Bad : \A y \in Bad : ~ (y < k)
      <3>1. Bad \subseteq Nat
        BY SMT
      <3> HIDE DEF Bad
      <3>2. QED
        BY <2>1, <3>1, LeastNatural
    <2>3. k \in 0 .. n /\ ~ \E b \in Int : \A i \in 1 .. k : b <= f[i]
      BY <2>2
    <2>4. CASE k = 0
      <3>1. 0 \in Int /\ \A i \in 1 .. k : 0 <= f[i]
        BY <2>4
      <3>2. QED
        BY <2>3, <3>1
    <2>5. CASE k # 0
      <3>1. k - 1 \in 0 .. n /\ k - 1 < k
        BY <2>3, <2>5
      <3>2. PICK b \in Int : \A i \in 1 .. k - 1 : b <= f[i]
        BY <2>2, <3>1
      <3>3. f[k] \in Int
        BY <2>3, <2>5
      <3> DEFINE c == IF f[k] < b THEN f[k] ELSE b
      <3>4. c \in Int /\ c <= f[k] /\ c <= b
        BY <3>3
      <3> HIDE DEF c
      <3>5. \A i \in 1 .. k : c <= f[i]
        <4>1. TAKE i \in 1 .. k
        <4>2. CASE i = k
          BY <3>4, <4>2
        <4>3. CASE i # k
          <5>1. i \in 1 .. k - 1 /\ f[i] \in Int
            BY <2>3, <4>3
          <5>2. QED
            BY <3>2, <3>4, <5>1
        <4>4. QED
          BY <4>2, <4>3
      <3>6. QED
        BY <2>3, <3>4, <3>5
    <2>6. QED
      BY <2>4, <2>5
  <1>2. n \in 0 .. n
    OBVIOUS
  <1>3. QED
    BY <1>1, <1>2

\* So one of some of them is the least.
LEMMA HasLeast ==
    ASSUME NEW n \in Nat, NEW D \in SUBSET (1 .. n), D # {},
           NEW f, \A i \in D : f[i] \in Int
    PROVE  \E m \in D : \A i \in D : f[m] <= f[i]
  <1> DEFINE g == [i \in 1 .. n |-> IF i \in D THEN f[i] ELSE 0]
  <1>1. \A i \in 1 .. n : g[i] \in Int
    OBVIOUS
  <1>2. \A i \in D : g[i] = f[i]
    OBVIOUS
  <1> HIDE DEF g
  <1>3. PICK b \in Int : \A i \in 1 .. n : b <= g[i]
    BY <1>1, BoundedBelow
  <1>4. \A i \in D : f[i] \in Int /\ b <= f[i]
    BY <1>2, <1>3
  <1> DEFINE T == {f[i] - b : i \in D}
  <1>5. T \subseteq Nat /\ T # {}
    <2>1. \A i \in D : f[i] - b \in Nat
      BY <1>4
    <2>2. QED
      BY <2>1
  <1> HIDE DEF T
  <1>6. PICK k \in T : \A y \in T : ~ (y < k)
    BY <1>5, LeastNatural
  <1>7. PICK m \in D : k = f[m] - b
    BY DEF T
  <1>8. \A i \in D : f[m] <= f[i]
    <2>1. TAKE i \in D
    <2>2. f[i] - b \in T
      BY DEF T
    <2>3. ~ (f[i] - b < f[m] - b)
      BY <1>6, <1>7, <2>2
    <2>4. QED
      BY <1>4, <2>3
  <1>9. QED
    BY <1>8

\* FirstLeast finds one.
LEMMA FirstLeastIs ==
    ASSUME NEW n \in Nat, NEW f, DOMAIN f \in SUBSET (1 .. n), DOMAIN f # {},
           \A i \in DOMAIN f : f[i] \in Int
    PROVE  FirstLeast(f) \in DOMAIN f /\ \A j \in DOMAIN f : f[FirstLeast(f)] <= f[j]
  <1> DEFINE D == DOMAIN f
  <1>1. PICK m \in D : \A i \in D : f[m] <= f[i]
    BY HasLeast
  <1> DEFINE T == {i \in D : f[i] = f[m]}
  <1>2. T \subseteq Nat /\ T # {}
    OBVIOUS
  <1>3. PICK k \in T : \A y \in T : ~ (y < k)
    <2> HIDE DEF T
    <2>1. QED
      BY <1>2, LeastNatural
  <1>4. \A j \in D : f[k] < f[j] \/ (f[k] = f[j] /\ k <= j)
    <2>1. TAKE j \in D
    <2>2. f[m] <= f[j] /\ f[m] \in Int /\ f[j] \in Int /\ f[k] = f[m] /\ k \in Nat /\ j \in Nat
      BY <1>1, <1>3
    <2>3. CASE f[j] = f[m]
      <3>1. ~ (j < k)
        BY <1>3, <2>3
      <3>2. QED
        BY <2>2, <2>3, <3>1
    <2>4. CASE f[j] # f[m]
      BY <2>2, <2>4
    <2>5. QED
      BY <2>3, <2>4
  <1>5. k \in D
    BY <1>3
  <1> DEFINE First(i) == \A j \in D : f[i] < f[j] \/ (f[i] = f[j] /\ i <= j)
  <1>6. FirstLeast(f) \in D /\ First(FirstLeast(f))
    <2>1. First(k)
      BY <1>4
    <2>2. FirstLeast(f) = CHOOSE i \in D : First(i)
      BY DEF FirstLeast
    <2> HIDE DEF First, D
    <2>3. QED
      BY <1>5, <2>1, <2>2
  <1>7. \A j \in D : f[FirstLeast(f)] <= f[j]
    <2>1. TAKE j \in D
    <2>2. f[FirstLeast(f)] \in Int /\ f[j] \in Int
      BY <1>6
    <2>3. f[FirstLeast(f)] < f[j] \/ f[FirstLeast(f)] = f[j]
      BY <1>6
    <2>4. QED
      BY <2>2, <2>3
  <1>8. QED
    BY <1>6, <1>7

-----------------------------------------------------------------------------
(* Sums of errors, and the row a threshold selects. *)

\* g holds the sums of the first n values of f.
Sums(g, f, n) ==
    /\ g \in [0 .. n -> Int]
    /\ g[0] = 0
    /\ \A i \in 1 .. n : g[i] = g[i - 1] + f[i]

LEMMA SumsExist ==
    ASSUME NEW n \in Nat, NEW f, \A i \in 1 .. n : f[i] \in Int
    PROVE  \E g : Sums(g, f, n)
  <1> DEFINE Bad == {k \in 0 .. n : ~ \E g : Sums(g, f, k)}
  <1>1. Bad = {}
    <2>1. SUFFICES ASSUME Bad # {} PROVE FALSE
      OBVIOUS
    <2>2. PICK k \in Bad : \A y \in Bad : ~ (y < k)
      <3>1. Bad \subseteq Nat
        BY SMT
      <3> HIDE DEF Bad
      <3>2. QED
        BY <2>1, <3>1, LeastNatural
    <2>3. k \in 0 .. n /\ ~ \E g : Sums(g, f, k)
      BY <2>2
    <2>4. CASE k = 0
      <3> DEFINE g == [i \in 0 .. 0 |-> 0]
      <3>1. Sums(g, f, 0)
        BY DEF Sums
      <3>2. QED
        BY <2>3, <2>4, <3>1
    <2>5. CASE k # 0
      <3>1. k - 1 \in 0 .. n /\ k - 1 < k /\ k \in Nat /\ k >= 1
        BY <2>3, <2>5
      <3>2. PICK h : Sums(h, f, k - 1)
        BY <2>2, <3>1
      <3>3. f[k] \in Int /\ h[k - 1] \in Int
        BY <2>3, <2>5, <3>1, <3>2 DEF Sums
      <3> DEFINE g == [i \in 0 .. k |-> IF i = k THEN h[k - 1] + f[k] ELSE h[i]]
      <3>4. g \in [0 .. k -> Int]
        <4>1. \A i \in 0 .. k : i # k => h[i] \in Int
          BY <3>1, <3>2 DEF Sums
        <4>2. QED
          BY <3>3, <4>1
      <3>5. g[0] = 0
        BY <3>1, <3>2 DEF Sums
      <3>6. ASSUME NEW i \in 1 .. k PROVE g[i] = g[i - 1] + f[i]
        <4>1. CASE i = k
          BY <3>1, <4>1
        <4>2. CASE i # k
          <5>1. i \in 1 .. k - 1 /\ i - 1 \in 0 .. k /\ i - 1 # k /\ i \in 0 .. k
            BY <3>1, <4>2
          <5>2. h[i] = h[i - 1] + f[i]
            BY <3>2, <5>1 DEF Sums
          <5>3. QED
            BY <4>2, <5>1, <5>2
        <4>3. QED
          BY <4>1, <4>2
      <3> HIDE DEF g
      <3>7. Sums(g, f, k)
        BY <3>4, <3>5, <3>6 DEF Sums
      <3>8. QED
        BY <2>3, <3>7
    <2>6. QED
      BY <2>4, <2>5
  <1>2. n \in 0 .. n
    OBVIOUS
  <1>3. QED
    BY <1>1, <1>2

\* That is what PartialSums computes.
LEMMA PartialSumsIs ==
    ASSUME NEW f, Len(f) \in Nat, \A i \in 1 .. Len(f) : f[i] \in Int
    PROVE  Sums(PartialSums(f), f, Len(f))
  <1> DEFINE n == Len(f)
             Adds(sum) == sum = [i \in 0 .. n |-> IF i = 0 THEN 0 ELSE sum[i - 1] + f[i]]
  <1>1. PartialSums(f) = CHOOSE sum : Adds(sum)
    BY DEF PartialSums
  <1>2. n \in Nat /\ \A i \in 1 .. n : f[i] \in Int
    OBVIOUS
  <1> HIDE DEF n
  <1>3. PICK g : Sums(g, f, n)
    BY <1>2, SumsExist
  <1>4. g = [i \in 0 .. n |-> IF i = 0 THEN 0 ELSE g[i - 1] + f[i]]
    <2>1. \A i \in 0 .. n : g[i] = IF i = 0 THEN 0 ELSE g[i - 1] + f[i]
      BY <1>2, <1>3 DEF Sums
    <2>2. g \in [0 .. n -> Int]
      BY <1>3 DEF Sums
    <2>3. QED
      BY <2>1, <2>2
  <1>5. ASSUME NEW h, Adds(h) PROVE Sums(h, f, n)
    <2>1. h[0] = 0
      BY <1>2, <1>5
    <2>2. \A i \in 1 .. n : h[i] = h[i - 1] + f[i]
      BY <1>2, <1>5
    <2>3. DOMAIN h = 0 .. n
      BY <1>5
    <2>4. \A i \in 0 .. n : h[i] \in Int
      <3> DEFINE Bad == {k \in 0 .. n : h[k] \notin Int}
      <3>1. SUFFICES ASSUME Bad # {} PROVE FALSE
        OBVIOUS
      <3>2. PICK k \in Bad : \A y \in Bad : ~ (y < k)
        <4>1. Bad \subseteq Nat
          BY <1>2, SMT
        <4> HIDE DEF Bad
        <4>2. QED
          BY <3>1, <4>1, LeastNatural
      <3>3. k \in 0 .. n /\ h[k] \notin Int
        BY <3>2
      <3>4. k # 0 /\ k \in 1 .. n
        BY <1>2, <2>1, <3>3
      <3>5. k - 1 \in 0 .. n /\ k - 1 < k
        BY <1>2, <3>4
      <3>6. h[k - 1] \in Int
        BY <3>2, <3>5
      <3>7. h[k] \in Int
        BY <1>2, <2>2, <3>4, <3>6
      <3>8. QED
        BY <3>3, <3>7
    <2>5. h = [i \in 0 .. n |-> h[i]]
      BY <1>5
    <2>6. h \in [0 .. n -> Int]
      BY <2>4, <2>5
    <2>7. QED
      BY <2>1, <2>2, <2>6 DEF Sums
  <1>6. Adds(g)
    BY <1>4
  <1> HIDE DEF Adds
  <1>7. Adds(PartialSums(f))
    BY <1>1, <1>6
  <1>8. QED
    BY <1>5, <1>7 DEF n

\* Sums of naturals are naturals.
LEMMA SumsNatural ==
    ASSUME NEW n \in Nat, NEW f, \A i \in 1 .. n : f[i] \in Nat, NEW g, Sums(g, f, n)
    PROVE  \A i \in 0 .. n : g[i] \in Nat
  <1> DEFINE Bad == {k \in 0 .. n : g[k] \notin Nat}
  <1>1. SUFFICES ASSUME Bad # {} PROVE FALSE
    OBVIOUS
  <1>2. PICK k \in Bad : \A y \in Bad : ~ (y < k)
    <2>1. Bad \subseteq Nat
      BY SMT
    <2> HIDE DEF Bad
    <2>2. QED
      BY <1>1, <2>1, LeastNatural
  <1>3. k \in 0 .. n /\ g[k] \notin Nat
    BY <1>2
  <1>4. k \in 1 .. n
    BY <1>3 DEF Sums
  <1>5. k - 1 \in 0 .. n /\ k - 1 < k
    BY <1>4
  <1>6. g[k - 1] \in Nat
    BY <1>2, <1>5
  <1>7. g[k] = g[k - 1] + f[k] /\ f[k] \in Nat
    BY <1>4 DEF Sums
  <1>8. QED
    BY <1>3, <1>6, <1>7

\* A sum that is not zero has a summand that is not.
LEMMA SumsSomething ==
    ASSUME NEW n \in Nat, NEW f, \A i \in 1 .. n : f[i] \in Nat, NEW g, Sums(g, f, n),
           g[n] # 0
    PROVE  \E i \in 1 .. n : f[i] > 0
  <1> DEFINE Some == {k \in 0 .. n : g[k] # 0}
  <1>1. Some \subseteq Nat /\ Some # {}
    <2>1. n \in Some
      BY SMT
    <2>2. QED
      BY <2>1
  <1>2. PICK k \in Some : \A y \in Some : ~ (y < k)
    <2> HIDE DEF Some
    <2>1. QED
      BY <1>1, LeastNatural
  <1>3. k \in 1 .. n /\ g[k] # 0
    BY <1>2 DEF Sums
  <1>4. k - 1 \in 0 .. n /\ k - 1 < k
    BY <1>3
  <1>5. g[k - 1] = 0
    BY <1>2, <1>4
  <1>6. g[k] = g[k - 1] + f[k] /\ f[k] \in Nat
    BY <1>3 DEF Sums
  <1>7. f[k] > 0
    BY <1>3, <1>5, <1>6
  <1>8. QED
    BY <1>3, <1>7

\* A threshold selects a row that has an error.
LEMMA WeightedRowHasError ==
    ASSUME NEW f, NEW n \in Nat \ {0}, Len(f) = n, DOMAIN f = 1 .. n,
           \A i \in 1 .. n : f[i] \in Nat, Total(f) # 0, NEW t \in Thresholds(f)
    PROVE  WeightedRow(f, t) \in 1 .. n /\ f[WeightedRow(f, t)] > 0
  <1> DEFINE g == PartialSums(f)
             over == {row \in 1 .. n : g[row] > t}
  <1>1. Sums(g, f, n)
    BY PartialSumsIs
  <1>2. WeightedRow(f, t) = IF over # {} THEN Min(over)
                            ELSE Max({row \in 1 .. n : f[row] > 0})
    BY DEF WeightedRow
  <1>3. PICK j \in 0 .. n - 1 : t = g[j]
    BY DEF Thresholds
  <1>4. g[n] # 0
    BY DEF Total
  <1> HIDE DEF g
  <1>5. \A i \in 0 .. n : g[i] \in Nat
    BY <1>1, SumsNatural
  <1>6. t \in Nat
    BY <1>3, <1>5
  <1>7. CASE over # {}
    <2>1. over \subseteq Nat
      BY SMT
    <2> DEFINE m == Min(over)
    <2>2. m \in over /\ \A y \in over : m <= y
      <3> HIDE DEF over
      <3>1. QED
        BY <1>7, <2>1, MinIs
    <2> HIDE DEF m
    <2>3. m \in 1 .. n /\ g[m] > t
      BY <2>2
    <2>4. g[m] = g[m - 1] + f[m] /\ f[m] \in Nat
      BY <1>1, <2>3 DEF Sums
    <2>5. g[m - 1] <= t
      <3>1. CASE m = 1
        <4>1. g[0] = 0
          BY <1>1 DEF Sums
        <4>2. QED
          BY <1>6, <3>1, <4>1
      <3>2. CASE m # 1
        <4>1. m - 1 \in 1 .. n /\ m - 1 \in 0 .. n /\ ~ (m <= m - 1)
          BY <2>3, <3>2
        <4>2. m - 1 \notin over
          BY <2>2, <4>1
        <4>3. ~ (g[m - 1] > t)
          BY <4>1, <4>2
        <4>4. QED
          BY <1>5, <1>6, <4>1, <4>3
      <3>3. QED
        BY <3>1, <3>2
    <2>6. m - 1 \in 0 .. n
      BY <2>3
    <2>7. f[m] > 0
      BY <1>5, <1>6, <2>3, <2>4, <2>5, <2>6
    <2>8. WeightedRow(f, t) = m
      BY <1>2, <1>7 DEF m
    <2>9. QED
      BY <2>3, <2>7, <2>8
  <1>8. CASE over = {}
    <2> DEFINE some == {row \in 1 .. n : f[row] > 0}
    <2>1. some # {}
      BY <1>1, <1>4, SumsSomething
    <2>2. some \in SUBSET (1 .. n)
      OBVIOUS
    <2>3. WeightedRow(f, t) = Max(some)
      BY <1>2, <1>8
    <2> HIDE DEF some
    <2>4. Max(some) \in some
      BY <2>1, <2>2, MaxIs
    <2> USE DEF some
    <2>5. QED
      BY <2>3, <2>4
  <1>9. QED
    BY <1>7, <1>8

-----------------------------------------------------------------------------
(* The inductive invariant of a training. *)

Started == training \in {"seeding", "assign", "update", "trained"}

\* What the selection of seeds relies on: the minima of the rows selected
\* before the last one are zero.
SeedInv ==
    /\ IsInjective(seeds)
    /\ training \in {"idle", "refused", "seeding", "assign", "update", "trained"}
    /\ Started =>
        /\ residuals \in Seq(Values) /\ Len(residuals) >= Centroids
        /\ seeds \in Seq(1 .. Len(residuals)) /\ Len(seeds) \in 1 .. Centroids
        /\ centroids \in Seq(Int)
        /\ training = "seeding" => Len(centroids) = Len(seeds)
        /\ training # "seeding" => Len(centroids) = Centroids
    /\ training = "seeding" =>
        /\ minimums \in [1 .. Len(residuals) -> Nat]
        /\ \A i \in 1 .. Len(seeds) : centroids[i] = Subvector(seeds[i])
        /\ \A i \in 1 .. Len(seeds) - 1 : minimums[seeds[i]] = 0

\* An iteration has taken no more rows than it has updated centroids, so that
\* there is a row to take for every empty centroid.
LloydInv ==
    /\ iteration \in Nat /\ moved \in BOOLEAN
    /\ training \in {"update", "trained"} =>
        /\ assignments \in [1 .. Len(residuals) -> 1 .. Centroids]
        /\ errors \in [1 .. Len(residuals) -> Nat]
        /\ next \in 1 .. Centroids + 1
        /\ reseeded \subseteq 1 .. Len(residuals) /\ Cardinality(reseeded) <= next - 1

\* As long as nothing moved, the centroids that were updated are what they
\* would become, and the assignments are what they would be.
Settled ==
    /\ \A row \in Rows : Nearest(residuals[row], centroids) = assignments[row]
    /\ \A c \in 1 .. next - 1 : Members(c) # {} => centroids[c] = Mean(Members(c))
    /\ \A c \in 1 .. next - 1 :
            Members(c) = {} => \E row \in reseeded : centroids[c] = Subvector(row)

FixInv ==
    /\ training \in {"update", "trained"} /\ ~moved => Settled
    /\ training = "trained" => next = Centroids + 1 /\ (iteration < LloydIterations => ~moved)

TrainInv == SeedInv /\ LloydInv /\ FixInv

-----------------------------------------------------------------------------
(* The values of one step. *)

LEMMA NumIs == \A v \in Values : Num(v) \in Int
  BY DEF Values, Num

LEMMA CanonicalIs == \A v \in Values : Canonical(v) \in Int /\ Num(Canonical(v)) = Num(v)
  BY TrainingAssumption DEF Values, Canonical, Num

LEMMA IntIsValue == \A v \in Int : v \in Values /\ Num(v) = v /\ Canonical(v) = v
  BY TrainingAssumption DEF Values, Canonical, Num

LEMMA SquareIs == \A x \in Int : Square(x) \in Nat
  <1>1. TAKE x \in Int
  <1>2. x * x \in Int /\ x * x >= 0
    BY SMT
  <1>3. QED
    BY <1>2 DEF Square

LEMMA SquareZero == Square(0) = 0
  BY DEF Square

LEMMA LesserIs ==
    ASSUME NEW a \in Nat, NEW b \in Nat
    PROVE  Min({a, b}) \in Nat /\ Min({a, b}) <= a /\ Min({a, b}) <= b
  <1>1. {a, b} \subseteq Nat /\ {a, b} # {}
    OBVIOUS
  <1>2. Min({a, b}) \in {a, b} /\ \A y \in {a, b} : Min({a, b}) <= y
    BY <1>1, MinIs
  <1>3. QED
    BY <1>2

\* The nearest of some points is one of them.
LEMMA NearestIs ==
    ASSUME NEW value \in Values, NEW points \in Seq(Values), Len(points) > 0
    PROVE  /\ Nearest(value, points) \in 1 .. Len(points)
           /\ \A c \in 1 .. Len(points) :
                /\ Distances(value, points)[c] \in Nat
                /\ Distances(value, points)[Nearest(value, points)] <= Distances(value, points)[c]
  <1> DEFINE d == Distances(value, points)
  <1>1. DOMAIN d = 1 .. Len(points) /\ DOMAIN d # {}
    <2>1. DOMAIN points = 1 .. Len(points) /\ 1 \in 1 .. Len(points)
      OBVIOUS
    <2>2. DOMAIN d = DOMAIN points
      BY DEF Distances
    <2>3. QED
      BY <2>1, <2>2
  <1>2. ASSUME NEW c \in 1 .. Len(points) PROVE d[c] \in Nat
    <2>1. points[c] \in Values
      OBVIOUS
    <2>2. Num(value) - Num(points[c]) \in Int
      BY <2>1, NumIs
    <2>3. d[c] = Square(Num(value) - Num(points[c]))
      BY DEF Distances
    <2>4. QED
      BY <2>2, <2>3, SquareIs
  <1> HIDE DEF d
  <1>3. \A i \in DOMAIN d : d[i] \in Int
    BY <1>1, <1>2
  <1>4. FirstLeast(d) \in DOMAIN d /\ \A c \in DOMAIN d : d[FirstLeast(d)] <= d[c]
    <2>1. Len(points) \in Nat /\ DOMAIN d \in SUBSET (1 .. Len(points))
      BY <1>1
    <2>2. QED
      BY <1>1, <1>3, <2>1, FirstLeastIs
  <1>5. QED
    BY <1>1, <1>2, <1>4 DEF Nearest, d

LEMMA RowsAre ==
    ASSUME residuals \in Seq(Values)
    PROVE  /\ Rows = 1 .. Len(residuals) /\ Len(residuals) \in Nat
           /\ \A row \in Rows : residuals[row] \in Values /\ Subvector(row) \in Int
                                /\ Num(Subvector(row)) = Num(residuals[row])
  <1>1. Rows = 1 .. Len(residuals) /\ Len(residuals) \in Nat
    BY DEF Rows
  <1>2. \A row \in Rows : residuals[row] \in Values
    BY <1>1
  <1>3. QED
    BY <1>1, <1>2, CanonicalIs DEF Subvector

\* The minima with the last seed counted in: every seed has none left.
LEMMA ClosenessIs ==
    ASSUME SeedInv, training = "seeding"
    PROVE  /\ DOMAIN Closeness = 1 .. Len(residuals)
           /\ \A row \in 1 .. Len(residuals) : Closeness[row] \in Nat
           /\ \A i \in 1 .. Len(seeds) : Closeness[seeds[i]] = 0
  <1>1. /\ residuals \in Seq(Values) /\ seeds \in Seq(1 .. Len(residuals))
        /\ Len(seeds) \in 1 .. Centroids /\ centroids \in Seq(Int)
        /\ Len(centroids) = Len(seeds)
        /\ minimums \in [1 .. Len(residuals) -> Nat]
        /\ \A i \in 1 .. Len(seeds) : centroids[i] = Subvector(seeds[i])
        /\ \A i \in 1 .. Len(seeds) - 1 : minimums[seeds[i]] = 0
    BY DEF SeedInv, Started
  <1> DEFINE n == Len(residuals)
             k == Len(seeds)
             away(row) == Square(Num(residuals[row]) - Num(Last(centroids)))
  <1>2. /\ Rows = 1 .. n
        /\ \A row \in 1 .. n : residuals[row] \in Values /\ Num(Subvector(row)) = Num(residuals[row])
    BY <1>1, RowsAre
  <1>3. k \in Nat /\ k >= 1 /\ k \in 1 .. k
    BY <1>1, TrainingAssumption
  <1>4. Last(centroids) = centroids[k] /\ centroids[k] \in Int
    BY <1>1, <1>3 DEF Last
  <1>5. ASSUME NEW row \in 1 .. n
        PROVE  away(row) \in Nat
    <2>1. Num(residuals[row]) \in Int /\ Num(Last(centroids)) \in Int
      BY <1>2, <1>4, NumIs, IntIsValue
    <2>2. Num(residuals[row]) - Num(Last(centroids)) \in Int
      BY <2>1
    <2>3. QED
      BY <2>2, SquareIs
  <1>6. Num(residuals[seeds[k]]) - Num(Last(centroids)) = 0
    <2>1. seeds[k] \in 1 .. n
      BY <1>1, <1>3
    <2>2. Num(residuals[seeds[k]]) = Num(Last(centroids))
      BY <1>1, <1>2, <1>3, <1>4, <2>1
    <2>3. Num(residuals[seeds[k]]) \in Int
      BY <1>2, <2>1, NumIs
    <2>4. QED
      BY <2>2, <2>3
  <1>7. away(seeds[k]) = 0
    BY <1>6, SquareZero
  <1>8. Closeness = [row \in 1 .. n |-> Min({minimums[row], away(row)})]
    BY <1>2 DEF Closeness
  <1>9. \A row \in 1 .. n : minimums[row] \in Nat
    BY <1>1
  <1> HIDE DEF n, k, away
  <1>10. ASSUME NEW row \in 1 .. n
         PROVE  /\ Closeness[row] \in Nat
                /\ Closeness[row] <= minimums[row] /\ Closeness[row] <= away(row)
    <2>1. minimums[row] \in Nat /\ away(row) \in Nat
      BY <1>5, <1>9
    <2>2. Closeness[row] = Min({minimums[row], away(row)})
      BY <1>8
    <2>3. QED
      BY <2>1, <2>2, LesserIs
  <1>11. ASSUME NEW i \in 1 .. k PROVE Closeness[seeds[i]] = 0
    <2>1. seeds[i] \in 1 .. n
      BY <1>1 DEF n, k
    <2>2. CASE i = k
      BY <1>7, <1>10, <2>1, <2>2
    <2>3. CASE i # k
      <3>1. i \in 1 .. k - 1
        BY <1>3, <2>3
      <3>2. minimums[seeds[i]] = 0
        BY <1>1, <3>1 DEF k
      <3>3. QED
        BY <1>10, <2>1, <3>2
    <2>4. QED
      BY <2>2, <2>3
  <1>12. DOMAIN Closeness = 1 .. n
    BY <1>8
  <1>13. QED
    BY <1>10, <1>11, <1>12 DEF n, k

\* Fewer seeds than centroids leave a row.
LEMMA RowLeft ==
    ASSUME NEW n \in Nat, NEW s, NEW k \in Nat, k < n, s \in [1 .. k -> 1 .. n]
    PROVE  (1 .. n) \ {s[i] : i \in 1 .. k} # {}
  <1> DEFINE T == {s[i] : i \in 1 .. k}
  <1>1. IsFiniteSet(1 .. k) /\ Cardinality(1 .. k) = k
    BY FS_Interval
  <1>2. IsFiniteSet(1 .. n) /\ Cardinality(1 .. n) = n
    BY FS_Interval
  <1>3. s \in Surjection(1 .. k, T)
    BY DEF Surjection
  <1> HIDE DEF T
  <1>4. IsFiniteSet(T) /\ Cardinality(T) <= k
    BY <1>1, <1>3, FS_Surjection
  <1>5. SUFFICES ASSUME (1 .. n) \subseteq T PROVE FALSE
    BY DEF T
  <1>6. Cardinality(1 .. n) <= Cardinality(T)
    BY <1>4, <1>5, FS_Subset
  <1>7. Cardinality(T) \in Nat
    BY <1>4, FS_CardinalityType
  <1>8. QED
    BY <1>2, <1>4, <1>6, <1>7

\* The next seed is a row that is not one yet.
LEMMA NextSeedIsNew ==
    ASSUME SeedInv, training = "seeding", Len(seeds) # Centroids, NEW row \in NextSeeds
    PROVE  row \in 1 .. Len(residuals) /\ \A i \in 1 .. Len(seeds) : seeds[i] # row
  <1>1. /\ residuals \in Seq(Values) /\ Len(residuals) >= Centroids
        /\ seeds \in Seq(1 .. Len(residuals)) /\ Len(seeds) \in 1 .. Centroids
    BY DEF SeedInv, Started
  <1> DEFINE n == Len(residuals)
             k == Len(seeds)
  <1>2. n \in Nat /\ k \in Nat /\ k < n /\ n # 0
    BY <1>1, TrainingAssumption
  <1>3. Rows = 1 .. n
    BY <1>1, RowsAre
  <1>4. seeds \in [1 .. k -> 1 .. n] /\ ToSet(seeds) = {seeds[i] : i \in 1 .. k}
    BY <1>1 DEF ToSet
  <1>5. /\ DOMAIN Closeness = 1 .. n
        /\ \A r \in 1 .. n : Closeness[r] \in Nat
        /\ \A i \in 1 .. k : Closeness[seeds[i]] = 0
    BY ClosenessIs
  <1>6. Len(Closeness) = n
    <2>1. Closeness = [r \in 1 .. n |-> Closeness[r]]
      BY <1>3, <1>5 DEF Closeness
    <2>2. QED
      BY <1>2, <2>1
  <1> HIDE DEF n, k
  <1>7. CASE Total(Closeness) = 0
    <2> DEFINE left == (1 .. n) \ {seeds[i] : i \in 1 .. k}
    <2>1. row = Min(left)
      BY <1>3, <1>4, <1>7 DEF NextSeeds
    <2>2. left # {}
      BY <1>2, <1>4, RowLeft
    <2>3. left \subseteq Nat
      BY <1>2
    <2> HIDE DEF left
    <2>4. row \in left
      BY <2>1, <2>2, <2>3, MinIs
    <2>5. QED
      BY <2>4 DEF left, n, k
  <1>8. CASE Total(Closeness) # 0
    <2>1. PICK t \in Thresholds(Closeness) : row = WeightedRow(Closeness, t)
      BY <1>8 DEF NextSeeds
    <2>2. n \in Nat \ {0}
      BY <1>2
    <2>3. row \in 1 .. n /\ Closeness[row] > 0
      BY <1>5, <1>6, <1>8, <2>1, <2>2, WeightedRowHasError
    <2>4. QED
      BY <1>5, <2>3 DEF n, k
  <1>9. QED
    BY <1>7, <1>8

-----------------------------------------------------------------------------
(* The steps of a training. *)

\* Before a training and when it is refused, and once another begins anew,
\* nothing is selected.
LEMMA IdleTraining ==
    ASSUME training \in {"idle", "refused"}, seeds = <<>>,
           iteration \in Nat, moved \in BOOLEAN
    PROVE  TrainInv
  <1>1. SeedInv
    BY DEF SeedInv, Started, IsInjective
  <1>2. LloydInv /\ FixInv
    BY DEF LloydInv, FixInv
  <1>3. QED
    BY <1>1, <1>2 DEF TrainInv

LEMMA BeginKeeps ==
    ASSUME TrainInv, seeds = <<>>, NEW set \in Seq(Values), BeginTrain(set)
    PROVE  TrainInv'
  <1>1. /\ training = "idle" /\ residuals' = set
        /\ assignments' = assignments /\ errors' = errors /\ moved' = moved
        /\ next' = next /\ reseeded' = reseeded /\ iteration' = iteration
    BY DEF BeginTrain
  <1>2. moved' \in BOOLEAN /\ iteration' \in Nat
    BY <1>1 DEF TrainInv, LloydInv
  <1>3. CASE Len(set) < Centroids
    <2>1. training' = "refused" /\ seeds' = seeds
      BY <1>3 DEF BeginTrain
    <2>2. SeedInv'
      BY <2>1 DEF SeedInv, Started, IsInjective
    <2>3. LloydInv' /\ FixInv'
      BY <1>2, <2>1 DEF LloydInv, FixInv
    <2>4. QED
      BY <2>2, <2>3 DEF TrainInv
  <1>4. CASE ~ (Len(set) < Centroids)
    <2>1. /\ training' = "seeding"
          /\ minimums' = [row \in DOMAIN set |-> Infinity]
          /\ \E first \in DOMAIN set :
                seeds' = <<first>> /\ centroids' = <<Canonical(set[first])>>
      BY <1>4 DEF BeginTrain
    <2>2. PICK first \in DOMAIN set :
                seeds' = <<first>> /\ centroids' = <<Canonical(set[first])>>
      BY <2>1
    <2>3. first \in 1 .. Len(set) /\ set[first] \in Values
      OBVIOUS
    <2>4. Canonical(set[first]) \in Int
      BY <2>3, CanonicalIs
    <2>5. /\ seeds' \in Seq(1 .. Len(set)) /\ Len(seeds') = 1 /\ seeds'[1] = first
          /\ DOMAIN seeds' = 1 .. 1
      BY <2>2, <2>3
    <2>6. centroids' \in Seq(Int) /\ Len(centroids') = 1 /\ centroids'[1] = Canonical(set[first])
      BY <2>2, <2>4
    <2>7. Len(set) >= Centroids /\ 1 \in 1 .. Centroids
      BY <1>4, TrainingAssumption
    <2>8. minimums' \in [1 .. Len(set) -> Nat]
      BY <2>1 DEF Infinity
    <2>9. IsInjective(seeds')
      BY <2>5 DEF IsInjective
    <2>10. \A i \in 1 .. Len(seeds') : centroids'[i] = Subvector(seeds[i])'
      BY <1>1, <2>5, <2>6 DEF Subvector
    <2>11. SeedInv'
      BY <1>1, <2>1, <2>5, <2>6, <2>7, <2>8, <2>9, <2>10 DEF SeedInv, Started
    <2>12. LloydInv' /\ FixInv'
      BY <1>2, <2>1 DEF LloydInv, FixInv
    <2>13. QED
      BY <2>11, <2>12 DEF TrainInv
  <1>5. QED
    BY <1>3, <1>4

LEMMA SelectKeeps ==
    ASSUME TrainInv, SelectSeed
    PROVE  TrainInv'
  <1>1. /\ training = "seeding" /\ residuals' = residuals /\ errors' = errors
        /\ moved' = moved /\ next' = next /\ reseeded' = reseeded /\ iteration' = iteration
    BY DEF SelectSeed
  <1>2. moved' \in BOOLEAN /\ iteration' \in Nat
    BY <1>1 DEF TrainInv, LloydInv
  <1>3. SeedInv
    BY DEF TrainInv
  <1>4. /\ residuals \in Seq(Values) /\ Len(residuals) >= Centroids
        /\ seeds \in Seq(1 .. Len(residuals)) /\ Len(seeds) \in 1 .. Centroids
        /\ centroids \in Seq(Int) /\ Len(centroids) = Len(seeds)
        /\ IsInjective(seeds)
        /\ \A i \in 1 .. Len(seeds) : centroids[i] = Subvector(seeds[i])
    BY <1>1, <1>3 DEF SeedInv, Started
  <1>5. CASE Len(seeds) = Centroids
    <2>1. training' = "assign" /\ seeds' = seeds /\ centroids' = centroids
      BY <1>5 DEF SelectSeed
    <2>2. SeedInv'
      BY <1>1, <1>4, <1>5, <2>1 DEF SeedInv, Started
    <2>3. LloydInv' /\ FixInv'
      BY <1>2, <2>1 DEF LloydInv, FixInv
    <2>4. QED
      BY <2>2, <2>3 DEF TrainInv
  <1>6. CASE Len(seeds) # Centroids
    <2>1. /\ training' = training /\ minimums' = Closeness
          /\ \E row \in NextSeeds :
                seeds' = Append(seeds, row) /\ centroids' = Append(centroids, Subvector(row))
      BY <1>6 DEF SelectSeed
    <2>2. PICK row \in NextSeeds :
                seeds' = Append(seeds, row) /\ centroids' = Append(centroids, Subvector(row))
      BY <2>1
    <2>3. row \in 1 .. Len(residuals) /\ \A i \in 1 .. Len(seeds) : seeds[i] # row
      BY <1>1, <1>3, <1>6, NextSeedIsNew
    <2>4. Subvector(row) \in Int
      BY <1>4, <2>3, RowsAre
    <2> DEFINE k == Len(seeds)
    <2>5. k \in Nat /\ k + 1 \in 1 .. Centroids
      BY <1>4, <1>6, TrainingAssumption
    <2>6. /\ seeds' \in Seq(1 .. Len(residuals)) /\ Len(seeds') = k + 1
          /\ seeds'[k + 1] = row /\ \A i \in 1 .. k : seeds'[i] = seeds[i]
          /\ DOMAIN seeds' = 1 .. k + 1 /\ DOMAIN seeds = 1 .. k
      BY <1>4, <2>2, <2>3
    <2>7. /\ centroids' \in Seq(Int) /\ Len(centroids') = k + 1
          /\ centroids'[k + 1] = Subvector(row) /\ \A i \in 1 .. k : centroids'[i] = centroids[i]
      BY <1>4, <2>2, <2>4
    <2> HIDE DEF k
    <2>8. IsInjective(seeds')
      <3>1. ASSUME NEW a \in 1 .. k + 1, NEW b \in 1 .. k + 1, seeds'[a] = seeds'[b]
            PROVE  a = b
        <4>1. CASE a \in 1 .. k /\ b \in 1 .. k
          BY <1>4, <2>6, <3>1, <4>1 DEF IsInjective
        <4>2. CASE a \in 1 .. k /\ b = k + 1
          BY <2>3, <2>6, <3>1, <4>2 DEF k
        <4>3. CASE a = k + 1 /\ b \in 1 .. k
          BY <2>3, <2>6, <3>1, <4>3 DEF k
        <4>4. CASE a = k + 1 /\ b = k + 1
          BY <4>4
        <4>5. QED
          BY <2>5, <4>1, <4>2, <4>3, <4>4
      <3>2. QED
        BY <2>6, <3>1 DEF IsInjective
    <2>9. minimums' \in [1 .. Len(residuals) -> Nat] /\ \A i \in 1 .. k : minimums'[seeds[i]] = 0
      <3>1. /\ DOMAIN Closeness = 1 .. Len(residuals)
            /\ \A r \in 1 .. Len(residuals) : Closeness[r] \in Nat
            /\ \A i \in 1 .. k : Closeness[seeds[i]] = 0
        BY <1>1, <1>3, ClosenessIs DEF k
      <3>2. Closeness = [r \in 1 .. Len(residuals) |-> Closeness[r]]
        BY <3>1, <1>4, RowsAre DEF Closeness
      <3>3. Closeness \in [1 .. Len(residuals) -> Nat]
        BY <3>1, <3>2
      <3>4. QED
        BY <2>1, <3>1, <3>3
    <2>10. \A i \in 1 .. k + 1 : centroids'[i] = Subvector(seeds[i])'
      <3>1. TAKE i \in 1 .. k + 1
      <3>2. Subvector(seeds[i])' = Canonical(residuals[seeds'[i]])
        BY <1>1 DEF Subvector
      <3>3. CASE i = k + 1
        BY <2>6, <2>7, <3>2, <3>3 DEF Subvector
      <3>4. CASE i # k + 1
        <4>1. i \in 1 .. k
          BY <2>5, <3>4
        <4>2. centroids[i] = Subvector(seeds[i])
          BY <1>4, <4>1 DEF k
        <4>3. QED
          BY <2>6, <2>7, <3>2, <4>1, <4>2 DEF Subvector
      <3>5. QED
        BY <3>3, <3>4
    <2>11. \A i \in 1 .. (k + 1) - 1 : minimums'[seeds'[i]] = 0
      <3>1. (k + 1) - 1 = k
        BY <2>5
      <3>2. QED
        BY <2>6, <2>9, <3>1
    <2>12. SeedInv'
      BY <1>1, <1>4, <2>1, <2>5, <2>6, <2>7, <2>8, <2>9, <2>10, <2>11 DEF SeedInv, Started
    <2>13. LloydInv' /\ FixInv'
      BY <1>1, <1>2, <2>1 DEF LloydInv, FixInv
    <2>14. QED
      BY <2>12, <2>13 DEF TrainInv
  <1>7. QED
    BY <1>5, <1>6

LEMMA AssignKeeps ==
    ASSUME TrainInv, Assign
    PROVE  TrainInv'
  <1>1. /\ training = "assign" /\ training' = "update" /\ next' = 1 /\ reseeded' = {}
        /\ iteration' = iteration + 1 /\ residuals' = residuals /\ seeds' = seeds
        /\ minimums' = minimums /\ centroids' = centroids
        /\ assignments' = [row \in Rows |-> Nearest(residuals[row], centroids)]
        /\ errors' = [row \in Rows |->
                         Distances(residuals[row], centroids)[Nearest(residuals[row], centroids)]]
        /\ moved' = ([row \in Rows |-> Nearest(residuals[row], centroids)] # assignments)
    <2>1. \A row \in Rows : [r \in Rows |-> Nearest(residuals[r], centroids)][row]
                            = Nearest(residuals[row], centroids)
      OBVIOUS
    <2>2. errors' = [row \in Rows |->
              Distances(residuals[row], centroids)[
                  [r \in Rows |-> Nearest(residuals[r], centroids)][row]]]
      BY DEF Assign
    <2>3. errors' = [row \in Rows |->
                        Distances(residuals[row], centroids)[Nearest(residuals[row], centroids)]]
      BY <2>1, <2>2
    <2>4. QED
      BY <2>3 DEF Assign
  <1>2. /\ residuals \in Seq(Values) /\ Len(residuals) >= Centroids
        /\ centroids \in Seq(Int) /\ Len(centroids) = Centroids
    BY <1>1 DEF TrainInv, SeedInv, Started
  <1>3. SeedInv'
    BY <1>1 DEF TrainInv, SeedInv, Started
  <1>4. iteration' \in Nat /\ moved' \in BOOLEAN
    <2>1. iteration \in Nat
      BY DEF TrainInv, LloydInv
    <2>2. QED
      BY <1>1, <2>1
  <1>5. Rows = 1 .. Len(residuals) /\ \A row \in Rows : residuals[row] \in Values
    BY <1>2, RowsAre
  <1>6. centroids \in Seq(Values) /\ Len(centroids) > 0
    <2>1. Int \subseteq Values
      BY IntIsValue
    <2>2. QED
      BY <1>2, <2>1, TrainingAssumption
  <1>7. ASSUME NEW row \in Rows
        PROVE  /\ Nearest(residuals[row], centroids) \in 1 .. Centroids
               /\ Distances(residuals[row], centroids)[Nearest(residuals[row], centroids)] \in Nat
    <2>1. residuals[row] \in Values
      BY <1>5
    <2>2. Nearest(residuals[row], centroids) \in 1 .. Len(centroids)
      BY <1>6, <2>1, NearestIs
    <2>3. QED
      BY <1>2, <1>6, <2>1, <2>2, NearestIs
  <1>8. /\ assignments' \in [1 .. Len(residuals) -> 1 .. Centroids]
        /\ errors' \in [1 .. Len(residuals) -> Nat]
    BY <1>1, <1>5, <1>7
  <1>9. next' \in 1 .. Centroids + 1 /\ Cardinality(reseeded') <= next' - 1
    BY <1>1, FS_EmptySet, TrainingAssumption
  <1>10. LloydInv'
    BY <1>1, <1>4, <1>8, <1>9 DEF LloydInv
  <1>11. Settled'
    <2>1. Rows' = Rows
      BY <1>1 DEF Rows
    <2>2. ASSUME NEW row \in Rows
          PROVE  Nearest(residuals[row], centroids)' = assignments'[row]
      <3>1. Nearest(residuals[row], centroids)' = Nearest(residuals[row], centroids)
        BY <1>1 DEF Nearest, Distances
      <3>2. QED
        BY <1>1, <3>1
    <2>3. 1 .. next' - 1 = {}
      BY <1>1
    <2>4. QED
      BY <2>1, <2>2, <2>3 DEF Settled
  <1>12. FixInv'
    BY <1>1, <1>11 DEF FixInv
  <1>13. QED
    BY <1>3, <1>10, <1>12 DEF TrainInv

\* One centroid set: the invariant but for what it is set to and the rows taken.
LEMMA MoveKeeps ==
    ASSUME TrainInv, training = "update", next <= Centroids, NEW target \in Int, Move(target),
           \/ Members(next) # {} /\ target = Mean(Members(next)) /\ reseeded' = reseeded
           \/ /\ Members(next) = {}
              /\ \E row \in (1 .. Len(residuals)) \ reseeded :
                    reseeded' = reseeded \cup {row} /\ target = Subvector(row)
    PROVE  TrainInv'
  <1>1. /\ centroids' = [centroids EXCEPT ![next] = target]
        /\ moved' = (moved \/ centroids[next] # target)
        /\ next' = next + 1
        /\ training' = training /\ residuals' = residuals /\ seeds' = seeds
        /\ minimums' = minimums /\ assignments' = assignments /\ errors' = errors
        /\ iteration' = iteration
    BY DEF Move
  <1>2. /\ residuals \in Seq(Values) /\ Len(residuals) >= Centroids
        /\ seeds \in Seq(1 .. Len(residuals)) /\ Len(seeds) \in 1 .. Centroids
        /\ centroids \in Seq(Int) /\ Len(centroids) = Centroids /\ IsInjective(seeds)
    BY DEF TrainInv, SeedInv, Started
  <1>3. /\ assignments \in [1 .. Len(residuals) -> 1 .. Centroids]
        /\ errors \in [1 .. Len(residuals) -> Nat]
        /\ next \in 1 .. Centroids + 1
        /\ reseeded \subseteq 1 .. Len(residuals) /\ Cardinality(reseeded) <= next - 1
        /\ iteration \in Nat /\ moved \in BOOLEAN
    BY DEF TrainInv, LloydInv
  <1>4. Centroids \in Nat /\ next \in Nat /\ next \in 1 .. Centroids
    BY <1>3, TrainingAssumption
  <1>5. centroids' \in Seq(Int) /\ Len(centroids') = Centroids
    BY <1>1, <1>2, <1>4
  <1>6. SeedInv'
    BY <1>1, <1>2, <1>5 DEF SeedInv, Started
  <1>7. /\ reseeded' \subseteq 1 .. Len(residuals)
        /\ Cardinality(reseeded') <= next
        /\ reseeded \subseteq reseeded'
    <2>1. IsFiniteSet(reseeded) /\ Cardinality(reseeded) \in Nat
      <3>1. IsFiniteSet(1 .. Len(residuals))
        BY <1>2, FS_Interval
      <3>2. QED
        BY <1>3, <3>1, FS_Subset, FS_CardinalityType
    <2>2. CASE reseeded' = reseeded
      BY <1>3, <1>4, <2>1, <2>2
    <2>3. ASSUME NEW row \in (1 .. Len(residuals)) \ reseeded,
                 reseeded' = reseeded \cup {row}
          PROVE  /\ reseeded' \subseteq 1 .. Len(residuals)
                 /\ Cardinality(reseeded') <= next
                 /\ reseeded \subseteq reseeded'
      <3>1. Cardinality(reseeded \cup {row}) = Cardinality(reseeded) + 1
        BY <2>1, FS_AddElement
      <3>2. QED
        BY <1>3, <1>4, <2>1, <2>3, <3>1
    <2>4. QED
      BY <2>2, <2>3
  <1>8. moved' \in BOOLEAN
    BY <1>1, <1>3
  <1>9. next' \in 1 .. Centroids + 1 /\ next' - 1 = next
    BY <1>1, <1>4
  <1>10. LloydInv'
    BY <1>1, <1>3, <1>7, <1>8, <1>9 DEF LloydInv
  <1>11. ASSUME ~ moved' PROVE Settled'
    <2>1. ~ moved /\ centroids[next] = target
      BY <1>1, <1>3, <1>11
    <2>2. Settled
      BY <2>1 DEF TrainInv, FixInv
    <2>3. centroids' = centroids
      BY <1>1, <1>2, <1>4, <2>1
    <2>4. Rows' = Rows
      BY <1>1 DEF Rows
    <2>5. \A row \in Rows : Nearest(residuals[row], centroids)' = assignments'[row]
      <3>1. TAKE row \in Rows
      <3>2. Nearest(residuals[row], centroids)' = Nearest(residuals[row], centroids)
        BY <1>1, <2>3 DEF Nearest, Distances
      <3>3. QED
        BY <1>1, <2>2, <3>2 DEF Settled
    <2>6. ASSUME NEW c
          PROVE  /\ Members(c)' = Members(c)
                 /\ Mean(Members(c))' = Mean(Members(c))
      <3>1. Members(c)' = Members(c)
        BY <1>1, <2>4 DEF Members
      <3>2. SumOver(Members(c))' = SumOver(Members(c))
        BY <1>1, <2>4, <3>1 DEF SumOver
      <3>3. QED
        BY <3>1, <3>2 DEF Mean
    <2>7. \A row : Subvector(row)' = Subvector(row)
      BY <1>1 DEF Subvector
    <2>8. ASSUME NEW c \in 1 .. next' - 1
          PROVE  /\ Members(c) # {} => centroids[c] = Mean(Members(c))
                 /\ Members(c) = {} => \E row \in reseeded' : centroids[c] = Subvector(row)
      <3>1. CASE c = next
        BY <2>1, <3>1
      <3>2. CASE c # next
        <4>1. c \in 1 .. next
          BY <1>9
        <4>2. c \in 1 .. next - 1
          BY <1>4, <3>2, <4>1
        <4>3. QED
          BY <1>7, <2>2, <4>2 DEF Settled
      <3>3. QED
        BY <3>1, <3>2
    <2>9. QED
      BY <2>3, <2>4, <2>5, <2>6, <2>7, <2>8 DEF Settled
  <1>12. FixInv'
    BY <1>1, <1>11 DEF FixInv
  <1>13. QED
    BY <1>6, <1>10, <1>12 DEF TrainInv

LEMMA ReseedKeeps ==
    ASSUME TrainInv, Reseed
    PROVE  TrainInv'
  <1>1. /\ training = "update" /\ next <= Centroids /\ Members(next) = {}
        /\ reseeded' = reseeded \cup {LargestError} /\ Move(Subvector(LargestError))
    BY DEF Reseed
  <1>2. /\ residuals \in Seq(Values) /\ Len(residuals) >= Centroids
    BY <1>1 DEF TrainInv, SeedInv, Started
  <1>3. /\ errors \in [1 .. Len(residuals) -> Nat] /\ next \in 1 .. Centroids + 1
        /\ reseeded \subseteq 1 .. Len(residuals) /\ Cardinality(reseeded) <= next - 1
    BY <1>1 DEF TrainInv, LloydInv
  <1> DEFINE n == Len(residuals)
             left == (1 .. n) \ reseeded
             f == [row \in left |-> -errors[row]]
  <1>4. n \in Nat /\ Centroids \in Nat /\ next \in Nat /\ next <= n
    BY <1>1, <1>2, <1>3, TrainingAssumption
  <1>5. Rows = 1 .. n
    BY <1>2, RowsAre
  <1> HIDE DEF n
  <1>6. left # {}
    <2>1. SUFFICES ASSUME 1 .. n \subseteq reseeded PROVE FALSE
      OBVIOUS
    <2>2. reseeded = 1 .. n
      BY <1>3, <2>1 DEF n
    <2>3. Cardinality(reseeded) = n
      BY <1>4, <2>2, FS_Interval
    <2>4. QED
      BY <1>3, <1>4, <2>3
  <1>7. DOMAIN f = left /\ \A i \in left : f[i] \in Int
    <2>1. \A i \in left : errors[i] \in Nat
      BY <1>3 DEF n
    <2>2. QED
      BY <2>1
  <1>8. LargestError = FirstLeast(f)
    BY <1>5 DEF LargestError
  <1> HIDE DEF f
  <1>9. LargestError \in left
    <2>1. left \in SUBSET (1 .. n)
      OBVIOUS
    <2> HIDE DEF left
    <2>2. FirstLeast(f) \in DOMAIN f
      BY <1>4, <1>6, <1>7, <2>1, FirstLeastIs
    <2>3. QED
      BY <1>7, <1>8, <2>2
  <1>10. Subvector(LargestError) \in Int
    BY <1>2, <1>5, <1>9, RowsAre
  <1>11. QED
    BY <1>1, <1>9, <1>10, MoveKeeps DEF n

\* The mean of some rows is a number.
LEMMA MeanIs ==
    ASSUME residuals \in Seq(Values), NEW members \in SUBSET (1 .. Len(residuals)), members # {}
    PROVE  Mean(members) \in Int
  <1> DEFINE n == Len(residuals)
             f == [row \in 1 .. n |-> IF row \in members THEN Num(residuals[row]) ELSE 0]
  <1>1. n \in Nat /\ Rows = 1 .. n /\ \A row \in 1 .. n : residuals[row] \in Values
    BY RowsAre
  <1>2. IsFiniteSet(members) /\ Cardinality(members) \in Nat /\ Cardinality(members) # 0
    <2>1. IsFiniteSet(1 .. n)
      BY <1>1, FS_Interval
    <2>2. IsFiniteSet(members)
      BY <2>1, FS_Subset
    <2>3. QED
      BY <2>2, FS_CardinalityType, FS_EmptySet
  <1> HIDE DEF n
  <1>3. Len(f) = n /\ \A i \in 1 .. n : f[i] \in Int
    BY <1>1, NumIs
  <1>4. SumOver(members) = Total(f)
    BY <1>1 DEF SumOver
  <1> HIDE DEF f
  <1>5. Sums(PartialSums(f), f, n)
    BY <1>1, <1>3, PartialSumsIs
  <1>6. Total(f) \in Int
    BY <1>1, <1>3, <1>5 DEF Total, Sums
  <1>7. SumOver(members) \div Cardinality(members) \in Int
    BY <1>2, <1>4, <1>6
  <1>8. QED
    BY <1>7, IntIsValue DEF Mean

LEMMA RecenterKeeps ==
    ASSUME TrainInv, Recenter
    PROVE  TrainInv'
  <1>1. /\ training = "update" /\ next <= Centroids /\ Members(next) # {}
        /\ reseeded' = reseeded /\ Move(Mean(Members(next)))
    BY DEF Recenter
  <1>2. residuals \in Seq(Values)
    BY <1>1 DEF TrainInv, SeedInv, Started
  <1>3. Members(next) \in SUBSET (1 .. Len(residuals))
    BY <1>2, RowsAre DEF Members
  <1>4. Mean(Members(next)) \in Int
    BY <1>1, <1>2, <1>3, MeanIs
  <1>5. QED
    BY <1>1, <1>4, MoveKeeps

\* What is settled stays so while nothing it is about changes.
LEMMA SettledStays ==
    ASSUME residuals' = residuals, centroids' = centroids, assignments' = assignments,
           next' = next, reseeded' = reseeded
    PROVE  Settled' = Settled
  <1>1. \A c : Members(c)' = Members(c)
    BY DEF Members, Rows
  <1>2. \A row : Subvector(row)' = Subvector(row)
    BY DEF Subvector
  <1>3. ASSUME NEW c PROVE Mean(Members(c))' = Mean(Members(c))
    <2>1. SumOver(Members(c))' = SumOver(Members(c))
      BY <1>1 DEF SumOver, Rows
    <2>2. QED
      BY <1>1, <2>1 DEF Mean
  <1>4. ASSUME NEW row PROVE Nearest(residuals[row], centroids)' = Nearest(residuals[row], centroids)
    BY DEF Nearest, Distances
  <1>5. Rows' = Rows
    BY DEF Rows
  <1>6. QED
    BY <1>1, <1>2, <1>3, <1>4, <1>5 DEF Settled

LEMMA EndKeeps ==
    ASSUME TrainInv, EndIteration
    PROVE  TrainInv'
  <1>1. /\ training = "update" /\ next > Centroids
        /\ training' = IF ~ moved \/ iteration = LloydIterations THEN "trained" ELSE "assign"
        /\ residuals' = residuals /\ seeds' = seeds /\ minimums' = minimums
        /\ centroids' = centroids /\ assignments' = assignments /\ errors' = errors
        /\ moved' = moved /\ next' = next /\ reseeded' = reseeded /\ iteration' = iteration
    BY DEF EndIteration, Converged
  <1>2. training' \in {"assign", "trained"}
    BY <1>1
  <1>3. SeedInv'
    BY <1>1, <1>2 DEF TrainInv, SeedInv, Started
  <1>4. LloydInv'
    BY <1>1, <1>2 DEF TrainInv, LloydInv
  <1>5. Settled' = Settled
    BY <1>1, SettledStays
  <1>6. next \in 1 .. Centroids + 1 /\ iteration \in Nat
    BY <1>1 DEF TrainInv, LloydInv
  <1>7. next = Centroids + 1
    BY <1>1, <1>6, TrainingAssumption
  <1>8. ASSUME training' = "trained", iteration < LloydIterations PROVE ~ moved
    <2>1. iteration # LloydIterations
      BY <1>6, <1>8, TrainingAssumption
    <2>2. QED
      BY <1>1, <1>8, <2>1
  <1>9. FixInv'
    <2>1. ~ moved => Settled
      BY <1>1 DEF TrainInv, FixInv
    <2>2. QED
      BY <1>1, <1>2, <1>5, <1>7, <1>8, <2>1 DEF FixInv
  <1>10. QED
    BY <1>3, <1>4, <1>9 DEF TrainInv

LEMMA TrainStepKeeps ==
    ASSUME TrainInv, TrainStep
    PROVE  TrainInv'
  BY SelectKeeps, AssignKeeps, ReseedKeeps, RecenterKeeps, EndKeeps DEF TrainStep

\* A step that leaves the training alone.
LEMMA SameTraining ==
    ASSUME TrainInv, UNCHANGED trainVars
    PROVE  TrainInv'
  <1>1. /\ training' = training /\ residuals' = residuals /\ seeds' = seeds
        /\ minimums' = minimums /\ centroids' = centroids /\ assignments' = assignments
        /\ errors' = errors /\ moved' = moved /\ next' = next /\ reseeded' = reseeded
        /\ iteration' = iteration
    BY DEF trainVars
  <1>2. SeedInv'
    BY <1>1 DEF TrainInv, SeedInv, Started, Subvector
  <1>3. LloydInv'
    BY <1>1 DEF TrainInv, LloydInv
  <1>4. Settled' = Settled
    BY <1>1, SettledStays
  <1>5. FixInv'
    BY <1>1, <1>4 DEF TrainInv, FixInv
  <1>6. QED
    BY <1>2, <1>3, <1>5 DEF TrainInv

-----------------------------------------------------------------------------
(* The errors of an iteration. *)

\* Sums keep the order of their summands.
LEMMA SumsCompare ==
    ASSUME NEW n \in Nat, NEW f, NEW g, NEW F, NEW G, Sums(F, f, n), Sums(G, g, n),
           \A i \in 1 .. n : f[i] \in Int /\ g[i] \in Int /\ f[i] <= g[i]
    PROVE  F[n] <= G[n]
  <1> DEFINE Bad == {k \in 0 .. n : ~ (F[k] <= G[k])}
  <1>1. SUFFICES ASSUME Bad # {} PROVE FALSE
    BY DEF Sums
  <1>2. PICK k \in Bad : \A y \in Bad : ~ (y < k)
    <2>1. Bad \subseteq Nat
      BY SMT
    <2> HIDE DEF Bad
    <2>2. QED
      BY <1>1, <2>1, LeastNatural
  <1>3. k \in 0 .. n /\ ~ (F[k] <= G[k])
    BY <1>2
  <1>4. k \in 1 .. n
    BY <1>3 DEF Sums
  <1>5. k - 1 \in 0 .. n /\ k - 1 < k
    BY <1>4
  <1>6. F[k - 1] <= G[k - 1]
    BY <1>2, <1>5
  <1>7. /\ F[k] = F[k - 1] + f[k] /\ G[k] = G[k - 1] + g[k]
        /\ F[k - 1] \in Int /\ G[k - 1] \in Int /\ f[k] \in Int /\ g[k] \in Int /\ f[k] <= g[k]
    BY <1>4, <1>5 DEF Sums
  <1>8. QED
    BY <1>3, <1>6, <1>7

\* f is a combination of three lists.
Combines(n, f, g, h, e, a, b) ==
    \A i \in 1 .. n : /\ g[i] \in Int /\ h[i] \in Int /\ e[i] \in Int
                      /\ f[i] = g[i] + a * h[i] + b * e[i]

\* Its sum is that combination of their sums.
LEMMA SumsCombine ==
    ASSUME NEW n \in Nat, NEW f, NEW g, NEW h, NEW e, NEW F, NEW G, NEW H, NEW E,
           NEW a \in Int, NEW b \in Int, Combines(n, f, g, h, e, a, b),
           Sums(F, f, n), Sums(G, g, n), Sums(H, h, n), Sums(E, e, n)
    PROVE  F[n] = G[n] + a * H[n] + b * E[n]
  <1> DEFINE Bad == {k \in 0 .. n : F[k] # G[k] + a * H[k] + b * E[k]}
  <1>0. n \in 0 .. n
    OBVIOUS
  <1>1. SUFFICES ASSUME Bad # {} PROVE FALSE
    BY <1>0
  <1>2. PICK k \in Bad : \A y \in Bad : ~ (y < k)
    <2>1. Bad \subseteq Nat
      BY SMT
    <2> HIDE DEF Bad
    <2>2. QED
      BY <1>1, <2>1, LeastNatural
  <1>3. k \in 0 .. n /\ F[k] # G[k] + a * H[k] + b * E[k]
    BY <1>2
  <1>4. k \in 1 .. n
    <2>1. SUFFICES ASSUME k = 0 PROVE FALSE
      BY <1>3
    <2>2. F[0] = 0 /\ G[0] = 0 /\ H[0] = 0 /\ E[0] = 0
      BY DEF Sums
    <2>3. QED
      BY <1>3, <2>1, <2>2
  <1>5. k - 1 \in 0 .. n /\ k - 1 < k
    BY <1>4
  <1>6. F[k - 1] = G[k - 1] + a * H[k - 1] + b * E[k - 1]
    BY <1>2, <1>5
  <1>7. /\ F[k] = F[k - 1] + f[k] /\ G[k] = G[k - 1] + g[k]
        /\ H[k] = H[k - 1] + h[k] /\ E[k] = E[k - 1] + e[k]
        /\ G[k - 1] \in Int /\ H[k - 1] \in Int /\ E[k - 1] \in Int
        /\ g[k] \in Int /\ h[k] \in Int /\ e[k] \in Int
        /\ f[k] = g[k] + a * h[k] + b * e[k]
    BY <1>4, <1>5 DEF Sums, Combines
  <1>8. /\ a * (H[k - 1] + h[k]) = a * H[k - 1] + a * h[k]
        /\ b * (E[k - 1] + e[k]) = b * E[k - 1] + b * e[k]
    BY <1>7
  <1>9. F[k] = G[k] + a * H[k] + b * E[k]
    <2> DEFINE p == a * H[k - 1]
               q == b * E[k - 1]
               r == a * h[k]
               s == b * e[k]
    <2>1. p \in Int /\ q \in Int /\ r \in Int /\ s \in Int
      BY <1>7
    <2>2. F[k] = (G[k - 1] + p + q) + (g[k] + r + s)
      BY <1>6, <1>7
    <2>3. a * H[k] = p + r /\ b * E[k] = q + s
      BY <1>7, <1>8
    <2> HIDE DEF p, q, r, s
    <2>4. QED
      BY <1>7, <2>1, <2>2, <2>3
  <1>10. QED
    BY <1>3, <1>9

\* A list of ones and zeros adds up to the number of ones.
LEMMA SumsCount ==
    ASSUME NEW n \in Nat, NEW M \in SUBSET (1 .. n), NEW F,
           Sums(F, [i \in 1 .. n |-> IF i \in M THEN 1 ELSE 0], n)
    PROVE  F[n] = Cardinality(M)
  <1> DEFINE f == [i \in 1 .. n |-> IF i \in M THEN 1 ELSE 0]
             Upto(k) == M \cap (1 .. k)
             Bad == {k \in 0 .. n : F[k] # Cardinality(Upto(k))}
  <1>0. Upto(n) = M
    OBVIOUS
  <1>1. SUFFICES ASSUME Bad # {} PROVE FALSE
    <2>1. n \in 0 .. n
      OBVIOUS
    <2> HIDE DEF Upto
    <2>2. QED
      BY <1>0, <2>1
  <1>2. PICK k \in Bad : \A y \in Bad : ~ (y < k)
    <2>1. Bad \subseteq Nat
      BY SMT
    <2> HIDE DEF Bad
    <2>2. QED
      BY <1>1, <2>1, LeastNatural
  <1>3. k \in 0 .. n /\ F[k] # Cardinality(Upto(k))
    BY <1>2
  <1>4. k \in 1 .. n
    <2>1. SUFFICES ASSUME k = 0 PROVE FALSE
      BY <1>3
    <2>2. Upto(0) = {}
      OBVIOUS
    <2>3. QED
      BY <1>3, <2>1, <2>2, FS_EmptySet DEF Sums
  <1>5. k - 1 \in 0 .. n /\ k - 1 < k
    BY <1>4
  <1>6. F[k - 1] = Cardinality(Upto(k - 1))
    BY <1>2, <1>5
  <1>7. F[k] = F[k - 1] + f[k] /\ F[k - 1] \in Int
    BY <1>4, <1>5 DEF Sums
  <1>8. IsFiniteSet(Upto(k - 1)) /\ k \notin Upto(k - 1)
    <2>1. IsFiniteSet(1 .. (k - 1))
      BY <1>5, FS_Interval
    <2>2. QED
      BY <1>4, <2>1, FS_Subset
  <1>9. CASE k \in M
    <2>1. Upto(k) = Upto(k - 1) \cup {k} /\ f[k] = 1
      BY <1>4, <1>9
    <2>2. Cardinality(Upto(k)) = Cardinality(Upto(k - 1)) + 1
      <3> HIDE DEF Upto
      <3>1. QED
        BY <1>8, <2>1, FS_AddElement
    <2>3. QED
      BY <1>3, <1>6, <1>7, <2>1, <2>2
  <1>10. CASE k \notin M
    <2>1. Upto(k) = Upto(k - 1) /\ f[k] = 0
      BY <1>4, <1>10
    <2> HIDE DEF Upto, f
    <2>2. QED
      BY <1>3, <1>6, <1>7, <2>1
  <1>11. QED
    BY <1>9, <1>10

\* A whole number of shares of one size.
MultipleOf(x, size) == \E share \in Int : x = size * share

\* A sum of multiples is a multiple.
LEMMA SumsDivide ==
    ASSUME NEW n \in Nat, NEW f, NEW F, Sums(F, f, n), NEW size \in Nat,
           \A i \in 1 .. n : MultipleOf(f[i], size)
    PROVE  MultipleOf(F[n], size)
  <1> DEFINE Bad == {k \in 0 .. n : ~ MultipleOf(F[k], size)}
  <1>0. n \in 0 .. n
    OBVIOUS
  <1>1. SUFFICES ASSUME Bad # {} PROVE FALSE
    BY <1>0
  <1>2. PICK k \in Bad : \A y \in Bad : ~ (y < k)
    <2>1. Bad \subseteq Nat
      BY SMT
    <2> HIDE DEF Bad
    <2>2. QED
      BY <1>1, <2>1, LeastNatural
  <1>3. k \in 0 .. n /\ ~ MultipleOf(F[k], size)
    BY <1>2
  <1>4. k \in 1 .. n
    <2>1. SUFFICES ASSUME k = 0 PROVE FALSE
      BY <1>3
    <2>2. F[0] = size * 0
      BY DEF Sums
    <2>3. QED
      BY <1>3, <2>1, <2>2 DEF MultipleOf
  <1>5. k - 1 \in 0 .. n /\ k - 1 < k
    BY <1>4
  <1>6. PICK p \in Int : F[k - 1] = size * p
    BY <1>2, <1>5 DEF MultipleOf
  <1>7. PICK q \in Int : f[k] = size * q
    BY <1>4 DEF MultipleOf
  <1>8. F[k] = F[k - 1] + f[k]
    BY <1>4 DEF Sums
  <1>9. F[k] = size * (p + q) /\ p + q \in Int
    BY <1>6, <1>7, <1>8
  <1>10. QED
    BY <1>3, <1>9 DEF MultipleOf

\* What divides without rest is a multiple, and the quotient is the factor.
LEMMA MultipleIs ==
    ASSUME NEW x \in Int, NEW size \in Nat, size >= 1
    PROVE  /\ x % size = 0 => MultipleOf(x, size)
           /\ \A share \in Int : x = size * share => x % size = 0 /\ x \div size = share
  <1>1. x = size * (x \div size) + (x % size) /\ x \div size \in Int /\ x % size \in 0 .. size - 1
    <2> DEFINE m == x % size
               y == size * (x \div size)
    <2>1. x \div size \in Int
      BY SMT
    <2>2. m \in Nat
      BY SMT
    <2>3. m < size
      BY SMT
    <2>4. m = x - y
      BY SMT
    <2>5. y \in Int
      BY <2>1, SMT
    <2> HIDE DEF m, y
    <2>6. m \in 0 .. size - 1
      BY <2>2, <2>3, SMT
    <2>7. x = y + m
      BY <2>2, <2>4, <2>5, SMT
    <2>8. QED
      BY <2>1, <2>6, <2>7 DEF m, y
  <1>2. x % size = 0 => MultipleOf(x, size)
    <2> DEFINE d == x \div size
               y == size * d
    <2>1. SUFFICES ASSUME x % size = 0 PROVE x = y
      BY <1>1 DEF MultipleOf
    <2>2. x = y + 0 /\ y \in Int
      BY <1>1, <2>1
    <2> HIDE DEF y
    <2>3. QED
      BY <2>2
  <1>3. ASSUME NEW share \in Int, x = size * share PROVE x % size = 0 /\ x \div size = share
    <2> DEFINE d == x \div size
               m == x % size
    <2>1. size * share = size * d + m /\ d \in Int /\ m \in 0 .. size - 1
      BY <1>1, <1>3
    <2> HIDE DEF d, m
    <2>2. m = size * (share - d)
      BY <2>1
    <2>3. share - d = 0
      <3>1. CASE share - d >= 1
        BY <2>1, <2>2, <3>1
      <3>2. CASE share - d <= -1
        BY <2>1, <2>2, <3>2
      <3>3. QED
        BY <2>1, <3>1, <3>2
    <2>4. m = 0 /\ d = share
      BY <2>1, <2>2, <2>3
    <2>5. QED
      BY <2>4 DEF d, m
  <1>4. QED
    BY <1>2, <1>3

\* A total, as the last of the sums.
LEMMA TotalIs ==
    ASSUME NEW n \in Nat, NEW f, Len(f) = n, \A i \in 1 .. n : f[i] \in Int
    PROVE  /\ Sums(PartialSums(f), f, n) /\ Total(f) = PartialSums(f)[n]
           /\ Total(f) \in Int
  <1>1. Sums(PartialSums(f), f, n)
    BY PartialSumsIs
  <1>2. Total(f) = PartialSums(f)[n]
    BY DEF Total
  <1>3. QED
    BY <1>1, <1>2 DEF Sums

\* Every cluster size divides the residuals that are being clustered.
Exact == \A row \in Rows, size \in 1 .. Len(residuals) : Num(residuals[row]) % size = 0

\* So the mean of a cluster, times its size, is its sum.
LEMMA MeanIsExact ==
    ASSUME residuals \in Seq(Values), Exact,
           NEW members \in SUBSET (1 .. Len(residuals)), members # {}
    PROVE  /\ Cardinality(members) \in Nat /\ Mean(members) \in Int
           /\ SumOver(members) = Cardinality(members) * Mean(members)
  <1> DEFINE n == Len(residuals)
             f == [row \in 1 .. n |-> IF row \in members THEN Num(residuals[row]) ELSE 0]
             size == Cardinality(members)
  <1>1. n \in Nat /\ Rows = 1 .. n /\ \A row \in 1 .. n : residuals[row] \in Values
    BY RowsAre
  <1>2. size \in 1 .. n
    <2>1. IsFiniteSet(1 .. n) /\ Cardinality(1 .. n) = n
      <3> HIDE DEF n
      <3>1. QED
        BY <1>1, FS_Interval
    <2>2. IsFiniteSet(members) /\ Cardinality(members) <= n
      BY <2>1, FS_Subset
    <2>3. QED
      BY <1>1, <2>2, FS_CardinalityType, FS_EmptySet
  <1>3. \A row \in 1 .. n : Num(residuals[row]) % size = 0
    <2> HIDE DEF size
    <2>1. QED
      BY <1>1, <1>2 DEF Exact
  <1> HIDE DEF n, size
  <1>4. size \in Nat /\ size >= 1
    BY <1>1, <1>2
  <1>5. Len(f) = n /\ \A i \in 1 .. n : f[i] \in Int
    BY <1>1, NumIs
  <1>6. \A i \in 1 .. n : MultipleOf(f[i], size)
    <2>1. TAKE i \in 1 .. n
    <2>2. CASE i \in members
      <3>1. f[i] = Num(residuals[i]) /\ Num(residuals[i]) \in Int /\ Num(residuals[i]) % size = 0
        BY <1>1, <1>3, <2>2, NumIs
      <3>2. QED
        BY <1>4, <3>1, MultipleIs
    <2>3. CASE i \notin members
      <3>1. f[i] = size * 0
        BY <1>4, <2>3
      <3>2. QED
        BY <3>1 DEF MultipleOf
    <2>4. QED
      BY <2>2, <2>3
  <1>7. SumOver(members) = Total(f)
    BY <1>1 DEF SumOver
  <1> HIDE DEF f
  <1>8. Sums(PartialSums(f), f, n) /\ Total(f) = PartialSums(f)[n] /\ Total(f) \in Int
    BY <1>1, <1>5, TotalIs
  <1>9. PICK share \in Int : Total(f) = size * share
    <2> DEFINE F == PartialSums(f)
    <2>1. Sums(F, f, n) /\ Total(f) = F[n]
      BY <1>8
    <2> HIDE DEF F
    <2>2. MultipleOf(F[n], size)
      BY <1>1, <1>4, <1>6, <2>1, SumsDivide
    <2>3. QED
      BY <2>1, <2>2 DEF MultipleOf
  <1>10. Total(f) \div size = share
    BY <1>4, <1>8, <1>9, MultipleIs
  <1>11. Mean(members) = share
    BY <1>7, <1>10, IntIsValue DEF Mean, size
  <1>12. QED
    BY <1>4, <1>7, <1>9, <1>11 DEF size

\* No point represents a cluster better than its mean: f has the squared
\* errors with the cluster at some point, g with the cluster at its mean.
LEMMA MeanFitsBest ==
    ASSUME residuals \in Seq(Values), Exact,
           NEW members \in SUBSET (1 .. Len(residuals)), members # {}, NEW point \in Int,
           NEW f, NEW g, Len(f) = Len(residuals), Len(g) = Len(residuals),
           \A i \in 1 .. Len(residuals) :
                /\ f[i] \in Int /\ g[i] \in Int
                /\ i \in members => /\ f[i] = Square(Num(residuals[i]) - point)
                                    /\ g[i] = Square(Num(residuals[i]) - Mean(members))
                /\ i \notin members => f[i] = g[i]
    PROVE  Total(g) <= Total(f)
  <1> DEFINE n == Len(residuals)
             m == Mean(members)
             k == Cardinality(members)
             h == [i \in 1 .. n |-> IF i \in members THEN Num(residuals[i]) ELSE 0]
             e == [i \in 1 .. n |-> IF i \in members THEN 1 ELSE 0]
             a == 2 * (m - point)
             b == -((m - point) * (point + m))
  <1>1. n \in Nat /\ Rows = 1 .. n /\ \A i \in 1 .. n : Num(residuals[i]) \in Int
    BY RowsAre, NumIs
  <1>2. k \in Nat /\ m \in Int /\ SumOver(members) = k * m
    BY MeanIsExact
  <1>3. SumOver(members) = Total(h)
    BY <1>1 DEF SumOver
  <1>4. \A i \in 1 .. n : h[i] \in Int /\ e[i] \in Int
    BY <1>1
  <1>5. Len(h) = n /\ Len(e) = n
    BY <1>1
  <1>6. ASSUME NEW i \in 1 .. n PROVE f[i] = g[i] + a * h[i] + b * e[i]
    <2>1. a \in Int /\ b \in Int /\ g[i] \in Int
      BY <1>2
    <2>2. CASE i \in members
      <3> DEFINE r == Num(residuals[i])
      <3>1. f[i] = (r - point) * (r - point) /\ g[i] = (r - m) * (r - m) /\ h[i] = r /\ e[i] = 1
        BY <2>2 DEF Square
      <3>2. r \in Int
        BY <1>1
      <3> HIDE DEF r, h, e, m
      <3>3. (r - point) * (r - point) = (r - m) * (r - m) + (2 * (m - point)) * r
                                        + (-((m - point) * (point + m))) * 1
        BY <1>2, <3>2
      <3>4. QED
        BY <3>1, <3>3
    <2>3. CASE i \notin members
      <3>1. f[i] = g[i] /\ h[i] = 0 /\ e[i] = 0
        BY <2>3
      <3> HIDE DEF a, b, h, e
      <3>2. QED
        BY <2>1, <3>1
    <2>4. QED
      BY <2>2, <2>3
  <1>7. a \in Int /\ b \in Int
    BY <1>2
  <1> HIDE DEF n, m, k, h, e, a, b
  <1>8. /\ Sums(PartialSums(f), f, n) /\ Total(f) = PartialSums(f)[n]
        /\ Sums(PartialSums(g), g, n) /\ Total(g) = PartialSums(g)[n] /\ Total(g) \in Int
    <2>1. \A i \in 1 .. n : f[i] \in Int /\ g[i] \in Int
      BY DEF n
    <2>2. Len(f) = n /\ Len(g) = n
      BY DEF n
    <2>3. QED
      BY <1>1, <2>1, <2>2, TotalIs
  <1>9. /\ Sums(PartialSums(h), h, n) /\ Total(h) = PartialSums(h)[n]
        /\ Sums(PartialSums(e), e, n) /\ Total(e) = PartialSums(e)[n]
    BY <1>1, <1>4, <1>5, TotalIs
  <1>10. Total(f) = Total(g) + a * Total(h) + b * Total(e)
    <2>1. Combines(n, f, g, h, e, a, b)
      BY <1>4, <1>6 DEF n, Combines
    <2> DEFINE F == PartialSums(f)
               G == PartialSums(g)
               H == PartialSums(h)
               E == PartialSums(e)
    <2>2. Sums(F, f, n) /\ Sums(G, g, n) /\ Sums(H, h, n) /\ Sums(E, e, n)
      BY <1>8, <1>9
    <2> HIDE DEF F, G, H, E
    <2>3. F[n] = G[n] + a * H[n] + b * E[n]
      BY <1>1, <1>7, <2>1, <2>2, SumsCombine
    <2> USE DEF F, G, H, E
    <2>4. QED
      BY <1>8, <1>9, <2>3
  <1>11. Total(e) = k
    <2>1. members \in SUBSET (1 .. n)
      BY DEF n
    <2>2. Sums(PartialSums(e), [i \in 1 .. n |-> IF i \in members THEN 1 ELSE 0], n)
      BY <1>9 DEF e
    <2>3. PartialSums(e)[n] = Cardinality(members)
      BY <1>1, <2>1, <2>2, SumsCount
    <2>4. QED
      BY <1>9, <2>3 DEF k
  <1>12. Total(f) = Total(g) + k * ((m - point) * (m - point))
    <2> DEFINE d == m - point
    <2>1. Total(h) = k * m
      BY <1>2, <1>3
    <2>2. (2 * d) * (k * m) + (-(d * (point + m))) * k = k * (d * d)
      BY <1>2
    <2>3. d \in Int /\ (2 * d) * (k * m) \in Int /\ (-(d * (point + m))) * k \in Int
      BY <1>2
    <2>4. a = 2 * d /\ b = -(d * (point + m))
      BY DEF a, b
    <2>5. Total(f) = Total(g) + (2 * d) * (k * m) + (-(d * (point + m))) * k
      BY <1>10, <1>11, <2>1, <2>4
    <2> DEFINE p == (2 * d) * (k * m)
               q == (-(d * (point + m))) * k
    <2>6. p \in Int /\ q \in Int /\ Total(f) = Total(g) + p + q /\ p + q = k * (d * d)
      BY <2>2, <2>3, <2>5
    <2> HIDE DEF p, q
    <2>7. QED
      BY <1>8, <2>6
  <1>13. k * ((m - point) * (m - point)) \in Nat
    <2> DEFINE s == (m - point) * (m - point)
    <2>1. s \in Nat
      BY <1>2, SquareIs DEF Square
    <2> HIDE DEF s
    <2>2. k * s \in Nat
      BY <1>2, <2>1
    <2>3. QED
      BY <2>2 DEF s
  <1>14. QED
    <2> DEFINE s == k * ((m - point) * (m - point))
    <2>1. s \in Nat /\ Total(f) = Total(g) + s
      BY <1>12, <1>13
    <2> HIDE DEF s
    <2>2. QED
      BY <1>8, <2>1

\* The squared errors of the rows as the centroids are now, while the
\* iteration still works from the errors it began with.
Misfit == [row \in Rows |-> Distances(residuals[row], centroids)[assignments[row]]]

Iterating == training = "update" \/ (training = "assign" /\ iteration > 0)

\* No update of a centroid makes them worse.
ErrorInv ==
    /\ Started => Exact
    /\ training \in {"idle", "seeding"} => iteration = 0
    /\ outcome \in {"measured", "saved", "restored"} => training = "trained"
    /\ Iterating =>
        /\ assignments \in [1 .. Len(residuals) -> 1 .. Centroids]
        /\ errors \in [1 .. Len(residuals) -> Nat]
        /\ Total(Misfit) <= Total(errors)

\* They are numbers, each from the centroid of its row.
LEMMA MisfitIs ==
    ASSUME residuals \in Seq(Values), centroids \in Seq(Int), Len(centroids) = Centroids,
           assignments \in [1 .. Len(residuals) -> 1 .. Centroids]
    PROVE  /\ Len(Misfit) = Len(residuals) /\ DOMAIN Misfit = 1 .. Len(residuals)
           /\ \A i \in 1 .. Len(residuals) :
                /\ Misfit[i] = Square(Num(residuals[i]) - centroids[assignments[i]])
                /\ Misfit[i] \in Nat
  <1>1. Rows = 1 .. Len(residuals) /\ Len(residuals) \in Nat
    BY RowsAre
  <1>2. DOMAIN Misfit = 1 .. Len(residuals) /\ Len(Misfit) = Len(residuals)
    BY <1>1 DEF Misfit
  <1>3. ASSUME NEW i \in 1 .. Len(residuals)
        PROVE  /\ Misfit[i] = Square(Num(residuals[i]) - centroids[assignments[i]])
               /\ Misfit[i] \in Nat
    <2>1. residuals[i] \in Values /\ assignments[i] \in 1 .. Centroids
      OBVIOUS
    <2>2. assignments[i] \in DOMAIN centroids /\ centroids[assignments[i]] \in Int
      BY <2>1
    <2>3. Misfit[i] = Distances(residuals[i], centroids)[assignments[i]]
      BY <1>1 DEF Misfit
    <2>4. Misfit[i] = Square(Num(residuals[i]) - Num(centroids[assignments[i]]))
      BY <2>2, <2>3 DEF Distances
    <2>5. Num(residuals[i]) \in Int /\ Num(centroids[assignments[i]]) = centroids[assignments[i]]
      BY <2>1, <2>2, NumIs, IntIsValue
    <2>6. QED
      BY <2>2, <2>4, <2>5, SquareIs
  <1>4. QED
    BY <1>2, <1>3

\* What the errors are about does not change.
LEMMA SameErrors ==
    ASSUME residuals' = residuals, centroids' = centroids, assignments' = assignments
    PROVE  Misfit' = Misfit /\ Exact' = Exact
  BY DEF Misfit, Exact, Rows, Distances

\* A training begins before its first iteration.
LEMMA BeginErrors ==
    ASSUME ErrorInv, NEW set \in Seq(Values), BeginTrain(set),
           outcome' \notin {"measured", "saved", "restored"},
           \A i \in 1 .. Len(set), size \in 1 .. Len(set) : Num(set[i]) % size = 0
    PROVE  ErrorInv'
  <1>1. /\ training = "idle" /\ iteration' = iteration /\ residuals' = set
        /\ training' \in {"refused", "seeding"}
    BY DEF BeginTrain
  <1>2. iteration = 0
    BY <1>1 DEF ErrorInv
  <1>3. Exact'
    BY <1>1 DEF Exact, Rows
  <1>4. QED
    BY <1>1, <1>2, <1>3 DEF ErrorInv, Iterating

\* So does its selection of seeds end.
LEMMA SelectErrors ==
    ASSUME ErrorInv, SelectSeed, outcome' = outcome
    PROVE  ErrorInv'
  <1>1. /\ training = "seeding" /\ iteration' = iteration /\ residuals' = residuals
        /\ training' \in {"seeding", "assign"}
    BY DEF SelectSeed
  <1>2. iteration = 0 /\ Exact /\ outcome \notin {"measured", "saved", "restored"}
    BY <1>1 DEF ErrorInv, Started
  <1>3. Exact'
    BY <1>1, <1>2 DEF Exact, Rows
  <1>4. QED
    BY <1>1, <1>2, <1>3 DEF ErrorInv, Iterating

\* Every row goes to the nearest centroid, so none is farther from its own
\* than it was from the one it was assigned to.
LEMMA AssignErrors ==
    ASSUME TrainInv, ErrorInv, Assign, outcome' = outcome
    PROVE  ErrorInv' /\ (iteration > 0 => Total(errors') <= Total(errors))
  <1> DEFINE nearest == [row \in Rows |-> Nearest(residuals[row], centroids)]
             n == Len(residuals)
  <1>1. /\ training = "assign" /\ training' = "update"
        /\ residuals' = residuals /\ centroids' = centroids
        /\ assignments' = nearest
        /\ errors' = [row \in Rows |-> Distances(residuals[row], centroids)[nearest[row]]]
    BY DEF Assign
  <1>2. /\ residuals \in Seq(Values) /\ centroids \in Seq(Int) /\ Len(centroids) = Centroids
    BY <1>1 DEF TrainInv, SeedInv, Started
  <1>3. n \in Nat /\ Rows = 1 .. n /\ \A row \in Rows : residuals[row] \in Values
    BY <1>2, RowsAre
  <1>4. TrainInv'
    BY AssignKeeps
  <1>5. assignments' \in [1 .. n -> 1 .. Centroids] /\ errors' \in [1 .. n -> Nat]
    BY <1>1, <1>4 DEF TrainInv, LloydInv
  <1>6. Misfit' = errors'
    BY <1>1 DEF Misfit, Rows, Distances
  <1>7. Exact'
    <2>1. Exact
      BY <1>1 DEF ErrorInv, Started
    <2>2. QED
      BY <1>1, <2>1 DEF Exact, Rows
  <1>8. Total(errors') \in Int /\ Sums(PartialSums(errors'), errors', n)
        /\ Total(errors') = PartialSums(errors')[n]
    <2>1. Len(errors') = n /\ \A i \in 1 .. n : errors'[i] \in Int
      BY <1>3, <1>5
    <2> HIDE DEF n
    <2>2. QED
      BY <1>3, <2>1, TotalIs
  <1>9. ErrorInv'
    <2>1. Total(Misfit)' <= Total(errors)'
      BY <1>6, <1>8
    <2>2. outcome' \notin {"measured", "saved", "restored"}
      BY <1>1 DEF ErrorInv
    <2>3. /\ assignments' \in [1 .. Len(residuals') -> 1 .. Centroids]
          /\ errors' \in [1 .. Len(residuals') -> Nat]
      BY <1>1, <1>5
    <2>4. QED
      BY <1>1, <1>7, <2>1, <2>2, <2>3 DEF ErrorInv
  <1>10. ASSUME iteration > 0 PROVE Total(errors') <= Total(errors)
    <2>1. /\ assignments \in [1 .. n -> 1 .. Centroids] /\ errors \in [1 .. n -> Nat]
          /\ Total(Misfit) <= Total(errors)
      BY <1>1, <1>10 DEF ErrorInv, Iterating
    <2>2. Len(Misfit) = n /\ \A i \in 1 .. n : Misfit[i] \in Nat
      BY <1>2, <2>1, MisfitIs
    <2>3. ASSUME NEW i \in 1 .. n PROVE errors'[i] <= Misfit[i]
      <3>1. centroids \in Seq(Values) /\ Len(centroids) > 0
        <4>1. Int \subseteq Values
          BY IntIsValue
        <4>2. QED
          BY <1>2, <4>1, TrainingAssumption
      <3>2. residuals[i] \in Values /\ assignments[i] \in 1 .. Len(centroids)
        BY <1>2, <1>3, <2>1
      <3>3. Distances(residuals[i], centroids)[Nearest(residuals[i], centroids)]
                <= Distances(residuals[i], centroids)[assignments[i]]
        BY <3>1, <3>2, NearestIs
      <3>4. /\ errors'[i] = Distances(residuals[i], centroids)[Nearest(residuals[i], centroids)]
            /\ Misfit[i] = Distances(residuals[i], centroids)[assignments[i]]
        BY <1>1, <1>3 DEF Misfit
      <3>5. QED
        BY <3>3, <3>4
    <2> DEFINE f == errors'
               g == Misfit
    <2>4. /\ Sums(PartialSums(g), g, n) /\ Total(g) = PartialSums(g)[n] /\ Total(g) \in Int
      <3> HIDE DEF n, g
      <3>1. n \in Nat /\ Len(g) = n /\ \A i \in 1 .. n : g[i] \in Int
        BY <1>3, <2>2 DEF g
      <3>2. QED
        BY <3>1, TotalIs
    <2>5. PartialSums(f)[n] <= PartialSums(g)[n]
      <3>1. n \in Nat /\ \A i \in 1 .. n : f[i] \in Int /\ g[i] \in Int /\ f[i] <= g[i]
        BY <1>3, <1>5, <2>2, <2>3
      <3>2. Sums(PartialSums(f), f, n)
        BY <1>8
      <3> HIDE DEF n, f, g
      <3>3. QED
        BY <2>4, <3>1, <3>2, SumsCompare
    <2>6. Total(Misfit) \in Int /\ Total(errors) \in Int
      <3>1. Len(errors) = n /\ \A i \in 1 .. n : errors[i] \in Int
        BY <1>3, <2>1
      <3> HIDE DEF n
      <3>2. Total(errors) \in Int
        BY <1>3, <3>1, TotalIs
      <3>3. QED
        BY <2>4, <3>2
    <2>7. QED
      BY <1>8, <2>1, <2>4, <2>5, <2>6
  <1>11. QED
    BY <1>9, <1>10

\* A centroid set to the mean of its rows represents these no worse, and a
\* centroid without rows represents none.
LEMMA MoveErrors ==
    ASSUME TrainInv, ErrorInv, training = "update", next <= Centroids, NEW target \in Int,
           Move(target), Members(next) # {} => target = Mean(Members(next)), outcome' = outcome
    PROVE  ErrorInv'
  <1> DEFINE n == Len(residuals)
             members == Members(next)
             f == Misfit
             g == Misfit'
  <1>1. /\ centroids' = [centroids EXCEPT ![next] = target]
        /\ training' = training /\ residuals' = residuals /\ assignments' = assignments
        /\ errors' = errors /\ iteration' = iteration
    BY DEF Move
  <1>2. /\ residuals \in Seq(Values) /\ centroids \in Seq(Int) /\ Len(centroids) = Centroids
        /\ Exact
    BY DEF TrainInv, SeedInv, Started, ErrorInv
  <1>3. /\ assignments \in [1 .. n -> 1 .. Centroids] /\ errors \in [1 .. n -> Nat]
        /\ Total(Misfit) <= Total(errors)
    BY DEF ErrorInv, Iterating
  <1>4. next \in 1 .. Centroids
    BY TrainingAssumption DEF TrainInv, LloydInv
  <1>5. /\ centroids' \in Seq(Int) /\ Len(centroids') = Centroids
        /\ centroids'[next] = target /\ centroids[next] \in Int
        /\ \A c \in 1 .. Centroids : c # next => centroids'[c] = centroids[c]
    BY <1>1, <1>2, <1>4
  <1>6. n \in Nat /\ Rows = 1 .. n
    BY <1>2, RowsAre
  <1>7. /\ Len(f) = n /\ DOMAIN f = 1 .. n
        /\ \A i \in 1 .. n : /\ f[i] = Square(Num(residuals[i]) - centroids[assignments[i]])
                             /\ f[i] \in Nat
    BY <1>2, <1>3, MisfitIs
  <1>8. /\ Len(g) = n /\ DOMAIN g = 1 .. n
        /\ \A i \in 1 .. n : /\ g[i] = Square(Num(residuals[i]) - centroids'[assignments[i]])
                             /\ g[i] \in Nat
    <2>1. ASSUME NEW i \in 1 .. n
          PROVE  /\ g[i] = Square(Num(residuals[i]) - centroids'[assignments[i]])
                 /\ g[i] \in Nat
      <3>1. residuals[i] \in Values /\ assignments[i] \in 1 .. Centroids
        BY <1>2, <1>3
      <3>2. assignments[i] \in DOMAIN centroids' /\ centroids'[assignments[i]] \in Int
        BY <1>5, <3>1
      <3>3. g[i] = Distances(residuals[i], centroids')[assignments[i]]
        BY <1>1, <1>6 DEF Misfit, Rows, Distances
      <3>4. g[i] = Square(Num(residuals[i]) - Num(centroids'[assignments[i]]))
        BY <3>2, <3>3 DEF Distances
      <3>5. Num(residuals[i]) \in Int /\ Num(centroids'[assignments[i]]) = centroids'[assignments[i]]
        BY <3>1, <3>2, NumIs, IntIsValue
      <3> HIDE DEF g
      <3>6. g[i] = Square(Num(residuals[i]) - centroids'[assignments[i]])
        BY <3>4, <3>5
      <3>7. Num(residuals[i]) - centroids'[assignments[i]] \in Int
        BY <3>2, <3>5
      <3>8. QED
        BY <3>6, <3>7, SquareIs
    <2>2. g = [row \in Rows |-> g[row]]
      BY <1>1 DEF Misfit, Rows
    <2> HIDE DEF g
    <2>3. QED
      BY <1>6, <2>1, <2>2
  <1>9. members \in SUBSET (1 .. n) /\ \A i \in 1 .. n : i \in members <=> assignments[i] = next
    BY <1>6 DEF Members
  <1> HIDE DEF n, members, f, g
  <1>10. Total(g) <= Total(f)
    <2>1. CASE members = {}
      <3>1. ASSUME NEW i \in 1 .. n PROVE g[i] = f[i]
        <4>1. assignments[i] # next /\ assignments[i] \in 1 .. Centroids
          BY <1>3, <1>9, <2>1
        <4>2. centroids'[assignments[i]] = centroids[assignments[i]]
          BY <1>5, <4>1
        <4>3. QED
          BY <1>7, <1>8, <4>2
      <3>2. Total(f) \in Int /\ Total(g) \in Int
        <4>1. \A i \in 1 .. n : f[i] \in Int /\ g[i] \in Int
          BY <1>7, <1>8
        <4>2. QED
          BY <1>6, <1>7, <1>8, <4>1, TotalIs
      <3>3. /\ Sums(PartialSums(f), f, n) /\ Total(f) = PartialSums(f)[n]
            /\ Sums(PartialSums(g), g, n) /\ Total(g) = PartialSums(g)[n]
        <4>1. \A i \in 1 .. n : f[i] \in Int /\ g[i] \in Int
          BY <1>7, <1>8
        <4>2. QED
          BY <1>6, <1>7, <1>8, <4>1, TotalIs
      <3>4. \A i \in 1 .. n : f[i] \in Int /\ g[i] \in Int /\ g[i] <= f[i]
        BY <1>7, <1>8, <3>1
      <3>5. PartialSums(g)[n] <= PartialSums(f)[n]
        BY <1>6, <3>3, <3>4, SumsCompare
      <3>6. QED
        BY <3>3, <3>5
    <2>2. CASE members # {}
      <3>1. target = Mean(members)
        BY <2>2 DEF members
      <3>2. ASSUME NEW i \in 1 .. n
            PROVE  /\ f[i] \in Int /\ g[i] \in Int
                   /\ i \in members => /\ f[i] = Square(Num(residuals[i]) - centroids[next])
                                       /\ g[i] = Square(Num(residuals[i]) - Mean(members))
                   /\ i \notin members => f[i] = g[i]
        <4>1. CASE i \in members
          <5>1. assignments[i] = next
            BY <1>9, <4>1
          <5>2. QED
            BY <1>5, <1>7, <1>8, <3>1, <4>1, <5>1
        <4>2. CASE i \notin members
          <5>1. assignments[i] # next /\ assignments[i] \in 1 .. Centroids
            BY <1>3, <1>9, <4>2
          <5>2. centroids'[assignments[i]] = centroids[assignments[i]]
            BY <1>5, <5>1
          <5>3. QED
            BY <1>7, <1>8, <4>2, <5>2
        <4>3. QED
          BY <4>1, <4>2
      <3>3. /\ members \in SUBSET (1 .. Len(residuals)) /\ Len(f) = Len(residuals)
            /\ Len(g) = Len(residuals)
        BY <1>7, <1>8, <1>9 DEF n
      <3> DEFINE point == centroids[next]
      <3>4. point \in Int
        BY <1>5
      <3>5. \A i \in 1 .. Len(residuals) :
                /\ f[i] \in Int /\ g[i] \in Int
                /\ i \in members => /\ f[i] = Square(Num(residuals[i]) - point)
                                    /\ g[i] = Square(Num(residuals[i]) - Mean(members))
                /\ i \notin members => f[i] = g[i]
        BY <3>2 DEF n
      <3> HIDE DEF point
      <3>6. QED
        BY <1>2, <2>2, <3>3, <3>4, <3>5, MeanFitsBest
    <2>3. QED
      BY <2>1, <2>2
  <1>11. Total(f) \in Int /\ Total(g) \in Int /\ Total(errors) \in Int
    <2>1. \A i \in 1 .. n : f[i] \in Int /\ g[i] \in Int /\ errors[i] \in Int
      BY <1>3, <1>7, <1>8
    <2>2. Len(errors) = n
      BY <1>3, <1>6
    <2>3. QED
      BY <1>6, <1>7, <1>8, <2>1, <2>2, TotalIs
  <1>12. Total(g) <= Total(errors)
    BY <1>3, <1>10, <1>11 DEF f
  <1>13. Total(Misfit)' <= Total(errors)'
    BY <1>1, <1>12 DEF g
  <1>14. Exact'
    BY <1>1, <1>2 DEF Exact, Rows
  <1>15. /\ assignments' \in [1 .. Len(residuals') -> 1 .. Centroids]
         /\ errors' \in [1 .. Len(residuals') -> Nat]
    BY <1>1, <1>3 DEF n
  <1>16. training' = "update" /\ outcome' \notin {"measured", "saved", "restored"}
    BY <1>1 DEF ErrorInv
  <1>17. QED
    BY <1>13, <1>14, <1>15, <1>16 DEF ErrorInv

\* Every step of a training.
LEMMA TrainErrors ==
    ASSUME TrainInv, ErrorInv, TrainStep, outcome' = outcome
    PROVE  ErrorInv' /\ (training = "assign" /\ iteration > 0 => Total(errors') <= Total(errors))
  <1>1. CASE SelectSeed
    <2>1. training # "assign"
      BY <1>1 DEF SelectSeed
    <2>2. QED
      BY <1>1, <2>1, SelectErrors
  <1>2. CASE Assign
    BY <1>2, AssignErrors
  <1>3. CASE Reseed \/ Recenter
    <2>1. /\ training = "update" /\ next <= Centroids
          /\ \/ Members(next) = {} /\ Move(Subvector(LargestError))
             \/ Members(next) # {} /\ Move(Mean(Members(next)))
      BY <1>3 DEF Reseed, Recenter
    <2>2. PICK target : /\ Move(target) /\ (Members(next) # {} => target = Mean(Members(next)))
      BY <2>1
    <2>3. target \in Int
      <3>1. TrainInv'
        BY <1>3, TrainStepKeeps DEF TrainStep
      <3>2. /\ training' = "update" /\ centroids' = [centroids EXCEPT ![next] = target]
        BY <2>1, <2>2 DEF Move
      <3>3. centroids' \in Seq(Int) /\ centroids \in Seq(Int) /\ Len(centroids) = Centroids
        BY <2>1, <3>1, <3>2 DEF TrainInv, SeedInv, Started
      <3>4. next \in 1 .. Centroids
        BY <2>1, TrainingAssumption DEF TrainInv, LloydInv
      <3>5. next \in DOMAIN centroids' /\ centroids'[next] = target
        BY <3>2, <3>3, <3>4
      <3>6. QED
        BY <3>3, <3>5
    <2>4. QED
      BY <2>1, <2>2, <2>3, MoveErrors
  <1>4. CASE EndIteration
    <2>1. /\ training = "update" /\ training' \in {"trained", "assign"}
          /\ residuals' = residuals /\ centroids' = centroids /\ assignments' = assignments
          /\ errors' = errors
      BY <1>4 DEF EndIteration
    <2>2. Misfit' = Misfit /\ Exact' = Exact
      BY <2>1, SameErrors
    <2>3. Total(Misfit)' = Total(Misfit) /\ Total(errors)' = Total(errors)
      BY <2>1, <2>2
    <2>4. QED
      BY <2>1, <2>2, <2>3 DEF ErrorInv, Started, Iterating
  <1>5. QED
    BY <1>1, <1>2, <1>3, <1>4 DEF TrainStep

\* A step that leaves the training as it is.
LEMMA OtherErrors ==
    ASSUME ErrorInv, UNCHANGED trainVars,
           outcome' \in {"measured", "saved", "restored"} => training = "trained"
    PROVE  ErrorInv'
  <1>1. /\ training' = training /\ residuals' = residuals /\ centroids' = centroids
        /\ assignments' = assignments /\ errors' = errors /\ iteration' = iteration
    BY DEF trainVars
  <1>2. Misfit' = Misfit /\ Exact' = Exact
    BY <1>1, SameErrors
  <1>3. Total(Misfit)' = Total(Misfit) /\ Total(errors)' = Total(errors)
    BY <1>1, <1>2
  <1>4. QED
    BY <1>1, <1>2, <1>3 DEF ErrorInv, Started, Iterating

-----------------------------------------------------------------------------
(* Order statistics: the centers of a quantizer, the percentiles of a baseline. *)

\* The values that no fewer than k of them reach.
Reached(values, k) ==
    {v \in Range(values) :
        Cardinality({i \in DOMAIN values : Num(values[i]) <= Num(v)}) >= k}

\* The n-th value is the least of those.
LEMMA NthIs ==
    ASSUME NEW n \in Nat, NEW values, DOMAIN values = 1 .. n,
           \A i \in 1 .. n : values[i] \in Values, NEW k \in 1 .. n
    PROVE  /\ Nth(values, k) \in Reached(values, k)
           /\ \A v \in Reached(values, k) : Num(Nth(values, k)) <= Num(v)
  <1> DEFINE f == [i \in 1 .. n |-> -Num(values[i])]
             R == Reached(values, k)
  <1>1. \A i \in 1 .. n : Num(values[i]) \in Int
    BY NumIs
  <1>2. PICK m \in 1 .. n : \A i \in 1 .. n : Num(values[i]) <= Num(values[m])
    <2>1. \A i \in 1 .. n : f[i] \in Int
      BY <1>1
    <2>2. 1 .. n # {} /\ 1 .. n \in SUBSET (1 .. n)
      OBVIOUS
    <2> HIDE DEF f
    <2>3. PICK m \in 1 .. n : \A i \in 1 .. n : f[m] <= f[i]
      BY <2>1, <2>2, HasLeast
    <2> USE DEF f
    <2>4. ASSUME NEW i \in 1 .. n PROVE Num(values[i]) <= Num(values[m])
      <3>1. -Num(values[m]) <= -Num(values[i])
        BY <2>3
      <3>2. QED
        BY <1>1, <3>1
    <2>5. QED
      BY <2>4
  <1>3. values[m] \in R
    <2>1. {i \in DOMAIN values : Num(values[i]) <= Num(values[m])} = 1 .. n
      BY <1>2
    <2>2. Cardinality(1 .. n) = n
      BY FS_Interval
    <2>3. values[m] \in Range(values)
      BY <1>2 DEF Range
    <2>4. n >= k
      OBVIOUS
    <2>5. QED
      BY <2>1, <2>2, <2>3, <2>4 DEF Reached
  <1>4. \A v \in R : \E i \in 1 .. n : v = values[i]
    BY DEF Reached, Range
  <1> HIDE DEF R
  <1> DEFINE D == {i \in 1 .. n : values[i] \in R}
             g == [i \in 1 .. n |-> Num(values[i])]
  <1>5. PICK l \in D : \A i \in D : Num(values[l]) <= Num(values[i])
    <2>1. D \in SUBSET (1 .. n) /\ D # {}
      BY <1>3
    <2>2. \A i \in D : g[i] \in Int /\ g[i] = Num(values[i])
      BY <1>1
    <2> HIDE DEF D, g
    <2>3. PICK l \in D : \A i \in D : g[l] <= g[i]
      BY <2>1, <2>2, HasLeast
    <2>4. QED
      BY <2>2, <2>3
  <1>6. values[l] \in R /\ \A v \in R : Num(values[l]) <= Num(v)
    <2>1. ASSUME NEW v \in R PROVE Num(values[l]) <= Num(v)
      <3>1. PICK i \in 1 .. n : v = values[i]
        BY <1>4
      <3>2. i \in D
        BY <3>1
      <3>3. QED
        BY <1>5, <3>1, <3>2
    <2>2. QED
      BY <1>5, <2>1
  <1>7. Nth(values, k) = CHOOSE v \in R : \A w \in R : Num(v) <= Num(w)
    BY DEF Nth, R, Reached
  <1>8. QED
    BY <1>6, <1>7 DEF R

\* It is one of the values.
LEMMA NthIsValue ==
    ASSUME NEW n \in Nat, NEW values, DOMAIN values = 1 .. n,
           \A i \in 1 .. n : values[i] \in Values, NEW k \in 1 .. n
    PROVE  \E i \in 1 .. n : Nth(values, k) = values[i]
  <1>1. Nth(values, k) \in Reached(values, k)
    BY NthIs
  <1>2. QED
    BY <1>1 DEF Reached, Range

\* And it grows with n.
LEMMA NthGrows ==
    ASSUME NEW n \in Nat, NEW values, DOMAIN values = 1 .. n,
           \A i \in 1 .. n : values[i] \in Values, NEW k \in 1 .. n, NEW l \in 1 .. n, k <= l
    PROVE  Num(Nth(values, k)) <= Num(Nth(values, l))
  <1>1. Nth(values, l) \in Reached(values, l)
    BY NthIs
  <1>2. Nth(values, l) \in Reached(values, k)
    <2> DEFINE v == Nth(values, l)
               U == {i \in DOMAIN values : Num(values[i]) <= Num(v)}
    <2>1. v \in Range(values) /\ Cardinality(U) >= l
      BY <1>1 DEF Reached
    <2>2. Cardinality(U) \in Nat
      <3>1. IsFiniteSet(1 .. n) /\ U \in SUBSET (1 .. n)
        BY FS_Interval
      <3>2. QED
        BY <3>1, FS_Subset, FS_CardinalityType
    <2>3. Cardinality(U) >= k
      BY <2>1, <2>2
    <2>4. QED
      BY <2>1, <2>3 DEF Reached
  <1>3. QED
    BY <1>2, NthIs

\* Division, which SMT does not know for a divisor that is a variable.
LEMMA DivGrows ==
    ASSUME NEW a \in Nat, NEW b \in Nat, NEW d \in Nat \ {0}, a <= b
    PROVE  a \div d \in Nat /\ a \div d <= b \div d
  <1>1. /\ a \div d \in Int /\ b \div d \in Int
        /\ d * (a \div d) <= a /\ a < d * (a \div d) + d
        /\ d * (b \div d) <= b /\ b < d * (b \div d) + d
    BY SMT
  <1>2. QED
    BY <1>1, SMT

\* The products that ranks are computed from.
LEMMA TimesGrows ==
    ASSUME NEW a \in Nat, NEW b \in Nat, NEW k \in Nat, a <= b
    PROVE  a * k \in Nat /\ b * k \in Nat /\ a * k <= b * k
  <1>1. b - a \in Nat
    OBVIOUS
  <1>2. (b - a) * k >= 0
    BY <1>1, SMT
  <1>3. b * k = a * k + (b - a) * k
    BY SMT
  <1>4. a * k \in Nat /\ b * k \in Nat /\ (b - a) * k \in Nat
    BY <1>1, SMT
  <1>5. QED
    BY <1>2, <1>3, <1>4

\* The ranks of the centers are those of samples, and grow with the center.
LEMMA QuantileRankIs ==
    ASSUME NEW n \in Nat \ {0}, NEW c \in 1 .. Centers
    PROVE  /\ QuantileRank(c - 1, n) + 1 \in 1 .. n
           /\ c >= 2 => QuantileRank(c - 2, n) + 1 <= QuantileRank(c - 1, n) + 1
  <1> DEFINE d == Centers - 1
             m == n - 1
  <1>1. d \in Nat \ {0} /\ m \in Nat /\ c - 1 \in Nat /\ c - 1 <= d
    BY ModelAssumption
  <1>2. /\ QuantileRank(c - 1, n) = ((c - 1) * m) \div d
        /\ QuantileRank(c - 2, n) = ((c - 2) * m) \div d
    BY DEF QuantileRank
  <1> HIDE DEF d, m
  <1>3. /\ (c - 1) * m \in Nat /\ d * m \in Nat /\ (c - 1) * m <= d * m
    BY <1>1, TimesGrows
  <1>4. /\ ((c - 1) * m) \div d \in Nat
        /\ ((c - 1) * m) \div d <= (d * m) \div d
    BY <1>1, <1>3, DivGrows
  <1>5. (d * m) \div d = m
    BY <1>1, SMT
  <1>6. ASSUME c >= 2 PROVE QuantileRank(c - 2, n) + 1 <= QuantileRank(c - 1, n) + 1
    <2>1. c - 2 \in Nat /\ c - 2 <= c - 1
      BY <1>6
    <2>2. (c - 2) * m \in Nat /\ (c - 2) * m <= (c - 1) * m
      BY <1>1, <2>1, TimesGrows
    <2>3. ((c - 2) * m) \div d \in Nat /\ ((c - 2) * m) \div d <= ((c - 1) * m) \div d
      BY <1>1, <1>3, <2>2, DivGrows
    <2>4. QED
      BY <1>2, <1>4, <2>3
  <1>7. QED
    BY <1>2, <1>4, <1>5, <1>6 DEF m

\* A table of centers: canonical, and in order.
Ordered(table) ==
    /\ table \in Seq(Int) /\ Len(table) = Centers
    /\ \A c \in 2 .. Centers : table[c] >= table[c - 1]

\* Training makes one of any values.
LEMMA TrainCentersIs ==
    ASSUME NEW values \in Seq(Values), Len(values) > 0
    PROVE  Ordered(TrainCenters(values))
  <1> DEFINE n == Len(values)
             v == [i \in DOMAIN values |-> Canonical(values[i])]
             rank(c) == QuantileRank(c - 1, n) + 1
             table == TrainCenters(values)
  <1>1. n \in Nat \ {0} /\ DOMAIN v = 1 .. n /\ \A i \in 1 .. n : values[i] \in Values
    OBVIOUS
  <1>2. \A i \in 1 .. n : v[i] \in Int
    BY <1>1, CanonicalIs
  <1>3. \A i \in 1 .. n : v[i] \in Values
    BY <1>2, IntIsValue
  <1>4. table = [c \in 1 .. Centers |-> Nth(v, rank(c))]
    BY DEF TrainCenters
  <1> HIDE DEF n, v, table
  <1>5. ASSUME NEW c \in 1 .. Centers PROVE rank(c) \in 1 .. n
    BY <1>1, QuantileRankIs
  <1>6. ASSUME NEW c \in 1 .. Centers PROVE table[c] \in Int /\ table[c] = Nth(v, rank(c))
    <2>1. rank(c) \in 1 .. n
      BY <1>5
    <2> HIDE DEF rank
    <2>2. \E i \in 1 .. n : Nth(v, rank(c)) = v[i]
      BY <1>1, <1>3, <2>1, NthIsValue
    <2>3. table[c] = Nth(v, rank(c))
      BY <1>4
    <2>4. QED
      BY <1>2, <2>2, <2>3
  <1>7. ASSUME NEW c \in 2 .. Centers PROVE table[c] >= table[c - 1]
    <2>1. c \in 1 .. Centers /\ c - 1 \in 1 .. Centers /\ c >= 2
      BY ModelAssumption
    <2>2. rank(c - 1) <= rank(c)
      <3>1. QuantileRank(c - 2, n) + 1 <= QuantileRank(c - 1, n) + 1
        BY <1>1, <2>1, QuantileRankIs
      <3>2. (c - 1) - 1 = c - 2
        BY <2>1
      <3>3. QED
        BY <3>1, <3>2
    <2>3. rank(c) \in 1 .. n /\ rank(c - 1) \in 1 .. n
      BY <1>5, <2>1
    <2> DEFINE k == rank(c - 1)
               l == rank(c)
    <2>4. table[c] = Nth(v, l) /\ table[c - 1] = Nth(v, k) /\ table[c] \in Int /\ table[c - 1] \in Int
      BY <1>6, <2>1
    <2>5. k \in 1 .. n /\ l \in 1 .. n /\ k <= l
      BY <2>2, <2>3
    <2> HIDE DEF k, l
    <2>6. Num(Nth(v, k)) <= Num(Nth(v, l))
      BY <1>1, <1>3, <2>5, NthGrows
    <2>7. QED
      BY <2>4, <2>6, IntIsValue
  <1>8. table \in Seq(Int) /\ Len(table) = Centers
    <2>1. table \in [1 .. Centers -> Int]
      BY <1>4, <1>6
    <2>2. QED
      BY <2>1, ModelAssumption
  <1>9. QED
    BY <1>7, <1>8 DEF Ordered, table

\* The ranks of the percentiles are those of samples, in order.
LEMMA PercentRanks ==
    ASSUME NEW n \in Nat \ {0}
    PROVE  /\ (n * 50 + 99) \div 100 \in 1 .. n
           /\ (n * 95 + 99) \div 100 \in 1 .. n
           /\ (n * 99 + 99) \div 100 \in 1 .. n
           /\ (n * 50 + 99) \div 100 <= (n * 95 + 99) \div 100
           /\ (n * 95 + 99) \div 100 <= (n * 99 + 99) \div 100
  BY SMT

\* Three percentiles of errors.
Percentiles(values) == [i \in 1 .. 3 |-> Percentile(values, <<50, 95, 99>>[i])]

LEMMA PercentilesAre ==
    ASSUME NEW n \in Nat \ {0}, NEW values, DOMAIN values = 1 .. n, Len(values) = n,
           \A i \in 1 .. n : values[i] \in Nat, NEW p, p = Percentiles(values)
    PROVE  /\ \A i \in 1 .. 3 : p[i] >= 0
           /\ \A i \in 2 .. 3 : p[i] >= p[i - 1]
  <1> DEFINE k1 == (n * 50 + 99) \div 100
             k2 == (n * 95 + 99) \div 100
             k3 == (n * 99 + 99) \div 100
  <1>1. /\ k1 \in 1 .. n /\ k2 \in 1 .. n /\ k3 \in 1 .. n /\ k1 <= k2 /\ k2 <= k3
    BY PercentRanks
  <1>2. p[1] = Nth(values, k1) /\ p[2] = Nth(values, k2) /\ p[3] = Nth(values, k3)
    BY DEF Percentiles, Percentile
  <1> HIDE DEF k1, k2, k3
  <1>3. \A i \in 1 .. n : values[i] \in Values
    BY IntIsValue
  <1>4. ASSUME NEW k \in 1 .. n
        PROVE  Nth(values, k) \in Nat /\ Num(Nth(values, k)) = Nth(values, k)
    <2>1. \E i \in 1 .. n : Nth(values, k) = values[i]
      BY <1>3, NthIsValue
    <2>2. QED
      BY <2>1, IntIsValue
  <1>5. Num(Nth(values, k1)) <= Num(Nth(values, k2))
    BY <1>1, <1>3, NthGrows
  <1>6. Num(Nth(values, k2)) <= Num(Nth(values, k3))
    BY <1>1, <1>3, NthGrows
  <1>7. p[1] \in Nat /\ p[2] \in Nat /\ p[3] \in Nat /\ p[1] <= p[2] /\ p[2] <= p[3]
    BY <1>1, <1>2, <1>4, <1>5, <1>6
  <1>8. \A i \in 1 .. 3 : i = 1 \/ i = 2 \/ i = 3
    OBVIOUS
  <1>9. \A i \in 2 .. 3 : (i = 2 /\ i - 1 = 1) \/ (i = 3 /\ i - 1 = 2)
    OBVIOUS
  <1>10. \A i \in 1 .. 3 : p[i] >= 0
    BY <1>7, <1>8
  <1>11. ASSUME NEW i \in 2 .. 3 PROVE p[i] >= p[i - 1]
    BY <1>7, <1>9
  <1>12. QED
    BY <1>10, <1>11

\* What the percentiles of some samples report is a valid baseline.
LEMMA SummaryIsValid ==
    ASSUME NEW n \in Nat \ {0}, NEW samples, DOMAIN samples = 1 .. n, Len(samples) = n,
           \A i \in 1 .. n : samples[i].primary \in Nat /\ samples[i].refined \in Nat
    PROVE  ValidBaseline(Summary(samples))
  <1> DEFINE first == [i \in DOMAIN samples |-> samples[i].primary]
             second == [i \in DOMAIN samples |-> samples[i].refined]
             out == {i \in DOMAIN samples : samples[i].outside}
             b == Summary(samples)
  <1>1. /\ b.primary = Percentiles(first) /\ b.refined = Percentiles(second)
        /\ b.outside = Cardinality(out) /\ b.of = n
    BY DEF Summary, Percentiles
  <1>2. /\ DOMAIN first = 1 .. n /\ Len(first) = n /\ \A i \in 1 .. n : first[i] \in Nat
        /\ DOMAIN second = 1 .. n /\ Len(second) = n /\ \A i \in 1 .. n : second[i] \in Nat
    OBVIOUS
  <1>3. Cardinality(out) \in 0 .. n
    <2>1. IsFiniteSet(1 .. n) /\ Cardinality(1 .. n) = n /\ out \in SUBSET (1 .. n)
      BY FS_Interval
    <2>2. Cardinality(out) \in Nat /\ Cardinality(out) <= n
      BY <2>1, FS_Subset, FS_CardinalityType
    <2>3. QED
      BY <2>2
  <1> HIDE DEF first, second, out, b
  <1>4. /\ \A i \in 1 .. 3 : b.primary[i] >= 0
        /\ \A i \in 2 .. 3 : b.primary[i] >= b.primary[i - 1]
    BY <1>1, <1>2, PercentilesAre
  <1>5. /\ \A i \in 1 .. 3 : b.refined[i] >= 0
        /\ \A i \in 2 .. 3 : b.refined[i] >= b.refined[i - 1]
    BY <1>1, <1>2, PercentilesAre
  <1>6. QED
    BY <1>1, <1>3, <1>4, <1>5 DEF ValidBaseline, b

-----------------------------------------------------------------------------
(* The inductive invariant of a model, from its training to its file. *)

\* The tables a model encodes with.
Tables(table, codebook) ==
    /\ Ordered(table)
    /\ codebook \in Seq(Int) /\ Len(codebook) = Centroids

\* What a row leaves when its center is subtracted is a value.
LEMMA ResidualIs ==
    ASSUME NEW table, Ordered(table), NEW value \in Values
    PROVE  Residual(value, table) \in Values
  <1>1. table \in Seq(Values) /\ Len(table) > 0 /\ table \in Seq(Int)
    BY ModelAssumption DEF Ordered, Values
  <1>2. Nearest(value, table) \in 1 .. Len(table)
    BY <1>1, NearestIs
  <1>3. Decoded(value, table) \in Int
    BY <1>1, <1>2 DEF Decoded
  <1>4. Num(value) - Num(Decoded(value, table)) \in Int
    BY <1>3, NumIs, IntIsValue
  <1>5. QED
    BY <1>4 DEF Residual, Minus, Values

\* The errors of a row are numbers, and none is negative.
LEMMA StatsAre ==
    ASSUME Tables(centers, centroids), NEW value \in Values
    PROVE  Stats(value).primary \in Nat /\ Stats(value).refined \in Nat
  <1>1. centroids \in Seq(Values) /\ Len(centroids) > 0 /\ Len(centroids) \in Nat
    BY TrainingAssumption DEF Tables, Values
  <1>2. Residual(value, centers) \in Values
    BY ResidualIs DEF Tables
  <1> DEFINE r == Residual(value, centers)
             decoded == centroids[Nearest(r, centroids)]
  <1>3. decoded \in Int
    <2>1. Nearest(r, centroids) \in 1 .. Len(centroids)
      BY <1>1, <1>2, NearestIs
    <2> HIDE DEF r
    <2>2. QED
      BY <1>1, <2>1 DEF Tables
  <1>4. /\ Stats(value).primary = AbsNum(Num(r))
        /\ Stats(value).refined = AbsNum(Num(r) - Num(decoded))
    BY DEF Stats
  <1> HIDE DEF r, decoded
  <1>5. Num(r) \in Int /\ Num(decoded) \in Int
    BY <1>2, <1>3, NumIs, IntIsValue DEF r
  <1>6. QED
    BY <1>4, <1>5 DEF AbsNum

\* A file that was written holds what validation accepts, under identities
\* derived from it.
Saved ==
    /\ ValidFile(file)
    /\ file.quantizer_id = file.centers /\ file.codebook_id = file.centroids

Closed == {"building", "EmptyCommit", "committed"}

\* What each call leaves for the next.
ModelInv ==
    /\ outcome \in {"none", "InvalidTraining", "alone", "training", "measured", "saved",
                    "restored"} \cup Closed
    /\ outcome \in {"none", "InvalidTraining"} => training = "idle" /\ seeds = <<>>
    /\ outcome \in {"training", "measured"} =>
        /\ Started /\ Ordered(centers)
        /\ rows \in Seq(Values) /\ validation \in 1 .. Len(rows)
    /\ outcome = "measured" => training = "trained" /\ ValidBaseline(baseline)
    /\ outcome \in {"saved", "restored"} => Saved
    /\ outcome \in Closed => training = "idle"

\* A training that has begun is not undone.
LEMMA StaysStarted ==
    ASSUME TrainStep
    PROVE  Started /\ Started'
  BY DEF TrainStep, SelectSeed, Assign, Reseed, Recenter, Move, EndIteration, Started

LEMMA BeginModelKeeps ==
    ASSUME TrainInv, ModelInv, NEW all \in TrainingRows, NEW part \in ValidationRows,
           BeginModel(all, part)
    PROVE  TrainInv' /\ ModelInv'
  <1>1. outcome = "none" /\ training = "idle" /\ seeds = <<>>
    BY DEF BeginModel, ModelInv
  <1>2. CASE Refused(all, part)
    <2>1. outcome' = "InvalidTraining" /\ UNCHANGED trainVars
      BY <1>2 DEF BeginModel, trainVars
    <2>2. training' = "idle" /\ seeds' = <<>>
      BY <1>1, <2>1 DEF trainVars
    <2>3. TrainInv'
      BY <2>1, SameTraining
    <2>4. QED
      BY <2>1, <2>2, <2>3 DEF ModelInv, Closed
  <1>3. CASE ~ Refused(all, part)
    <2> DEFINE trained == TrainingPart(rows', part)
               left == [i \in DOMAIN trained |-> Residual(trained[i], centers')]
    <2>1. PICK order \in HashOrders : rows' = [i \in DOMAIN all |-> all[order[i]]]
      BY <1>3 DEF BeginModel
    <2>2. /\ validation' = part /\ centers' = TrainCenters(trained)
          /\ BeginTrain(left) /\ outcome' = "training"
      BY <1>3 DEF BeginModel
    <2>3. all \in Seq(Values) /\ order \in [DOMAIN all -> DOMAIN all] /\ part \in Nat
      BY ModelAssumption DEF Bijection, Injection
    <2>4. part # 0 /\ Len(all) - part >= Centroids /\ Len(all) \in Nat /\ Centroids \in Nat \ {0}
      BY <1>3, <2>3, TrainingAssumption DEF Refused
    <2>5. rows' \in Seq(Values) /\ Len(rows') = Len(all)
      <3>1. DOMAIN all = 1 .. Len(all) /\ \A i \in 1 .. Len(all) : all[i] \in Values
        BY <2>3
      <3>2. rows' \in [1 .. Len(all) -> Values]
        <4>1. \A i \in 1 .. Len(all) : order[i] \in 1 .. Len(all)
          BY <2>3, <3>1
        <4>2. \A i \in 1 .. Len(all) : all[order[i]] \in Values
          BY <3>1, <4>1
        <4>3. QED
          BY <2>1, <3>1, <4>2
      <3>3. QED
        BY <2>4, <3>2
    <2>6. validation' \in 1 .. Len(rows')
      BY <2>2, <2>3, <2>4, <2>5
    <2>7. trained \in Seq(Values) /\ Len(trained) >= Centroids
      <3>1. trained = SubSeq(rows', part + 1, Len(rows'))
        BY DEF TrainingPart
      <3>2. \A i \in part + 1 .. Len(rows') : rows'[i] \in Values
        BY <2>3, <2>5
      <3>3. /\ trained \in Seq(Values)
            /\ Len(trained) = IF part + 1 <= Len(rows') THEN Len(rows') - (part + 1) + 1 ELSE 0
        BY <2>3, <2>4, <2>5, <3>1, <3>2, SubSeqProperties
      <3>4. QED
        BY <2>3, <2>4, <2>5, <3>3
    <2> HIDE DEF trained
    <2>8. Ordered(centers')
      <3>1. Len(trained) > 0
        BY <2>4, <2>7
      <3>2. QED
        BY <2>2, <2>7, <3>1, TrainCentersIs
    <2>9. left \in Seq(Values) /\ Len(left) >= Centroids
      <3>1. DOMAIN trained = 1 .. Len(trained) /\ Len(trained) \in Nat
        BY <2>7
      <3>2. ASSUME NEW i \in 1 .. Len(trained) PROVE left[i] \in Values
        <4>1. trained[i] \in Values
          BY <2>7
        <4>2. left[i] = Residual(trained[i], centers')
          BY <3>1
        <4>3. QED
          BY <2>8, <4>1, <4>2, ResidualIs
      <3>3. left \in [1 .. Len(trained) -> Values]
        BY <3>1, <3>2
      <3> HIDE DEF left
      <3>4. QED
        BY <2>7, <3>1, <3>3
    <2> HIDE DEF left
    <2>10. TrainInv'
      BY <1>1, <2>2, <2>9, BeginKeeps
    <2>11. training' = "seeding"
      BY <2>2, <2>4, <2>9 DEF BeginTrain
    <2>12. Ordered(centers)'
      BY <2>8 DEF Ordered
    <2>13. QED
      BY <2>2, <2>5, <2>6, <2>10, <2>11, <2>12 DEF ModelInv, Closed, Started
  <1>4. QED
    BY <1>2, <1>3

LEMMA MeasureKeeps ==
    ASSUME TrainInv, ModelInv, MeasureBaseline
    PROVE  TrainInv' /\ ModelInv'
  <1>1. /\ outcome = "training" /\ training = "trained" /\ outcome' = "measured"
        /\ UNCHANGED trainVars
        /\ rows' = rows /\ validation' = validation /\ centers' = centers /\ file' = file
        /\ baseline' = Summary([i \in DOMAIN Validation |-> Stats(Validation[i])])
    BY DEF MeasureBaseline
  <1>2. TrainInv'
    BY <1>1, SameTraining
  <1>3. /\ rows \in Seq(Values) /\ validation \in 1 .. Len(rows)
        /\ Tables(centers, centroids)
    BY <1>1 DEF ModelInv, TrainInv, SeedInv, Started, Tables
  <1> DEFINE n == validation
             part == Validation
             samples == [i \in DOMAIN part |-> Stats(part[i])]
  <1>4. n \in Nat \ {0} /\ part \in Seq(Values) /\ Len(part) = n
    <2>1. part = SubSeq(rows, 1, n)
      BY DEF Validation
    <2>2. n \in Nat /\ n <= Len(rows) /\ 1 <= n /\ Len(rows) \in Nat
      BY <1>3
    <2>3. \A i \in 1 .. n : rows[i] \in Values
      BY <1>3, <2>2
    <2> HIDE DEF n
    <2>4. part \in Seq(Values) /\ Len(part) = IF 1 <= n THEN n - 1 + 1 ELSE 0
      BY <2>1, <2>2, <2>3, SubSeqProperties
    <2>5. QED
      BY <2>2, <2>4
  <1> HIDE DEF n, part
  <1>5. /\ DOMAIN samples = 1 .. n /\ Len(samples) = n
        /\ \A i \in 1 .. n : samples[i] = Stats(part[i]) /\ part[i] \in Values
    BY <1>4
  <1> HIDE DEF samples
  <1>6. \A i \in 1 .. n : samples[i].primary \in Nat /\ samples[i].refined \in Nat
    <2>1. TAKE i \in 1 .. n
    <2>2. Stats(part[i]).primary \in Nat /\ Stats(part[i]).refined \in Nat
      BY <1>3, <1>5, StatsAre
    <2>3. QED
      BY <1>5, <2>2
  <1>7. ValidBaseline(Summary(samples))
    BY <1>4, <1>5, <1>6, SummaryIsValid
  <1>8. ValidBaseline(baseline')
    BY <1>1, <1>7 DEF samples, part
  <1>9. ValidBaseline(baseline)'
    BY <1>8 DEF ValidBaseline
  <1>10. training' = "trained"
    BY <1>1 DEF trainVars
  <1>11. Ordered(centers)'
    BY <1>1, <1>3 DEF Ordered, Tables
  <1>12. QED
    BY <1>1, <1>2, <1>3, <1>9, <1>10, <1>11 DEF ModelInv, Closed, Started

LEMMA SaveKeeps ==
    ASSUME TrainInv, ModelInv, Save
    PROVE  TrainInv' /\ ModelInv'
  <1>1. outcome = "measured" /\ UNCHANGED trainVars
    BY DEF Save
  <1>2. TrainInv'
    BY <1>1, SameTraining
  <1>3. Tables(centers, centroids) /\ ValidBaseline(baseline)
    BY <1>1 DEF ModelInv, TrainInv, SeedInv, Started, Tables
  <1>4. NegZero \notin ToSet(centers)
    BY <1>3, TrainingAssumption DEF Tables, Ordered, ToSet
  <1>5. Restorable(centers)
    BY <1>3, <1>4 DEF Restorable, CanonicalValues, Tables, Ordered
  <1> DEFINE stored == [c \in 1 .. Centroids |-> Canonical(centroids[c])]
  <1>6. CanonicalValues(stored, Centroids)
    <2>1. ASSUME NEW c \in 1 .. Centroids PROVE stored[c] \in Int
      <3>1. centroids[c] \in Int
        BY <1>3 DEF Tables
      <3>2. QED
        BY <3>1, IntIsValue
    <2>2. DOMAIN stored = 1 .. Centroids /\ Len(stored) = Centroids
      BY TrainingAssumption
    <2> HIDE DEF stored
    <2>3. NegZero \notin ToSet(stored)
      BY <2>1, <2>2, TrainingAssumption DEF ToSet
    <2>4. QED
      BY <2>2, <2>3 DEF CanonicalValues
  <1>7. /\ ModelFile.baseline = baseline
        /\ ModelFile.centers = centers /\ ModelFile.quantizer_id = centers
        /\ ModelFile.centroids = stored /\ ModelFile.codebook_id = stored
    BY DEF ModelFile
  <1> HIDE DEF stored
  <1>8. ValidFile(ModelFile)
    BY <1>3, <1>5, <1>6, <1>7 DEF ValidFile
  <1>9. file' = ModelFile /\ outcome' = "saved"
    BY <1>8 DEF Save
  <1>10. ValidFile(file')
    BY <1>8, <1>9
  <1>11. /\ ValidFile(file)'
         /\ file'.quantizer_id = file'.centers /\ file'.codebook_id = file'.centroids
    BY <1>7, <1>9, <1>10 DEF ValidFile, ValidBaseline, Restorable, CanonicalValues
  <1>12. QED
    BY <1>2, <1>9, <1>11 DEF ModelInv, Saved, Closed

LEMMA RestoreKeeps ==
    ASSUME TrainInv, ModelInv, Restore
    PROVE  TrainInv' /\ ModelInv'
  <1>1. outcome = "saved" /\ UNCHANGED trainVars /\ file' = file
    BY DEF Restore
  <1>2. TrainInv'
    BY <1>1, SameTraining
  <1>3. Saved
    BY <1>1 DEF ModelInv
  <1>4. outcome' = "restored"
    BY <1>3 DEF Restore, Saved
  <1>5. Saved'
    BY <1>1, <1>3 DEF Saved, ValidFile, ValidBaseline, Restorable, CanonicalValues
  <1>6. QED
    BY <1>2, <1>4, <1>5 DEF ModelInv, Closed

\* Every step of a training or of a model.
LEMMA ModelStepKeeps ==
    ASSUME TrainInv, ModelInv, Next
    PROVE  TrainInv' /\ ModelInv'
  <1>1. ASSUME NEW all \in TrainingRows, NEW part \in ValidationRows, BeginModel(all, part)
        PROVE  TrainInv' /\ ModelInv'
    BY <1>1, BeginModelKeeps
  <1>2. ASSUME NEW set \in ResidualSets, TrainAlone(set)
        PROVE  TrainInv' /\ ModelInv'
    <2>1. outcome = "none" /\ BeginTrain(set) /\ outcome' = "alone"
      BY <1>2 DEF TrainAlone
    <2>2. seeds = <<>> /\ set \in Seq(Values)
      BY <2>1, TrainingAssumption DEF ModelInv
    <2>3. TrainInv'
      BY <2>1, <2>2, BeginKeeps
    <2>4. QED
      BY <2>1, <2>3 DEF ModelInv, Closed
  <1>3. ASSUME Train PROVE TrainInv' /\ ModelInv'
    <2>1. TrainStep /\ UNCHANGED modelVars
      BY <1>3 DEF Train
    <2>2. TrainInv' /\ Started /\ Started'
      BY <2>1, TrainStepKeeps, StaysStarted
    <2>3. /\ outcome' = outcome /\ rows' = rows /\ validation' = validation
          /\ centers' = centers /\ baseline' = baseline /\ file' = file
      BY <2>1 DEF modelVars
    <2>4. training # "idle" /\ training # "trained"
      BY <2>1 DEF TrainStep, SelectSeed, Assign, Reseed, Recenter, EndIteration
    <2>5. Ordered(centers)' = Ordered(centers)
      BY <2>3 DEF Ordered
    <2>6. Saved' = Saved
      BY <2>3 DEF Saved, ValidFile, ValidBaseline, Restorable, CanonicalValues
    <2>7. QED
      BY <2>2, <2>3, <2>4, <2>5, <2>6 DEF ModelInv
  <1>4. QED
    BY <1>1, <1>2, <1>3, MeasureKeeps, SaveKeeps, RestoreKeeps DEF Next

\* What the centers leave of rows that every cluster size divides, every
\* cluster size divides.
LEMMA LeftIsExact ==
    ASSUME NEW list \in Seq(Values), Len(list) > 0, NEW size \in Nat, size >= 1,
           \A i \in 1 .. Len(list) : Num(list[i]) % size = 0
    PROVE  \A i \in 1 .. Len(list) : Num(Residual(list[i], TrainCenters(list))) % size = 0
  <1> DEFINE n == Len(list)
             v == [i \in DOMAIN list |-> Canonical(list[i])]
             table == TrainCenters(list)
  <1>1. /\ n \in Nat \ {0} /\ DOMAIN v = 1 .. n /\ \A i \in 1 .. n : list[i] \in Values
        /\ \A i \in 1 .. n : v[i] = Canonical(list[i])
    OBVIOUS
  <1>2. \A i \in 1 .. n : v[i] \in Int /\ v[i] \in Values /\ v[i] = Num(list[i])
    BY <1>1, CanonicalIs, IntIsValue
  <1>3. Ordered(table)
    BY TrainCentersIs
  <1>4. ASSUME NEW c \in 1 .. Centers PROVE \E i \in 1 .. n : table[c] = v[i]
    <2> DEFINE rank == QuantileRank(c - 1, n) + 1
    <2>1. rank \in 1 .. n
      <3> HIDE DEF n
      <3>1. QED
        BY <1>1, QuantileRankIs
    <2>2. table[c] = Nth(v, rank)
      BY DEF TrainCenters
    <2> HIDE DEF rank, v, n, table
    <2>3. \E i \in 1 .. n : Nth(v, rank) = v[i]
      BY <1>1, <1>2, <2>1, NthIsValue
    <2>4. QED
      BY <2>2, <2>3
  <1>5. ASSUME NEW i \in 1 .. n PROVE Num(Residual(list[i], table)) % size = 0
    <2>1. list[i] \in Values
      BY <1>1
    <2>2. table \in Seq(Values) /\ Len(table) = Centers /\ Len(table) > 0
      <3>1. Int \subseteq Values
        BY IntIsValue
      <3> HIDE DEF table
      <3>2. QED
        BY <1>3, <3>1, ModelAssumption DEF Ordered
    <2>3. Nearest(list[i], table) \in 1 .. Centers
      <3> HIDE DEF table
      <3>1. QED
        BY <2>1, <2>2, NearestIs
    <2>4. PICK j \in 1 .. n : Decoded(list[i], table) = v[j]
      BY <1>4, <2>3 DEF Decoded
    <2>5. /\ Num(list[i]) \in Int /\ Num(list[i]) % size = 0
          /\ v[j] \in Int /\ v[j] % size = 0
      BY <1>2, <2>1, NumIs
    <2> DEFINE x == Num(list[i])
               y == v[j]
    <2>6. Num(Residual(list[i], table)) = x - y
      <3>1. Residual(list[i], table) = Minus(list[i], y)
        BY <2>4 DEF Residual
      <3>2. CASE list[i] = NegZero /\ y = 0
        <4>1. Minus(list[i], y) = NegZero /\ x = 0
          BY <3>2 DEF Minus, Num
        <4>2. Num(NegZero) = 0
          BY DEF Num
        <4>3. QED
          BY <3>1, <3>2, <4>1, <4>2
      <3>3. CASE ~ (list[i] = NegZero /\ y = 0)
        <4>1. Minus(list[i], y) = x - Num(y) /\ Num(y) = y
          BY <2>5, <3>3, IntIsValue DEF Minus
        <4>2. x - y \in Int
          BY <2>5
        <4>3. QED
          BY <3>1, <4>1, <4>2, IntIsValue
      <3>4. QED
        BY <3>2, <3>3
    <2>7. x \in Int /\ y \in Int /\ MultipleOf(x, size) /\ MultipleOf(y, size)
      BY <2>5, MultipleIs
    <2> HIDE DEF x, y
    <2>8. PICK p \in Int, q \in Int : x = size * p /\ y = size * q
      BY <2>7 DEF MultipleOf
    <2>9. x - y \in Int /\ x - y = size * (p - q) /\ p - q \in Int
      BY <2>7, <2>8
    <2>10. (x - y) % size = 0
      BY <2>9, MultipleIs
    <2>11. QED
      BY <2>6, <2>10
  <1>6. QED
    BY <1>5

\* The training of a model begins with such residuals.
LEMMA BeginModelErrors ==
    ASSUME ErrorInv, NEW all \in TrainingRows, NEW part \in ValidationRows, BeginModel(all, part)
    PROVE  ErrorInv'
  <1>1. CASE Refused(all, part)
    <2>1. outcome' = "InvalidTraining" /\ UNCHANGED trainVars
      BY <1>1 DEF BeginModel, trainVars
    <2>2. QED
      BY <2>1, OtherErrors
  <1>2. CASE ~ Refused(all, part)
    <2> DEFINE list == TrainingPart(rows', part)
               left == [i \in DOMAIN list |-> Residual(list[i], centers')]
    <2>1. PICK order \in HashOrders : rows' = [i \in DOMAIN all |-> all[order[i]]]
      BY <1>2 DEF BeginModel
    <2>2. centers' = TrainCenters(list) /\ BeginTrain(left) /\ outcome' = "training"
      BY <1>2 DEF BeginModel
    <2>3. all \in Seq(Values) /\ order \in [DOMAIN all -> DOMAIN all] /\ part \in Nat
      BY ModelAssumption DEF Bijection, Injection
    <2>4. part # 0 /\ Len(all) - part >= Centroids /\ Len(all) \in Nat /\ Centroids \in Nat \ {0}
      BY <1>2, <2>3, TrainingAssumption DEF Refused
    <2>5. DOMAIN all = 1 .. Len(all) /\ \A i \in 1 .. Len(all) : order[i] \in 1 .. Len(all)
      BY <2>3
    <2>6. \A i \in 1 .. Len(all) : rows'[i] = all[order[i]] /\ all[order[i]] \in Values
      BY <2>1, <2>3, <2>5
    <2>7. rows' \in Seq(Values) /\ Len(rows') = Len(all)
      <3>1. rows' = [i \in 1 .. Len(all) |-> rows'[i]]
        BY <2>1, <2>5
      <3>2. rows' \in [1 .. Len(all) -> Values]
        BY <2>6, <3>1
      <3>3. QED
        BY <2>4, <3>2
    <2>8. /\ list \in Seq(Values) /\ Len(list) = Len(all) - part
          /\ \A i \in 1 .. Len(list) : list[i] = rows'[part + i] /\ part + i \in 1 .. Len(all)
      <3>1. list = SubSeq(rows', part + 1, Len(rows'))
        BY DEF TrainingPart
      <3>2. \A i \in part + 1 .. Len(rows') : rows'[i] \in Values
        BY <2>3, <2>7
      <3>3. /\ list \in Seq(Values)
            /\ Len(list) = IF part + 1 <= Len(rows') THEN Len(rows') - (part + 1) + 1 ELSE 0
        BY <2>3, <2>4, <2>7, <3>1, <3>2, SubSeqProperties
      <3>4. Len(list) = Len(all) - part
        BY <2>3, <2>4, <2>7, <3>3
      <3>5. ASSUME NEW i \in 1 .. Len(list)
            PROVE  list[i] = rows'[part + i] /\ part + i \in 1 .. Len(all)
        <4>1. part + i \in 1 .. Len(all) /\ i \in 1 .. Len(all) - part
          BY <2>3, <2>4, <3>4
        <4>2. list = [k \in 1 .. Len(rows') - part |-> rows'[k + part]]
          BY <2>3, <2>4, <2>7, <3>1
        <4>3. i \in 1 .. Len(rows') - part /\ i + part = part + i
          BY <2>3, <2>7, <4>1
        <4> DEFINE r == rows'
        <4>4. list = [k \in 1 .. Len(r) - part |-> r[k + part]] /\ i \in 1 .. Len(r) - part
          BY <4>2, <4>3
        <4> HIDE DEF r
        <4>5. list[i] = r[i + part]
          BY <4>4
        <4>6. QED
          BY <4>1, <4>3, <4>5 DEF r
      <3>6. QED
        BY <3>3, <3>4, <3>5
    <2> HIDE DEF list
    <2>9. Len(list) \in Nat /\ Len(list) > 0 /\ Len(list) <= Len(all)
      BY <2>3, <2>4, <2>8
    <2>10. ASSUME NEW size \in 1 .. Len(list), NEW i \in 1 .. Len(list)
           PROVE  Num(list[i]) % size = 0
      <3>1. /\ list[i] = all[order[part + i]] /\ order[part + i] \in DOMAIN all
            /\ size \in 1 .. Len(all)
        BY <2>5, <2>6, <2>8, <2>9
      <3>2. QED
        BY <3>1, RowsAssumption
    <2>11. DOMAIN left = 1 .. Len(list) /\ Len(left) = Len(list)
      BY <2>8, <2>9
    <2>12. left \in Seq(Values)
      <3>1. Ordered(centers')
        BY <2>2, <2>8, <2>9, TrainCentersIs
      <3>2. ASSUME NEW i \in 1 .. Len(list) PROVE left[i] \in Values
        <4>1. list[i] \in Values
          BY <2>8
        <4>2. left[i] = Residual(list[i], centers')
          BY <2>11
        <4>3. QED
          BY <3>1, <4>1, <4>2, ResidualIs
      <3>3. left \in [1 .. Len(list) -> Values]
        BY <2>11, <3>2
      <3> HIDE DEF left
      <3>4. QED
        BY <2>9, <3>3
    <2>13. \A i \in 1 .. Len(left), size \in 1 .. Len(left) : Num(left[i]) % size = 0
      <3>1. ASSUME NEW i \in 1 .. Len(list), NEW size \in 1 .. Len(list)
            PROVE  Num(left[i]) % size = 0
        <4>1. left[i] = Residual(list[i], TrainCenters(list))
          BY <2>2, <2>11
        <4>2. size \in Nat /\ size >= 1
          BY <2>9
        <4>3. Num(Residual(list[i], TrainCenters(list))) % size = 0
          BY <2>8, <2>9, <2>10, <4>2, LeftIsExact
        <4>4. QED
          BY <4>1, <4>3
      <3> HIDE DEF left
      <3>2. QED
        BY <2>11, <3>1
    <2> HIDE DEF left
    <2>14. QED
      BY <2>2, <2>12, <2>13, BeginErrors
  <1>3. QED
    BY <1>1, <1>2

\* The errors of a training, along every step of a model.
LEMMA ModelErrors ==
    ASSUME TrainInv, ModelInv, ErrorInv, Next
    PROVE  ErrorInv' /\ (training = "assign" /\ iteration > 0 =>
                            Total(errors') <= Total(errors) \/ UNCHANGED trainVars)
  <1>1. ASSUME NEW all \in TrainingRows, NEW part \in ValidationRows, BeginModel(all, part)
        PROVE  ErrorInv' /\ training # "assign"
    <2>1. training = "idle"
      BY <1>1 DEF BeginModel, ModelInv
    <2>2. QED
      BY <1>1, <2>1, BeginModelErrors
  <1>2. ASSUME NEW set \in ResidualSets, TrainAlone(set)
        PROVE  ErrorInv' /\ training # "assign"
    <2>1. BeginTrain(set) /\ outcome' = "alone" /\ training = "idle"
      BY <1>2 DEF TrainAlone, BeginTrain
    <2>2. set \in Seq(Values) /\ DOMAIN set = 1 .. Len(set)
      BY TrainingAssumption
    <2>3. \A i \in 1 .. Len(set), size \in 1 .. Len(set) : Num(set[i]) % size = 0
      BY <2>2, ResidualsAssumption
    <2>4. QED
      BY <2>1, <2>2, <2>3, BeginErrors
  <1>3. ASSUME Train
        PROVE  ErrorInv' /\ (training = "assign" /\ iteration > 0 => Total(errors') <= Total(errors))
    <2>1. TrainStep /\ outcome' = outcome
      BY <1>3 DEF Train, modelVars
    <2>2. QED
      BY <2>1, TrainErrors
  <1>4. ASSUME MeasureBaseline \/ Save \/ Restore
        PROVE  ErrorInv' /\ UNCHANGED trainVars
    <2>1. UNCHANGED trainVars
      BY <1>4 DEF MeasureBaseline, Save, Restore
    <2>2. training = "trained"
      BY <1>4 DEF MeasureBaseline, Save, Restore, ErrorInv
    <2>3. QED
      BY <2>1, <2>2, OtherErrors
  <1>5. QED
    BY <1>1, <1>2, <1>3, <1>4 DEF Next

-----------------------------------------------------------------------------
(* The sample of a commit: the rows of least priority, whatever order they    *)
(* came in.                                                                   *)

\* Samples of rows that have a priority, one of each.
Samples(S) ==
    /\ IsFiniteSet(S)
    /\ \A s \in S : s.row \in Int /\ priority[s.row] \in Int
    /\ \A s, t \in S : s.row = t.row => s = t

\* Greater puts them in a total order.
LEMMA GreaterOrders ==
    ASSUME NEW S, Samples(S)
    PROVE  /\ \A s \in S : ~ Greater(s, s)
           /\ \A s, t \in S : s # t => Greater(s, t) \/ Greater(t, s)
           /\ \A s, t \in S : Greater(s, t) => ~ Greater(t, s)
           /\ \A s, t, u \in S : Greater(s, t) /\ Greater(t, u) => Greater(s, u)
  <1>1. ASSUME NEW s \in S PROVE s.row \in Int /\ priority[s.row] \in Int
    BY DEF Samples
  <1>2. \A s \in S : ~ Greater(s, s)
    BY <1>1 DEF Greater
  <1>3. ASSUME NEW s \in S, NEW t \in S, s # t PROVE Greater(s, t) \/ Greater(t, s)
    <2>1. s.row # t.row
      BY <1>3 DEF Samples
    <2>2. QED
      BY <1>1, <2>1 DEF Greater
  <1>4. ASSUME NEW s \in S, NEW t \in S, Greater(s, t) PROVE ~ Greater(t, s)
    BY <1>1, <1>4 DEF Greater
  <1>5. ASSUME NEW s \in S, NEW t \in S, NEW u \in S, Greater(s, t), Greater(t, u)
        PROVE  Greater(s, u)
    BY <1>1, <1>5 DEF Greater
  <1>6. QED
    BY <1>2, <1>3, <1>4, <1>5

\* The samples a sample is greater than.
Below(S, s) == {t \in S : Greater(s, t)}

\* So one of them is the greatest.
LEMMA WorstIs ==
    ASSUME NEW S, Samples(S), S # {}
    PROVE  Worst(S) \in S /\ \A t \in S \ {Worst(S)} : Greater(Worst(S), t)
  <1> DEFINE n == Cardinality(S)
             over(s) == n - Cardinality(Below(S, s))
             T == {over(s) : s \in S}
  <1>1. IsFiniteSet(S) /\ n \in Nat
    BY FS_CardinalityType DEF Samples
  <1>2. ASSUME NEW s \in S
        PROVE  /\ IsFiniteSet(Below(S, s)) /\ Cardinality(Below(S, s)) \in Nat
               /\ Cardinality(Below(S, s)) <= n
    <2>1. Below(S, s) \in SUBSET S
      BY DEF Below
    <2>2. QED
      BY <1>1, <2>1, FS_Subset, FS_CardinalityType
  <1> HIDE DEF n
  <1>3. T \subseteq Nat /\ T # {}
    <2>1. \A s \in S : over(s) \in Nat
      BY <1>1, <1>2
    <2>2. QED
      BY <2>1
  <1>4. PICK k \in T : \A y \in T : ~ (y < k)
    <2> HIDE DEF T
    <2>1. QED
      BY <1>3, LeastNatural
  <1>5. PICK s \in S : k = over(s)
    BY <1>4
  <1>6. ASSUME NEW t \in S \ {s} PROVE Greater(s, t)
    <2>1. SUFFICES ASSUME Greater(t, s) PROVE FALSE
      BY GreaterOrders
    <2>2. Below(S, s) \cup {s} \subseteq Below(S, t) /\ s \notin Below(S, s)
      BY <2>1, GreaterOrders DEF Below
    <2>3. Cardinality(Below(S, s) \cup {s}) = Cardinality(Below(S, s)) + 1
      BY <1>2, <2>2, FS_AddElement
    <2>4. Cardinality(Below(S, s) \cup {s}) <= Cardinality(Below(S, t))
      BY <1>2, <2>2, FS_Subset
    <2>5. over(t) < over(s)
      BY <1>1, <1>2, <2>3, <2>4
    <2>6. over(t) \in T
      OBVIOUS
    <2>7. QED
      BY <1>4, <1>5, <2>5, <2>6
  <1>7. QED
    BY <1>6 DEF Worst

\* A heap kept the Capacity least of some samples.
Kept(S, heap) ==
    /\ heap \subseteq S
    /\ Cardinality(heap) = Capacity \/ (heap = S /\ Cardinality(heap) <= Capacity)
    /\ \A s \in heap, t \in S \ heap : Greater(t, s)

\* One more sample.
LEMMA AddKeeps ==
    ASSUME NEW S, NEW x, Samples(S \cup {x}), x \notin S, NEW heap, Kept(S, heap)
    PROVE  Kept(S \cup {x}, Add(heap, x))
  <1>1. /\ heap \subseteq S /\ IsFiniteSet(heap) /\ Cardinality(heap) \in Nat
        /\ x \notin heap
    <2>1. IsFiniteSet(S \cup {x}) /\ heap \in SUBSET (S \cup {x})
      BY DEF Samples, Kept
    <2>2. IsFiniteSet(heap)
      BY <2>1, FS_Subset
    <2>3. QED
      BY <2>2, FS_CardinalityType DEF Kept
  <1>2. /\ Capacity \in Nat \ {0} /\ Cardinality(heap) <= Capacity
        /\ \A s \in heap, t \in S \ heap : Greater(t, s)
    BY DriftAssumption DEF Kept
  <1>3. CASE Cardinality(heap) < Capacity
    <2>1. heap = S
      BY <1>1, <1>2, <1>3 DEF Kept
    <2>2. Add(heap, x) = S \cup {x}
      BY <1>3, <2>1 DEF Add
    <2>3. Cardinality(heap \cup {x}) = Cardinality(heap) + 1
      BY <1>1, FS_AddElement
    <2>4. Cardinality(S \cup {x}) <= Capacity
      BY <1>1, <1>2, <1>3, <2>1, <2>3
    <2>5. QED
      BY <2>2, <2>4 DEF Kept
  <1>4. CASE ~ (Cardinality(heap) < Capacity)
    <2>1. Cardinality(heap) = Capacity
      BY <1>1, <1>2, <1>4
    <2>2. heap # {}
      BY <1>2, <2>1, FS_EmptySet
    <2> DEFINE w == Worst(heap)
    <2>3. w \in heap /\ \A t \in heap \ {w} : Greater(w, t)
      <3>1. Samples(heap)
        BY <1>1 DEF Samples
      <3>2. QED
        BY <2>2, <3>1, WorstIs
    <2>4. Add(heap, x) = IF Greater(w, x) THEN (heap \ {w}) \cup {x} ELSE heap
      BY <1>4 DEF Add
    <2> HIDE DEF w
    <2>5. \A t \in S \ heap : Greater(t, w)
      BY <1>2, <2>3
    <2>6. CASE Greater(w, x)
      <3> DEFINE new == (heap \ {w}) \cup {x}
      <3>1. Add(heap, x) = new
        BY <2>4, <2>6
      <3>2. Cardinality(new) = Capacity
        <4>1. IsFiniteSet(heap \ {w}) /\ Cardinality(heap \ {w}) = Cardinality(heap) - 1
          BY <1>1, <2>3, FS_RemoveElement
        <4>2. x \notin heap \ {w}
          BY <1>1
        <4>3. Cardinality(new) = Cardinality(heap \ {w}) + 1
          BY <4>1, <4>2, FS_AddElement
        <4>4. QED
          BY <1>1, <2>1, <4>1, <4>3
      <3>3. ASSUME NEW s \in new, NEW t \in (S \cup {x}) \ new PROVE Greater(t, s)
        <4>1. s \in S \cup {x} /\ t \in S \cup {x} /\ w \in S \cup {x}
          BY <1>1, <2>3, <3>3
        <4>2. Greater(w, s)
          BY <2>3, <2>6, <3>3
        <4>3. t = w \/ (t \in S \ heap)
          BY <3>3
        <4>4. CASE t = w
          BY <4>2, <4>4
        <4>5. CASE t \in S \ heap
          <5>1. Greater(t, w)
            BY <2>5, <4>5
          <5>2. QED
            BY <4>1, <4>2, <5>1, GreaterOrders
        <4>6. QED
          BY <4>3, <4>4, <4>5
      <3>4. new \subseteq S \cup {x}
        BY <1>1
      <3> HIDE DEF new
      <3>5. QED
        BY <3>1, <3>2, <3>3, <3>4 DEF Kept
    <2>7. CASE ~ Greater(w, x)
      <3>1. Add(heap, x) = heap
        BY <2>4, <2>7
      <3>2. Greater(x, w)
        <4>1. x # w /\ w \in S \cup {x} /\ x \in S \cup {x}
          BY <1>1, <2>3
        <4>2. QED
          BY <2>7, <4>1, GreaterOrders
      <3>3. ASSUME NEW s \in heap PROVE Greater(x, s)
        <4>1. CASE s = w
          BY <3>2, <4>1
        <4>2. CASE s # w
          <5>1. Greater(w, s) /\ s \in S \cup {x} /\ w \in S \cup {x} /\ x \in S \cup {x}
            BY <1>1, <2>3, <4>2
          <5>2. QED
            BY <3>2, <5>1, GreaterOrders
        <4>3. QED
          BY <4>1, <4>2
      <3>4. \A s \in heap, t \in (S \cup {x}) \ heap : Greater(t, s)
        BY <1>2, <3>3
      <3>5. QED
        BY <1>1, <2>1, <3>1, <3>4 DEF Kept
    <2>8. QED
      BY <2>6, <2>7
  <1>5. QED
    BY <1>3, <1>4

\* What was kept are the samples with fewer than Capacity below them.
LEMMA KeptAreLeast ==
    ASSUME NEW S, Samples(S), NEW heap, Kept(S, heap)
    PROVE  heap = {s \in S : Cardinality(Below(S, s)) < Capacity}
  <1>1. heap \subseteq S /\ \A s \in heap, t \in S \ heap : Greater(t, s)
    BY DEF Kept
  <1>2. IsFiniteSet(S) /\ IsFiniteSet(heap) /\ Cardinality(heap) \in Nat /\ Capacity \in Nat
    BY <1>1, FS_Subset, FS_CardinalityType, DriftAssumption DEF Samples
  <1>3. ASSUME NEW s \in S
        PROVE  IsFiniteSet(Below(S, s)) /\ Cardinality(Below(S, s)) \in Nat
    <2>1. Below(S, s) \in SUBSET S
      BY DEF Below
    <2>2. QED
      BY <1>2, <2>1, FS_Subset, FS_CardinalityType
  <1>4. ASSUME NEW s \in heap PROVE Cardinality(Below(S, s)) < Capacity
    <2>1. Below(S, s) \in SUBSET (heap \ {s})
      <3>1. ASSUME NEW t \in S, Greater(s, t) PROVE t \in heap /\ t # s
        BY <1>1, <3>1, GreaterOrders
      <3>2. QED
        BY <3>1 DEF Below
    <2>2. IsFiniteSet(heap \ {s}) /\ Cardinality(heap \ {s}) = Cardinality(heap) - 1
      BY <1>2, FS_RemoveElement
    <2>3. Cardinality(Below(S, s)) <= Cardinality(heap \ {s})
      BY <2>1, <2>2, FS_Subset
    <2>4. Cardinality(heap) <= Capacity
      BY <1>2 DEF Kept
    <2>5. Cardinality(Below(S, s)) \in Nat
      BY <1>1, <1>3
    <2>6. QED
      BY <1>2, <2>2, <2>3, <2>4, <2>5
  <1>5. ASSUME NEW s \in S \ heap PROVE ~ (Cardinality(Below(S, s)) < Capacity)
    <2>1. heap \in SUBSET Below(S, s)
      BY <1>1 DEF Below
    <2>2. Cardinality(heap) <= Cardinality(Below(S, s))
      BY <1>3, <2>1, FS_Subset
    <2>3. Cardinality(heap) = Capacity
      BY DEF Kept
    <2>4. QED
      BY <1>2, <1>3, <2>2, <2>3
  <1>6. QED
    BY <1>1, <1>4, <1>5

\* The heap after the rows of a list.
LEMMA AddAllKeeps ==
    ASSUME NEW n \in Nat, NEW list, Len(list) = n,
           NEW S, Samples(S \cup {list[i] : i \in 1 .. n}),
           \A i \in 1 .. n : list[i] \notin S,
           \A i, j \in 1 .. n : list[i] = list[j] => i = j,
           NEW heap, Kept(S, heap)
    PROVE  Kept(S \cup {list[i] : i \in 1 .. n}, AddAll(heap, list))
  <1> DEFINE Adds(g, k) == g = [i \in 0 .. k |-> IF i = 0 THEN heap ELSE Add(g[i - 1], list[i])]
             upTo(k) == S \cup {list[i] : i \in 1 .. k}
  <1>1. AddAll(heap, list) = (CHOOSE g : Adds(g, n))[n]
    BY DEF AddAll
  <1>2. \E g : Adds(g, n)
    <2> DEFINE Bad == {k \in 0 .. n : ~ \E g : Adds(g, k)}
    <2>1. SUFFICES ASSUME Bad # {} PROVE FALSE
      <3>1. n \in 0 .. n
        OBVIOUS
      <3>2. QED
        BY <3>1
    <2>2. PICK k \in Bad : \A y \in Bad : ~ (y < k)
      <3>1. Bad \subseteq Nat
        BY SMT
      <3> HIDE DEF Bad
      <3>2. QED
        BY <2>1, <3>1, LeastNatural
    <2>3. k \in 0 .. n /\ ~ \E g : Adds(g, k)
      BY <2>2
    <2>4. CASE k = 0
      <3> DEFINE g == [i \in 0 .. 0 |-> heap]
      <3>1. Adds(g, 0)
        OBVIOUS
      <3> HIDE DEF Adds
      <3>2. QED
        BY <2>3, <2>4, <3>1
    <2>5. CASE k # 0
      <3>1. k - 1 \in 0 .. n /\ k - 1 < k /\ k \in Nat /\ k >= 1
        BY <2>3, <2>5
      <3>2. PICK h : Adds(h, k - 1)
        BY <2>2, <3>1
      <3> DEFINE g == [i \in 0 .. k |-> IF i = k THEN Add(h[k - 1], list[k]) ELSE h[i]]
      <3>3. ASSUME NEW i \in 0 .. k
            PROVE  g[i] = IF i = 0 THEN heap ELSE Add(g[i - 1], list[i])
        <4>1. CASE i = k
          <5>1. i - 1 \in 0 .. k /\ i - 1 # k
            BY <3>1, <4>1
          <5>2. g[i - 1] = h[k - 1]
            BY <4>1, <5>1
          <5>3. g[i] = Add(h[k - 1], list[k]) /\ i # 0
            BY <3>1, <4>1
          <5>4. QED
            BY <4>1, <5>2, <5>3
        <4>2. CASE i = 0
          <5>1. g[i] = h[0] /\ 0 \in 0 .. k - 1
            BY <3>1, <4>2
          <5>2. h[0] = heap
            BY <3>2, <5>1
          <5>3. QED
            BY <4>2, <5>1, <5>2
        <4>3. CASE i # k /\ i # 0
          <5>1. i \in 0 .. k - 1 /\ i - 1 \in 0 .. k /\ i - 1 # k
            BY <3>1, <4>3
          <5>2. g[i] = h[i] /\ g[i - 1] = h[i - 1]
            BY <4>3, <5>1
          <5>3. h[i] = Add(h[i - 1], list[i])
            BY <3>2, <4>3, <5>1
          <5>4. QED
            BY <4>3, <5>2, <5>3
        <4>4. QED
          BY <4>1, <4>2, <4>3
      <3>4. g = [i \in 0 .. k |-> g[i]]
        OBVIOUS
      <3> HIDE DEF g
      <3>5. Adds(g, k)
        BY <3>3, <3>4
      <3> HIDE DEF Adds
      <3>6. QED
        BY <2>3, <3>5
    <2>6. QED
      BY <2>4, <2>5
  <1> DEFINE after == CHOOSE g : Adds(g, n)
  <1>3. Adds(after, n)
    <2> HIDE DEF Adds
    <2>1. QED
      BY <1>2
  <1> HIDE DEF after
  <1>4. after[0] = heap /\ \A i \in 1 .. n : after[i] = Add(after[i - 1], list[i])
    BY <1>3
  <1>5. \A k \in 0 .. n : Kept(upTo(k), after[k])
    <2> DEFINE Bad == {k \in 0 .. n : ~ Kept(upTo(k), after[k])}
    <2>1. SUFFICES ASSUME Bad # {} PROVE FALSE
      OBVIOUS
    <2>2. PICK k \in Bad : \A y \in Bad : ~ (y < k)
      <3>1. Bad \subseteq Nat
        BY SMT
      <3> HIDE DEF Bad
      <3>2. QED
        BY <2>1, <3>1, LeastNatural
    <2>3. k \in 0 .. n /\ ~ Kept(upTo(k), after[k])
      BY <2>2
    <2>4. CASE k = 0
      <3>1. upTo(0) = S
        OBVIOUS
      <3> HIDE DEF upTo
      <3>2. QED
        BY <1>4, <2>3, <2>4, <3>1
    <2>5. CASE k # 0
      <3>1. k - 1 \in 0 .. n /\ k - 1 < k /\ k \in 1 .. n
        BY <2>3, <2>5
      <3>2. Kept(upTo(k - 1), after[k - 1])
        BY <2>2, <3>1
      <3>3. upTo(k) = upTo(k - 1) \cup {list[k]}
        <4>1. \A i : i \in 1 .. k <=> (i \in 1 .. k - 1 \/ i = k)
          BY <3>1
        <4>2. {list[i] : i \in 1 .. k} = {list[i] : i \in 1 .. k - 1} \cup {list[k]}
          BY <4>1
        <4>3. QED
          BY <4>2
      <3>4. list[k] \notin upTo(k - 1)
        <4>1. \A i \in 1 .. k - 1 : i \in 1 .. n /\ i # k
          BY <3>1
        <4>2. \A i \in 1 .. k - 1 : list[i] # list[k]
          BY <3>1, <4>1
        <4>3. QED
          BY <3>1, <4>2
      <3>5. Samples(upTo(k - 1) \cup {list[k]})
        <4>1. upTo(k) \in SUBSET upTo(n)
          <5>1. \A i \in 1 .. k : i \in 1 .. n
            BY <3>1
          <5>2. QED
            BY <5>1
        <4>2. Samples(upTo(n))
          OBVIOUS
        <4> HIDE DEF upTo
        <4>3. QED
          BY <3>3, <4>1, <4>2, FS_Subset DEF Samples
      <3> HIDE DEF upTo
      <3>6. Kept(upTo(k - 1) \cup {list[k]}, Add(after[k - 1], list[k]))
        BY <3>2, <3>4, <3>5, AddKeeps
      <3>7. QED
        BY <1>4, <2>3, <3>1, <3>3, <3>6
    <2>6. QED
      BY <2>4, <2>5
  <1>6. AddAll(heap, list) = after[n]
    BY <1>1 DEF after
  <1>7. n \in 0 .. n
    OBVIOUS
  <1> HIDE DEF Adds
  <1>8. QED
    BY <1>5, <1>6, <1>7

-----------------------------------------------------------------------------
(* The inductive invariant of a commit. *)

\* One sample of every row that was pushed.
All == {[row |-> i - 1, stats |-> Stats(pushed[i])] : i \in DOMAIN pushed}

SampleInv ==
    /\ outcome \notin Closed =>
        /\ pushed = <<>> /\ sample = {} /\ count = 0 /\ exceeded = 0
    /\ outcome \in Closed =>
        /\ priority \in Priorities
        /\ pushed \in Seq(Values) /\ Len(pushed) <= MostRows
        /\ Kept(All, sample)
        /\ count = Len(pushed)
        /\ exceeded = Cardinality({s \in All : Exceeds(s)})
    /\ report # NoReport => outcome = "committed" /\ report = Report(sample, count, exceeded)

\* The rows of a commit that fit have a priority, each of them one.
LEMMA RowsAreSamples ==
    ASSUME priority \in Priorities, NEW n \in Nat, n <= MostRows,
           NEW S, NEW list, S = {list[i] : i \in 1 .. n},
           \A i \in 1 .. n : list[i].row = i - 1
    PROVE  Samples(S)
  <1>1. MostRows \in Nat
    BY DriftAssumption
  <1>2. ASSUME NEW i \in 1 .. n PROVE list[i].row \in Int /\ priority[list[i].row] \in Int
    <2>1. i - 1 \in 0 .. (MostRows - 1)
      BY <1>1
    <2>2. priority[i - 1] \in Int
      BY <2>1, DriftAssumption
    <2>3. QED
      BY <2>2
  <1>3. IsFiniteSet(S)
    <2>1. IsFiniteSet(1 .. n)
      BY FS_Interval
    <2> DEFINE f == [i \in 1 .. n |-> list[i]]
    <2>2. f \in Surjection(1 .. n, S)
      BY DEF Surjection
    <2> HIDE DEF f
    <2>3. QED
      BY <2>1, <2>2, FS_Surjection
  <1>4. ASSUME NEW s \in S, NEW t \in S, s.row = t.row PROVE s = t
    <2>1. PICK i \in 1 .. n : s = list[i]
      OBVIOUS
    <2>2. PICK j \in 1 .. n : t = list[j]
      OBVIOUS
    <2>3. i - 1 = j - 1
      BY <1>4, <2>1, <2>2
    <2>4. i = j
      BY <2>3
    <2>5. QED
      BY <2>1, <2>2, <2>4
  <1>5. \A s \in S : s.row \in Int /\ priority[s.row] \in Int
    BY <1>2
  <1>6. QED
    BY <1>3, <1>4, <1>5 DEF Samples

\* So what was pushed are samples.
LEMMA AllAreSamples ==
    ASSUME SampleInv, outcome \in Closed
    PROVE  Samples(All)
  <1> DEFINE n == Len(pushed)
             list == [i \in 1 .. n |-> [row |-> i - 1, stats |-> Stats(pushed[i])]]
  <1>1. priority \in Priorities /\ n \in Nat /\ n <= MostRows /\ DOMAIN pushed = 1 .. n
    BY DEF SampleInv
  <1>2. All = {list[i] : i \in 1 .. n}
    BY <1>1 DEF All
  <1>3. \A i \in 1 .. n : list[i].row = i - 1
    OBVIOUS
  <1> HIDE DEF list, n
  <1>4. QED
    BY <1>1, <1>2, <1>3, RowsAreSamples

\* Statistics need the tables of the model and nothing else.
LEMMA SameStats ==
    ASSUME centers' = centers, centroids' = centroids
    PROVE  \A v : Stats(v)' = Stats(v)
  BY DEF Stats

\* A segment adds the samples of its rows, whose numbers follow the others'.
LEMMA StageKeepsSample ==
    ASSUME SampleInv, NEW values \in PushedSegments, StageSegment(values)
    PROVE  SampleInv'
  <1> DEFINE first == Len(pushed)
             n == Len(values)
             added == [i \in DOMAIN values |-> [row |-> first + i - 1, stats |-> Stats(values[i])]]
             new == {added[i] : i \in 1 .. n}
  <1>1. /\ outcome = "building" /\ first + n <= MostRows
        /\ sample' = AddAll(sample, added)
        /\ count' = count + n
        /\ exceeded' = exceeded + Cardinality({i \in DOMAIN added : Exceeds(added[i])})
        /\ pushed' = pushed \o values
        /\ UNCHANGED vars /\ priority' = priority /\ report' = report
    BY DEF StageSegment
  <1>2. /\ outcome' = outcome /\ centers' = centers /\ centroids' = centroids /\ file' = file
    BY <1>1 DEF vars, trainVars, modelVars
  <1>3. /\ priority \in Priorities
        /\ pushed \in Seq(Values) /\ first \in Nat
        /\ Kept(All, sample) /\ count = first
        /\ exceeded = Cardinality({s \in All : Exceeds(s)})
        /\ report = NoReport
    BY <1>1 DEF SampleInv, Closed
  <1>4. values \in Seq(Values) /\ n \in Nat /\ DOMAIN values = 1 .. n
    BY DriftAssumption
  <1>5. pushed' \in Seq(Values) /\ Len(pushed') = first + n
    BY <1>1, <1>3, <1>4
  <1>6. /\ DOMAIN added = 1 .. n /\ Len(added) = n
        /\ \A i \in 1 .. n : added[i] = [row |-> first + i - 1, stats |-> Stats(values[i])]
    BY <1>4
  <1>7. \A i \in 1 .. first : pushed'[i] = pushed[i]
    BY <1>1, <1>3, <1>4
  <1>8. \A i \in 1 .. n : pushed'[first + i] = values[i]
    BY <1>1, <1>3, <1>4
  <1> HIDE DEF first, n, added
  <1> DEFINE list == [i \in 1 .. first + n |-> [row |-> i - 1, stats |-> Stats(pushed'[i])]]
  <1>9. All' = {list[i] : i \in 1 .. first + n}
    <2>1. DOMAIN pushed' = 1 .. first + n
      BY <1>5
    <2>2. \A v : Stats(v)' = Stats(v)
      BY <1>2, SameStats
    <2>3. All' = {[row |-> i - 1, stats |-> Stats(pushed[i])'] : i \in DOMAIN pushed'}
      BY DEF All
    <2>4. \A i : Stats(pushed[i])' = Stats(pushed'[i])
      BY <1>2 DEF Stats
    <2>5. QED
      BY <2>1, <2>3, <2>4
  <1>10. All = {list[i] : i \in 1 .. first}
    <2>1. \A i \in 1 .. first : list[i] = [row |-> i - 1, stats |-> Stats(pushed[i])]
      BY <1>3, <1>4, <1>7
    <2>2. DOMAIN pushed = 1 .. first
      BY <1>3 DEF first
    <2> HIDE DEF list
    <2>3. QED
      BY <2>1, <2>2 DEF All
  <1>11. \A i \in 1 .. n : list[first + i] = added[i]
    <2>1. TAKE i \in 1 .. n
    <2>2. first + i \in 1 .. first + n /\ (first + i) - 1 = first + i - 1
      BY <1>3, <1>4
    <2>3. list[first + i] = [row |-> first + i - 1, stats |-> Stats(values[i])]
      BY <1>8, <2>2
    <2> HIDE DEF list
    <2>4. QED
      BY <1>6, <2>3
  <1>12. \A i \in 1 .. first + n : list[i].row = i - 1
    OBVIOUS
  <1> HIDE DEF list
  <1>13. All' = All \cup new
    <2>1. \A i \in 1 .. first + n : i \in 1 .. first \/ (\E j \in 1 .. n : i = first + j)
      <3>1. TAKE i \in 1 .. first + n
      <3>2. CASE i <= first
        BY <1>3, <3>2
      <3>3. CASE i > first
        <4>1. i - first \in 1 .. n /\ i = first + (i - first)
          BY <1>3, <1>4, <3>3
        <4>2. QED
          BY <4>1
      <3>4. QED
        BY <1>3, <3>2, <3>3
    <2>2. \A i \in 1 .. first : i \in 1 .. first + n
      BY <1>3, <1>4
    <2>3. \A j \in 1 .. n : first + j \in 1 .. first + n
      BY <1>3, <1>4
    <2>4. ASSUME NEW s \in All' PROVE s \in All \cup new
      <3>1. PICK i \in 1 .. first + n : s = list[i]
        BY <1>9
      <3>2. QED
        BY <1>10, <1>11, <2>1, <3>1
    <2>5. ASSUME NEW s \in All PROVE s \in All'
      BY <1>9, <1>10, <2>2
    <2>6. ASSUME NEW s \in new PROVE s \in All'
      BY <1>9, <1>11, <2>3
    <2>7. QED
      BY <2>4, <2>5, <2>6
  <1>14. Samples(All')
    <2>1. first + n \in Nat
      BY <1>3, <1>4
    <2>2. QED
      BY <1>1, <1>3, <1>9, <1>12, <2>1, RowsAreSamples
  <1>15. \A i, j \in 1 .. n : added[i] = added[j] => i = j
    <2>1. ASSUME NEW i \in 1 .. n, NEW j \in 1 .. n, added[i] = added[j] PROVE i = j
      <3>1. added[i].row = first + i - 1 /\ added[j].row = first + j - 1
        BY <1>6
      <3>2. first + i - 1 = first + j - 1
        BY <2>1, <3>1
      <3>3. QED
        BY <1>3, <3>2
    <2>2. QED
      BY <2>1
  <1>16. \A i \in 1 .. n : added[i] \notin All
    <2>1. ASSUME NEW i \in 1 .. n, added[i] \in All PROVE FALSE
      <3>1. PICK j \in 1 .. first : added[i] = list[j]
        BY <1>10, <2>1
      <3>2. added[i].row = first + i - 1
        BY <1>6
      <3>3. list[j].row = j - 1
        <4>1. j \in 1 .. first + n
          BY <1>3, <1>4
        <4>2. QED
          BY <1>12, <4>1
      <3>4. first + i - 1 = j - 1
        BY <3>1, <3>2, <3>3
      <3>5. QED
        BY <1>3, <3>4
    <2>2. QED
      BY <2>1
  <1>17. Kept(All', sample')
    <2>1. Samples(All \cup new)
      BY <1>13, <1>14
    <2>2. Kept(All \cup new, AddAll(sample, added))
      BY <1>3, <1>4, <1>6, <1>15, <1>16, <2>1, AddAllKeeps
    <2>3. QED
      BY <1>1, <1>13, <2>2
  <1>18. Kept(All, sample)'
    BY <1>1, <1>17 DEF Kept, Greater
  <1>19. exceeded' = Cardinality({s \in All' : Exceeds(s)})
    <2> DEFINE old == {s \in All : Exceeds(s)}
               at == {i \in 1 .. n : Exceeds(added[i])}
               extra == {s \in new : Exceeds(s)}
               f == [i \in at |-> added[i]]
    <2>1. IsFiniteSet(All) /\ IsFiniteSet(at)
      <3>1. Samples(All)
        BY <1>1, AllAreSamples DEF Closed
      <3>2. IsFiniteSet(1 .. n)
        BY <1>4, FS_Interval
      <3>3. IsFiniteSet(at)
        BY <3>2, FS_Subset
      <3>4. QED
        BY <3>1, <3>3 DEF Samples
    <2>2. f \in Bijection(at, extra)
      <3>1. f \in [at -> extra]
        OBVIOUS
      <3>2. IsInjective(f)
        BY <1>15 DEF IsInjective
      <3>3. \A t \in extra : \E i \in at : f[i] = t
        OBVIOUS
      <3> HIDE DEF f
      <3>4. QED
        BY <3>1, <3>2, <3>3 DEF Bijection, Injection, Surjection
    <2>3. IsFiniteSet(extra) /\ Cardinality(extra) = Cardinality(at)
      <3> HIDE DEF f, at, extra
      <3>1. ExistsBijection(at, extra)
        BY <2>2 DEF ExistsBijection
      <3>2. QED
        BY <2>1, <3>1, FS_Bijection
    <2>4. IsFiniteSet(old)
      BY <2>1, FS_Subset
    <2>5. old \cap extra = {}
      BY <1>16
    <2>6. {s \in All' : Exceeds(s)} = old \cup extra
      BY <1>13
    <2>7. exceeded = Cardinality(old) /\ exceeded' = exceeded + Cardinality(at)
      BY <1>1, <1>3, <1>6
    <2> HIDE DEF old, at, extra
    <2>8. Cardinality(old \cup extra) = Cardinality(old) + Cardinality(extra) - Cardinality(old \cap extra)
      BY <2>3, <2>4, FS_Union
    <2>9. Cardinality(old \cap extra) = 0 /\ Cardinality(old) \in Nat /\ Cardinality(extra) \in Nat
      BY <2>3, <2>4, <2>5, FS_EmptySet, FS_CardinalityType
    <2>10. Cardinality(old \cup extra) = Cardinality(old) + Cardinality(at)
      BY <2>3, <2>8, <2>9
    <2>11. exceeded' = Cardinality(old \cup extra)
      BY <2>7, <2>10
    <2>12. QED
      BY <2>6, <2>11
  <1>20. exceeded' = Cardinality({s \in All : Exceeds(s)})'
    BY <1>2, <1>19 DEF Exceeds
  <1>21. count' = Len(pushed') /\ Len(pushed') <= MostRows
    BY <1>1, <1>3, <1>5
  <1>22. outcome' \in Closed /\ report' = NoReport /\ priority' \in Priorities
    BY <1>1, <1>2, <1>3 DEF Closed
  <1>23. QED
    BY <1>5, <1>18, <1>20, <1>21, <1>22 DEF SampleInv

\* No other step adds a sample.
LEMMA CommitKeepsSample ==
    ASSUME SampleInv, Commit
    PROVE  SampleInv'
  <1>1. /\ outcome = "building" /\ outcome' \in Closed
        /\ report' # NoReport =>
               (outcome' = "committed" /\ report' = Report(sample, count, exceeded)) \/ report' = report
        /\ centers' = centers /\ centroids' = centroids /\ file' = file
        /\ priority' = priority /\ pushed' = pushed /\ sample' = sample
        /\ count' = count /\ exceeded' = exceeded
    BY DEF Commit, Closed, trainVars
  <1>2. report = NoReport /\ SampleInv /\ outcome \in Closed
    BY <1>1 DEF SampleInv, Closed
  <1>3. All' = All
    <2>1. \A v : Stats(v)' = Stats(v)
      BY <1>1, SameStats
    <2>2. QED
      BY <1>1, <2>1 DEF All, Stats
  <1>4. Kept(All, sample)'
    BY <1>1, <1>2, <1>3 DEF SampleInv, Kept, Greater
  <1>5. exceeded' = Cardinality({s \in All : Exceeds(s)})'
    BY <1>1, <1>2, <1>3 DEF SampleInv, Exceeds
  <1>6. report' # NoReport => outcome' = "committed" /\ report' = Report(sample, count, exceeded)'
    BY <1>1, <1>2 DEF Report
  <1>7. QED
    BY <1>1, <1>2, <1>4, <1>5, <1>6 DEF SampleInv

\* A builder opens with the model of the file and no sample.
LEMMA OpenKeeps ==
    ASSUME SampleInv, OpenBuilder
    PROVE  TrainInv' /\ ModelInv' /\ SampleInv'
  <1>1. /\ outcome = "restored" /\ outcome' = "building" /\ priority' \in Priorities
        /\ training' = "idle" /\ seeds' = <<>> /\ moved' = FALSE /\ iteration' = 0
        /\ pushed' = pushed /\ sample' = sample /\ count' = count /\ exceeded' = exceeded
        /\ report' = report
    BY DEF OpenBuilder
  <1>2. /\ pushed' = <<>> /\ sample' = {} /\ count' = 0 /\ exceeded' = 0 /\ report' = NoReport
    BY <1>1 DEF SampleInv, Closed
  <1>3. TrainInv'
    <2>1. SeedInv'
      BY <1>1 DEF SeedInv, Started, IsInjective
    <2>2. LloydInv' /\ FixInv'
      BY <1>1 DEF LloydInv, FixInv
    <2>3. QED
      BY <2>1, <2>2 DEF TrainInv
  <1>4. ModelInv'
    BY <1>1 DEF ModelInv, Closed
  <1>5. All' = {}
    BY <1>2 DEF All
  <1>6. Cardinality({}) = 0 /\ 0 <= Capacity
    BY FS_EmptySet, DriftAssumption
  <1>7. Kept(All, sample)'
    BY <1>2, <1>5, <1>6 DEF Kept
  <1>8. exceeded' = Cardinality({s \in All : Exceeds(s)})'
    <2>1. {s \in All' : Exceeds(s)'} = {}
      BY <1>5
    <2>2. QED
      BY <1>2, <1>6, <2>1
  <1>9. pushed' \in Seq(Values) /\ Len(pushed') = 0 /\ 0 <= MostRows
    BY <1>2, DriftAssumption
  <1>10. SampleInv'
    BY <1>1, <1>2, <1>7, <1>8, <1>9 DEF SampleInv, Closed
  <1>11. QED
    BY <1>3, <1>4, <1>10

\* Training and the file come before the builder.
LEMMA ModelLeavesSample ==
    ASSUME ModelInv, SampleInv, Next, UNCHANGED driftVars
    PROVE  SampleInv'
  <1>1. /\ pushed' = pushed /\ sample' = sample /\ count' = count /\ exceeded' = exceeded
        /\ report' = report
    BY DEF driftVars
  <1>2. outcome \notin Closed /\ outcome' \notin Closed
    <2>1. ASSUME NEW all \in TrainingRows, NEW part \in ValidationRows, BeginModel(all, part)
          PROVE  outcome \notin Closed /\ outcome' \notin Closed
      BY <2>1 DEF BeginModel, Closed
    <2>2. ASSUME NEW set \in ResidualSets, TrainAlone(set)
          PROVE  outcome \notin Closed /\ outcome' \notin Closed
      BY <2>2 DEF TrainAlone, Closed
    <2>3. ASSUME Train PROVE outcome \notin Closed /\ outcome' \notin Closed
      <3>1. training # "idle"
        BY <2>3 DEF Train, TrainStep, SelectSeed, Assign, Reseed, Recenter, EndIteration
      <3>2. outcome' = outcome
        BY <2>3 DEF Train, modelVars
      <3>3. QED
        BY <3>1, <3>2 DEF ModelInv
    <2>4. ASSUME MeasureBaseline \/ Save \/ Restore
          PROVE  outcome \notin Closed /\ outcome' \notin Closed
      BY <2>4 DEF MeasureBaseline, Save, Restore, Closed
    <2>5. QED
      BY <2>1, <2>2, <2>3, <2>4 DEF Next
  <1>3. report' = NoReport
    BY <1>1, <1>2 DEF SampleInv, Closed
  <1>4. QED
    BY <1>1, <1>2, <1>3 DEF SampleInv

-----------------------------------------------------------------------------
(* The theorems. *)

DriftInv == TrainInv /\ ModelInv /\ SampleInv

\* A builder's steps leave its model alone.
LEMMA BuilderStepKeeps ==
    ASSUME TrainInv, ModelInv, outcome = "building", outcome' \in Closed, UNCHANGED trainVars
    PROVE  TrainInv' /\ ModelInv'
  <1>1. training' = training
    BY DEF trainVars
  <1>2. training = "idle"
    BY DEF ModelInv, Closed
  <1>3. TrainInv'
    BY SameTraining
  <1>4. QED
    BY <1>1, <1>2, <1>3 DEF ModelInv, Closed

LEMMA DriftInit0 == DriftInit => DriftInv
  <1> SUFFICES ASSUME DriftInit PROVE DriftInv
    OBVIOUS
  <1>1. TrainInv
    BY IdleTraining DEF DriftInit, Init, TrainInit
  <1>2. ModelInv
    BY DEF DriftInit, Init, TrainInit, ModelInv, Closed
  <1>3. SampleInv
    BY DEF DriftInit, Init, SampleInv, Closed
  <1>4. QED
    BY <1>1, <1>2, <1>3 DEF DriftInv

LEMMA DriftStep == DriftInv /\ [DriftNext]_allVars => DriftInv'
  <1> SUFFICES ASSUME DriftInv, [DriftNext]_allVars PROVE DriftInv'
    OBVIOUS
  <1>0. TrainInv /\ ModelInv /\ SampleInv
    BY DEF DriftInv
  <1>1. ASSUME Next, UNCHANGED driftVars PROVE DriftInv'
    BY <1>0, <1>1, ModelStepKeeps, ModelLeavesSample DEF DriftInv
  <1>2. ASSUME OpenBuilder PROVE DriftInv'
    BY <1>0, <1>2, OpenKeeps DEF DriftInv
  <1>3. ASSUME NEW values \in PushedSegments, StageSegment(values) PROVE DriftInv'
    <2>1. outcome = "building" /\ outcome' = outcome /\ UNCHANGED trainVars
      BY <1>3 DEF StageSegment, vars, modelVars
    <2>2. TrainInv' /\ ModelInv'
      BY <1>0, <2>1, BuilderStepKeeps DEF Closed
    <2>3. QED
      BY <1>0, <1>3, <2>2, StageKeepsSample DEF DriftInv
  <1>4. ASSUME Commit PROVE DriftInv'
    <2>1. outcome = "building" /\ outcome' \in Closed /\ UNCHANGED trainVars
      BY <1>4 DEF Commit, Closed
    <2>2. TrainInv' /\ ModelInv'
      BY <1>0, <2>1, BuilderStepKeeps
    <2>3. QED
      BY <1>0, <1>4, <2>2, CommitKeepsSample DEF DriftInv
  <1>5. ASSUME UNCHANGED allVars PROVE DriftInv'
    <2>1. /\ UNCHANGED trainVars
          /\ rows' = rows /\ validation' = validation /\ centers' = centers
          /\ baseline' = baseline /\ file' = file /\ outcome' = outcome
          /\ priority' = priority /\ pushed' = pushed /\ sample' = sample
          /\ count' = count /\ exceeded' = exceeded /\ report' = report
      BY <1>5 DEF allVars, vars, modelVars, driftVars
    <2>2. TrainInv'
      BY <1>0, <2>1, SameTraining
    <2>3. training' = training /\ seeds' = seeds /\ centroids' = centroids
      BY <2>1 DEF trainVars
    <2>4. Saved' = Saved
      BY <2>1 DEF Saved, ValidFile, ValidBaseline, Restorable, CanonicalValues
    <2>5. Started' = Started /\ Ordered(centers)' = Ordered(centers)
      BY <2>1, <2>3 DEF Started, Ordered
    <2>6. ValidBaseline(baseline)' = ValidBaseline(baseline)
      BY <2>1 DEF ValidBaseline
    <2>7. ModelInv'
      BY <1>0, <2>1, <2>3, <2>4, <2>5, <2>6 DEF ModelInv
    <2>8. All' = All
      BY <2>1, <2>3 DEF All, Stats
    <2>9. Kept(All, sample)' = Kept(All, sample)
      BY <2>1, <2>8 DEF Kept, Greater
    <2>10. Cardinality({s \in All : Exceeds(s)})' = Cardinality({s \in All : Exceeds(s)})
      BY <2>1, <2>8 DEF Exceeds
    <2>11. Report(sample, count, exceeded)' = Report(sample, count, exceeded)
      BY <2>1 DEF Report
    <2>12. SampleInv'
      BY <1>0, <2>1, <2>9, <2>10, <2>11 DEF SampleInv
    <2>13. QED
      BY <2>2, <2>7, <2>12 DEF DriftInv
  <1>6. QED
    BY <1>1, <1>2, <1>3, <1>4, <1>5 DEF DriftNext

\* Training, the model file and the statistics of a commit keep their invariant
\* (IndexBuilder::create, append, stage_segment and commit).
THEOREM DriftInductive == DriftSpec => []DriftInv
  <1>1. DriftInit => DriftInv
    BY DriftInit0
  <1>2. DriftInv /\ [DriftNext]_allVars => DriftInv'
    BY DriftStep
  <1>3. QED
    BY <1>1, <1>2, PTL DEF DriftSpec

\* No row seeds two centroids (initialize_centroids).
THEOREM SeedsNeverRepeat == DriftSpec => []SeedsDistinct
  <1>1. DriftInv => SeedsDistinct
    BY DEF DriftInv, TrainInv, SeedInv, SeedsDistinct
  <1>2. QED
    BY <1>1, DriftInductive, PTL

\* A training that stops early stopped where another iteration would change
\* nothing (lloyd_iteration_has_converged).
THEOREM StopsWhereItSettled == DriftSpec => []StopsAtFixpoint
  <1>1. DriftInv => StopsAtFixpoint
    <2> SUFFICES ASSUME DriftInv, training = "trained", iteration < LloydIterations
                 PROVE  StopsAtFixpoint
      BY DEF StopsAtFixpoint
    <2>1. Settled /\ next = Centroids + 1 /\ Centroids \in Nat
      BY TrainingAssumption DEF DriftInv, TrainInv, FixInv
    <2>2. next - 1 = Centroids
      BY <2>1
    <2>3. QED
      BY <2>1, <2>2 DEF Settled, StopsAtFixpoint
  <1>2. QED
    BY <1>1, DriftInductive, PTL

\* The invariant of the errors, and that no assignment makes them worse.
LEMMA ErrorStep ==
    ASSUME DriftInv, ErrorInv, [DriftNext]_allVars
    PROVE  ErrorInv' /\ [training = "assign" /\ iteration > 0 => Total(errors') <= Total(errors)]_trainVars
  <1>1. CASE Next
    BY <1>1, ModelErrors DEF DriftInv
  <1>2. CASE OpenBuilder
    <2>1. /\ outcome = "restored" /\ outcome' = "building" /\ training' = "idle"
          /\ iteration' = 0
      BY <1>2 DEF OpenBuilder
    <2>2. training # "assign"
      BY <2>1 DEF ErrorInv
    <2>3. QED
      BY <2>1, <2>2 DEF ErrorInv, Started, Iterating
  <1>3. ASSUME (\E values \in PushedSegments : StageSegment(values)) \/ Commit
        PROVE  UNCHANGED trainVars /\ outcome' \notin {"measured", "saved", "restored"}
    BY <1>3 DEF StageSegment, Commit, vars, modelVars
  <1>4. CASE UNCHANGED allVars
    <2>1. UNCHANGED trainVars /\ outcome' = outcome
      BY <1>4 DEF allVars, vars, modelVars
    <2>2. QED
      BY <2>1, OtherErrors DEF ErrorInv
  <1>5. CASE (\E values \in PushedSegments : StageSegment(values)) \/ Commit
    BY <1>3, <1>5, OtherErrors
  <1>6. QED
    BY <1>1, <1>2, <1>4, <1>5 DEF DriftNext

\* An iteration never represents the rows worse than the one before
\* (train_subquantizer).
THEOREM IterationsImprove == DriftSpec => ErrorNeverGrows
  <1>1. DriftInit => ErrorInv
    BY DEF DriftInit, Init, TrainInit, ErrorInv, Started, Iterating
  <1>2. DriftInv /\ ErrorInv /\ [DriftNext]_allVars => ErrorInv'
    BY ErrorStep
  <1>3. DriftInv /\ ErrorInv /\ [DriftNext]_allVars
            => [training = "assign" /\ iteration > 0 => Total(errors') <= Total(errors)]_trainVars
    BY ErrorStep
  <1>4. QED
    BY <1>1, <1>2, <1>3, DriftInductive, PTL DEF DriftSpec, ErrorNeverGrows

\* The file of a trained model is written and read back (ModelFile::encode,
\* ModelFile::decode, Model::restore).
THEOREM TrainedModelsAreKept == DriftSpec => []TrainedModelRestores
  <1>1. DriftInv => TrainedModelRestores
    BY DEF DriftInv, ModelInv, TrainedModelRestores, Closed
  <1>2. QED
    BY <1>1, DriftInductive, PTL

\* The report of a commit is that of all its rows (DriftSample::add, report).
THEOREM WholeCommitIsReported == DriftSpec => []ReportsWholeCommit
  <1>1. DriftInv => ReportsWholeCommit
    <2> SUFFICES ASSUME DriftInv, report # NoReport PROVE ReportsWholeCommit
      BY DEF ReportsWholeCommit
    <2>1. /\ SampleInv /\ outcome \in Closed
          /\ report = Report(sample, count, exceeded)
      BY DEF DriftInv, SampleInv, Closed
    <2>2. /\ Kept(All, sample) /\ count = Len(pushed)
          /\ exceeded = Cardinality({s \in All : Exceeds(s)})
      BY <2>1 DEF SampleInv
    <2>3. sample = {s \in All : Cardinality(Below(All, s)) < Capacity}
      BY <2>1, <2>2, AllAreSamples, KeptAreLeast
    <2>4. QED
      BY <2>1, <2>2, <2>3 DEF ReportsWholeCommit, All, Below
  <1>2. QED
    BY <1>1, DriftInductive, PTL
=============================================================================
