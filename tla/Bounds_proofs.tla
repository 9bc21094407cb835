---------------------------- MODULE Bounds_proofs ----------------------------
(***************************************************************************)
(* Proofs about the bounds of scores. What the test kit measures with      *)
(* them, for every number of rows, every k, every corpus and every score   *)
(* its certificates allow: no row of the true top k is pruned, k rows      *)
(* always survive, and certificates of single rows leave no more rows than *)
(* the certificate of the block. The streaming oracle, for every corpus,   *)
(* chunk, number of threads and order of a merge: its heaps rank as the    *)
(* exact oracle does, and a benchmark compares an index with the ranking   *)
(* of its own rows. And the bounds themselves, for every dimension,        *)
(* precision, model and list of rows: computed in floating point from the  *)
(* errors of the rows of a block, they hold the exact score of the vectors *)
(* that went in, and so do those of a dot product made of them.            *)
(***************************************************************************)
(* Proofs about the package of measurements. Certified pruning, for every  *)
(* number of rows, every k, every corpus and every score its certificates  *)
(* allow: no row of the true top k is pruned, k rows always survive, and   *)
(* certificates of single rows leave no more rows than the certificate of  *)
(* the block. The streaming oracle, for every corpus, chunk, number of     *)
(* threads and order of a merge: its heaps rank as the exact oracle does,  *)
(* and a benchmark compares an index with the ranking of its own rows.     *)
(***************************************************************************)
EXTENDS Oracle, DotProduct, TLAPS, FiniteSetTheorems, WellFoundedInduction, SequenceTheorems

-----------------------------------------------------------------------------
(* Finite sets of scores. *)

LEMMA FirstNatural ==
    ASSUME NEW T, T \subseteq Nat, T # {}
    PROVE  \E x \in T : \A y \in T : ~ (y < x)
  <1>1. PICK x \in T : \A y \in T : ~ (<<y, x>> \in OpToRel(<, Nat))
    BY WFMin, NatLessThanWellFounded
  <1>2. ASSUME NEW y \in T, y < x PROVE <<y, x>> \in OpToRel(<, Nat)
    BY <1>2 DEF OpToRel
  <1>3. QED
    BY <1>1, <1>2

\* A set of integers that is bounded above has a largest element.
LEMMA LargestExists ==
    ASSUME NEW S, S # {}, NEW b \in Int, \A x \in S : x \in Int /\ x <= b
    PROVE  \E m \in S : \A x \in S : x <= m
  <1> DEFINE D == {b - x : x \in S}
  <1>1. D \subseteq Nat /\ D # {}
    BY SMT
  <1>3. PICK d \in D : \A e \in D : ~(e < d)
    BY <1>1, FirstNatural
  <1>4. PICK m \in S : d = b - m
    BY <1>3
  <1>5. ASSUME NEW x \in S PROVE x <= m
    <2>1. ~(b - x < b - m)
      BY <1>3, <1>4
    <2>2. QED
      BY <2>1, SMT
  <1>6. QED
    BY <1>5

\* And one that is bounded below has a smallest.
LEMMA SmallestExists ==
    ASSUME NEW S, S # {}, NEW b \in Int, \A x \in S : x \in Int /\ b <= x
    PROVE  \E m \in S : \A x \in S : m <= x
  <1> DEFINE D == {-x : x \in S}
  <1>1. D # {} /\ -b \in Int /\ \A x \in D : x \in Int /\ x <= -b
    BY SMT
  <1> HIDE DEF D
  <1>2. PICK d \in D : \A e \in D : e <= d
    BY <1>1, LargestExists
  <1> USE DEF D
  <1>3. PICK m \in S : d = -m
    BY <1>2
  <1>4. ASSUME NEW x \in S PROVE m <= x
    <2>1. -x <= -m
      BY <1>2, <1>3
    <2>2. QED
      BY <2>1, SMT
  <1>5. QED
    BY <1>4

LEMMA RowsFinite ==
    /\ IsFiniteSet(Rows) /\ Cardinality(Rows) = RowCount /\ Rows # {}
    /\ \A S \in SUBSET Rows : IsFiniteSet(S) /\ Cardinality(S) \in 0..RowCount
  <1>1. RowCount \in Nat /\ RowCount > 0 /\ RowCount - 1 \in Int
    BY HarnessAssumption, SMT
  <1>2. IsFiniteSet(Rows) /\ Cardinality(Rows) = RowCount
    <2>1. IsFiniteSet(0..(RowCount - 1))
            /\ Cardinality(0..(RowCount - 1)) =
                  IF 0 > RowCount - 1 THEN 0 ELSE (RowCount - 1) - 0 + 1
      BY <1>1, FS_Interval
    <2>2. QED
      BY <2>1, <1>1, SMT DEF Rows
  <1>3. 0 \in Rows
    BY <1>1, SMT DEF Rows
  <1>4. ASSUME NEW S \in SUBSET Rows
        PROVE  IsFiniteSet(S) /\ Cardinality(S) \in 0..RowCount
    <2>1. IsFiniteSet(S) /\ Cardinality(S) <= RowCount
      BY <1>2, FS_Subset
    <2>2. Cardinality(S) \in Nat
      BY <2>1, FS_CardinalityType
    <2>3. QED
      BY <2>1, <2>2, <1>1, SMT
  <1>5. QED
    BY <1>2, <1>3, <1>4

\* A subset of the rows that has as many elements as another one, or fewer.
LEMMA SmallerSubset ==
    ASSUME NEW S \in SUBSET Rows, NEW T \in SUBSET S
    PROVE  Cardinality(T) <= Cardinality(S) /\ (Cardinality(T) = Cardinality(S) => T = S)
  BY RowsFinite, FS_Subset

-----------------------------------------------------------------------------
(* The threshold. *)

\* The lower bounds of a query: integers, none further from 0 than b.
Bounded(value, b) == value \in [Rows -> (-b)..b]

LEMMA ThresholdIsReached ==
    ASSUME NEW b \in Nat, NEW lower, Bounded(lower, b), NEW n \in Nat
    PROVE  LET t == Threshold(lower, n)
           IN  /\ t \in {lower[r] : r \in Rows}
               /\ Cardinality(AtLeast(lower, t)) >= Least(n, RowCount)
               /\ \A r \in Rows : Cardinality(AtLeast(lower, lower[r])) >= Least(n, RowCount)
                                      => lower[r] <= t
  <1> DEFINE values == {lower[r] : r \in Rows}
             enough == {v \in values : Cardinality(AtLeast(lower, v)) >= Least(n, RowCount)}
  <1>1. /\ values # {} /\ -b \in Int /\ b \in Int
        /\ \A v \in values : v \in Int /\ -b <= v /\ v <= b
    BY RowsFinite, SMT DEF Bounded
  <1>2. enough # {}
    <2> HIDE DEF values
    <2>1. PICK v \in values : \A w \in values : v <= w
      BY <1>1, SmallestExists
    <2> USE DEF values
    <2>2. AtLeast(lower, v) = Rows
      BY <1>1, <2>1, SMT DEF AtLeast
    <2>3. Least(n, RowCount) <= RowCount
      BY HarnessAssumption, SMT DEF Least
    <2>4. QED
      BY <2>1, <2>2, <2>3, RowsFinite, HarnessAssumption, SMT DEF Least
  <1>3. PICK t \in enough : \A v \in enough : v <= t
    <2>1. \A v \in enough : v \in Int /\ v <= b
      BY <1>1
    <2> HIDE DEF enough
    <2>2. QED
      BY <1>1, <1>2, <2>1, LargestExists
  <1>4. \E v \in {lower[r] : r \in Rows} :
          /\ Cardinality(AtLeast(lower, v)) >= Least(n, RowCount)
          /\ \A r \in Rows : Cardinality(AtLeast(lower, lower[r])) >= Least(n, RowCount)
                                 => lower[r] <= v
    BY <1>3
  <1>5. QED
    BY <1>4 DEF Threshold

-----------------------------------------------------------------------------
(* One query. *)

Errors == [Rows -> 0..MaxScore]

\* What the certificates promise of a query's scores.
Within(score, truth, error) ==
    /\ score \in [Rows -> Scores] /\ truth \in [Rows -> Scores]
    /\ \A r \in Rows : Distance(score[r], truth[r]) <= error[r]

LEMMA BoundsHoldTruth ==
    ASSUME NEW score, NEW truth, NEW error \in Errors, Within(score, truth, error),
           NEW r \in Rows
    PROVE  /\ truth[r] \in Int
           /\ Lower(score, error)[r] \in Int /\ Lower(score, error)[r] <= truth[r]
           /\ Upper(score, error)[r] \in Int /\ truth[r] <= Upper(score, error)[r]
  <1>1. /\ score[r] \in Int /\ truth[r] \in Int /\ error[r] \in Int
        /\ Distance(score[r], truth[r]) <= error[r]
    BY HarnessAssumption, SMT DEF Within, Errors, Scores
  <1>2. /\ Lower(score, error)[r] = score[r] - error[r]
        /\ Upper(score, error)[r] = score[r] + error[r]
    BY DEF Lower, Upper
  <1>3. QED
    BY <1>1, <1>2, SMT DEF Distance

LEMMA LowerBounded ==
    ASSUME NEW score \in [Rows -> Scores], NEW error \in Errors
    PROVE  2 * MaxScore \in Nat /\ Bounded(Lower(score, error), 2 * MaxScore)
  <1>1. MaxScore \in Nat
    BY HarnessAssumption
  <1>2. ASSUME NEW r \in Rows
        PROVE  score[r] - error[r] \in (-(2 * MaxScore))..(2 * MaxScore)
    <2>1. score[r] \in (-MaxScore)..MaxScore /\ error[r] \in 0..MaxScore
      BY DEF Scores, Errors
    <2>2. QED
      BY <1>1, <2>1, SMT
  <1>3. QED
    BY <1>1, <1>2, SMT DEF Bounded, Lower

\* The rows of the true top n survive.
LEMMA BestSurvive ==
    ASSUME NEW score, NEW truth, NEW error \in Errors, Within(score, truth, error), k \in Nat
    PROVE  Best(Rows, truth, k) \subseteq Survivors(score, error)
  <1> DEFINE lower == Lower(score, error)
             upper == Upper(score, error)
             t == Threshold(lower, k)
             better(r) == {s \in Rows : Better(truth, s, r)}
  <1>1. /\ t \in {lower[r] : r \in Rows}
        /\ Cardinality(AtLeast(lower, t)) >= Least(k, RowCount)
    <2>1. 2 * MaxScore \in Nat /\ Bounded(lower, 2 * MaxScore)
      BY LowerBounded DEF Within
    <2>2. QED
      BY <2>1, ThresholdIsReached
  <1>2. t \in Int
    BY <1>1, BoundsHoldTruth
  <1> HIDE DEF t, lower, upper
  <1>3. \A r \in Rows : /\ truth[r] \in Int /\ lower[r] \in Int /\ upper[r] \in Int
                        /\ lower[r] <= truth[r] /\ truth[r] <= upper[r]
    BY BoundsHoldTruth DEF lower, upper
  <1>4. SUFFICES ASSUME NEW r \in Best(Rows, truth, k), upper[r] < t
                 PROVE  FALSE
    <2>1. ASSUME NEW r \in Best(Rows, truth, k), ~(upper[r] < t)
          PROVE  r \in AtLeast(upper, t)
      BY <1>2, <1>3, <2>1, SMT DEF AtLeast, Best
    <2>2. Survivors(score, error) = AtLeast(upper, t)
      BY DEF Survivors, upper, lower, t
    <2>3. QED
      BY <2>1, <2>2
  <1>5. r \in Rows /\ Cardinality(better(r)) < k
    BY DEF Best
  <1>6. ASSUME NEW s \in AtLeast(lower, t) PROVE s \in better(r)
    <2>1. s \in Rows /\ lower[s] >= t
      BY DEF AtLeast
    <2>2. truth[s] > truth[r]
      BY <1>2, <1>3, <1>4, <1>5, <2>1, SMT
    <2>3. QED
      BY <2>1, <2>2 DEF Better
  <1>7. better(r) \in SUBSET (Rows \ {r})
    <2>1. ~ Better(truth, r, r)
      BY <1>3, <1>5, SMT DEF Better, Rows
    <2>2. QED
      BY <2>1
  <1>8. Cardinality(better(r)) \in Nat /\ Cardinality(better(r)) < RowCount
    <2>1. better(r) \in SUBSET Rows /\ better(r) # Rows
      BY <1>5, <1>7
    <2>2. Cardinality(better(r)) # RowCount
      BY <2>1, SmallerSubset, RowsFinite
    <2> HIDE DEF better
    <2>3. Cardinality(better(r)) \in 0..RowCount
      BY <2>1, RowsFinite
    <2>4. QED
      BY <2>2, <2>3, HarnessAssumption, SMT
  <1>9. Cardinality(AtLeast(lower, t)) <= Cardinality(better(r))
          /\ Cardinality(AtLeast(lower, t)) \in Nat
    <2>1. AtLeast(lower, t) \in SUBSET better(r) /\ better(r) \in SUBSET Rows
      BY <1>6
    <2> HIDE DEF better
    <2>2. Cardinality(AtLeast(lower, t)) <= Cardinality(better(r))
      BY <2>1, SmallerSubset
    <2>3. Cardinality(AtLeast(lower, t)) \in 0..RowCount
      BY <2>1, RowsFinite
    <2>4. QED
      BY <2>2, <2>3, HarnessAssumption, SMT
  <1> HIDE DEF better
  <1>10. QED
    BY <1>1, <1>5, <1>8, <1>9, HarnessAssumption, SMT DEF Least

\* And at least n rows, or all of them.
LEMMA EnoughSurvive ==
    ASSUME NEW score \in [Rows -> Scores], NEW error \in Errors, k \in Nat
    PROVE  Least(k, RowCount) <= Cardinality(Survivors(score, error))
  <1> DEFINE lower == Lower(score, error)
             upper == Upper(score, error)
             t == Threshold(lower, k)
  <1>1. /\ t \in {lower[r] : r \in Rows}
        /\ Cardinality(AtLeast(lower, t)) >= Least(k, RowCount)
    <2>1. 2 * MaxScore \in Nat /\ Bounded(lower, 2 * MaxScore)
      BY LowerBounded
    <2>2. QED
      BY <2>1, ThresholdIsReached
  <1>2. \A r \in Rows : lower[r] \in Int /\ upper[r] \in Int /\ lower[r] <= upper[r]
    <2>1. ASSUME NEW r \in Rows
          PROVE  lower[r] \in Int /\ upper[r] \in Int /\ lower[r] <= upper[r]
      <3>1. score[r] \in Int /\ error[r] \in Nat
        BY HarnessAssumption, SMT DEF Scores, Errors
      <3>2. lower[r] = score[r] - error[r] /\ upper[r] = score[r] + error[r]
        BY DEF Lower, Upper
      <3> HIDE DEF lower, upper
      <3>3. QED
        BY <3>1, <3>2, SMT
    <2>2. QED
      BY <2>1
  <1>3. t \in Int
    BY <1>1, <1>2
  <1>4. Survivors(score, error) = AtLeast(upper, t)
    BY DEF Survivors
  <1> HIDE DEF t, lower, upper
  <1>5. AtLeast(lower, t) \subseteq AtLeast(upper, t) /\ AtLeast(upper, t) \subseteq Rows
    BY <1>2, <1>3, SMT DEF AtLeast
  <1>6. Cardinality(AtLeast(lower, t)) <= Cardinality(AtLeast(upper, t))
          /\ Cardinality(AtLeast(lower, t)) \in 0..RowCount
          /\ Cardinality(AtLeast(upper, t)) \in 0..RowCount
    BY <1>5, SmallerSubset, RowsFinite
  <1>7. QED
    BY <1>1, <1>4, <1>6, HarnessAssumption, SMT DEF Least

\* Smaller errors leave fewer rows, although they raise the threshold.
LEMMA TighterLeavesFewer ==
    ASSUME NEW score \in [Rows -> Scores], NEW small \in Errors, NEW large \in Errors,
           \A r \in Rows : small[r] <= large[r], k \in Nat
    PROVE  Cardinality(Survivors(score, small)) <= Cardinality(Survivors(score, large))
  <1> DEFINE lower1 == Lower(score, small)
             lower2 == Lower(score, large)
             upper1 == Upper(score, small)
             upper2 == Upper(score, large)
             t1 == Threshold(lower1, k)
             t2 == Threshold(lower2, k)
             above == AtLeast(lower1, t2)
  <1>1. \A r \in Rows : /\ lower1[r] \in Int /\ lower2[r] \in Int /\ lower2[r] <= lower1[r]
                        /\ upper1[r] \in Int /\ upper2[r] \in Int /\ upper1[r] <= upper2[r]
    <2>1. ASSUME NEW r \in Rows
          PROVE  /\ lower1[r] \in Int /\ lower2[r] \in Int /\ lower2[r] <= lower1[r]
                 /\ upper1[r] \in Int /\ upper2[r] \in Int /\ upper1[r] <= upper2[r]
      <3>1. score[r] \in Int /\ small[r] \in Nat /\ large[r] \in Nat /\ small[r] <= large[r]
        BY HarnessAssumption, SMT DEF Scores, Errors
      <3>2. /\ lower1[r] = score[r] - small[r] /\ lower2[r] = score[r] - large[r]
            /\ upper1[r] = score[r] + small[r] /\ upper2[r] = score[r] + large[r]
        BY DEF Lower, Upper
      <3> HIDE DEF lower1, lower2, upper1, upper2
      <3>3. QED
        BY <3>1, <3>2, SMT
    <2>2. QED
      BY <2>1
  <1>2. /\ t1 \in {lower1[r] : r \in Rows}
        /\ \A r \in Rows : Cardinality(AtLeast(lower1, lower1[r])) >= Least(k, RowCount)
                               => lower1[r] <= t1
    <2>1. 2 * MaxScore \in Nat /\ Bounded(lower1, 2 * MaxScore)
      BY LowerBounded
    <2>2. QED
      BY <2>1, ThresholdIsReached
  <1>3. /\ t2 \in {lower2[r] : r \in Rows}
        /\ Cardinality(AtLeast(lower2, t2)) >= Least(k, RowCount)
    <2>1. 2 * MaxScore \in Nat /\ Bounded(lower2, 2 * MaxScore)
      BY LowerBounded
    <2>2. QED
      BY <2>1, ThresholdIsReached
  <1>4. t1 \in Int /\ t2 \in Int
    BY <1>1, <1>2, <1>3
  <1>5. /\ Survivors(score, small) = AtLeast(upper1, t1)
        /\ Survivors(score, large) = AtLeast(upper2, t2)
    BY DEF Survivors
  <1> HIDE DEF t1, t2, lower1, lower2, upper1, upper2
  <1>6. /\ above \in SUBSET Rows /\ AtLeast(lower2, t2) \in SUBSET above
        /\ above # {}
    <2>1. AtLeast(lower2, t2) \in SUBSET above /\ above \in SUBSET Rows
      BY <1>1, <1>4, SMT DEF AtLeast
    <2>2. PICK r \in Rows : t2 = lower2[r]
      BY <1>3
    <2>3. r \in above
      BY <2>2, <1>1, <1>4, SMT DEF AtLeast
    <2>4. QED
      BY <2>1, <2>3
  <1>7. Cardinality(above) >= Least(k, RowCount)
    <2>1. /\ Cardinality(AtLeast(lower2, t2)) <= Cardinality(above)
          /\ Cardinality(AtLeast(lower2, t2)) \in 0..RowCount
          /\ Cardinality(above) \in 0..RowCount
      BY <1>6, SmallerSubset, RowsFinite
    <2> HIDE DEF above
    <2>2. QED
      BY <1>3, <2>1, HarnessAssumption, SMT DEF Least
  <1>8. PICK r \in above : \A s \in above : lower1[r] <= lower1[s]
    <2> DEFINE values == {lower1[s] : s \in above}
    <2>1. values # {} /\ \A v \in values : v \in Int /\ t2 <= v
      <3>1. ASSUME NEW s \in above PROVE lower1[s] \in Int /\ t2 <= lower1[s]
        BY <1>1, <1>4, SMT DEF AtLeast
      <3> HIDE DEF above
      <3>2. QED
        BY <3>1, <1>6
    <2> HIDE DEF values
    <2>2. PICK v \in values : \A w \in values : v <= w
      BY <1>4, <2>1, SmallestExists
    <2> USE DEF values
    <2>3. QED
      BY <2>2
  <1>9. above \in SUBSET AtLeast(lower1, lower1[r]) /\ r \in Rows /\ t2 <= lower1[r]
    BY <1>1, <1>4, <1>6, <1>8, SMT DEF AtLeast
  <1>10. Cardinality(AtLeast(lower1, lower1[r])) >= Least(k, RowCount)
    <2>1. AtLeast(lower1, lower1[r]) \in SUBSET Rows
      BY DEF AtLeast
    <2>2. /\ Cardinality(above) <= Cardinality(AtLeast(lower1, lower1[r]))
          /\ Cardinality(AtLeast(lower1, lower1[r])) \in 0..RowCount
          /\ Cardinality(above) \in 0..RowCount
      BY <1>6, <1>9, <2>1, SmallerSubset, RowsFinite
    <2> HIDE DEF above
    <2>3. QED
      BY <1>7, <2>2, HarnessAssumption, SMT DEF Least
  <1>11. t2 <= t1
    BY <1>1, <1>2, <1>4, <1>9, <1>10, SMT
  <1>12. AtLeast(upper1, t1) \in SUBSET AtLeast(upper2, t2) /\ AtLeast(upper2, t2) \in SUBSET Rows
    BY <1>1, <1>4, <1>11, SMT DEF AtLeast
  <1>13. QED
    BY <1>5, <1>12, SmallerSubset

-----------------------------------------------------------------------------
(* The certificates of the block. *)

Kinds == {"primary", "refined"}
Encoding == [Rows -> [primary : 0..MaxScore, refined : 0..MaxScore]]

LEMMA CertificateErrors ==
    ASSUME encoding \in Encoding, NEW kind \in Kinds
    PROVE  /\ RowErrors(kind) \in Errors /\ BlockErrors(kind) \in Errors
           /\ \A r \in Rows : RowErrors(kind)[r] <= BlockErrors(kind)[r]
  <1> DEFINE values == {encoding[r][kind] : r \in Rows}
  <1>1. \A r \in Rows : encoding[r][kind] \in 0..MaxScore
    BY DEF Encoding, Kinds
  <1>2. /\ values # {} /\ MaxScore \in Int
        /\ \A v \in values : v \in Int /\ v <= MaxScore
    BY <1>1, RowsFinite, HarnessAssumption, SMT
  <1>3. \E e \in values : \A r \in Rows : encoding[r][kind] <= e
    <2> HIDE DEF values
    <2>1. \E e \in values : \A v \in values : v <= e
      BY <1>2, LargestExists
    <2> USE DEF values
    <2>2. QED
      BY <2>1
  <1>4. BlockError(kind) \in values /\ \A r \in Rows : encoding[r][kind] <= BlockError(kind)
    BY <1>3 DEF BlockError
  <1>5. BlockError(kind) \in 0..MaxScore
    BY <1>1, <1>4
  <1>6. QED
    BY <1>1, <1>4, <1>5 DEF RowErrors, BlockErrors, Errors

\* What a scorer may answer is within the errors of the rows, and so of the block.
LEMMA EstimatesWithin ==
    ASSUME encoding \in Encoding, NEW kind \in Kinds, NEW truth \in [Rows -> Scores],
           NEW score \in Estimates(truth, kind)
    PROVE  Within(score, truth, BlockErrors(kind))
  <1>1. score \in [Rows -> Scores]
    BY DEF Estimates
  <1>2. ASSUME NEW r \in Rows PROVE Distance(score[r], truth[r]) <= BlockErrors(kind)[r]
    <2>1. Distance(score[r], truth[r]) <= RowErrors(kind)[r]
      BY DEF Estimates, RowErrors
    <2>2. RowErrors(kind)[r] \in Int /\ BlockErrors(kind)[r] \in Int
            /\ RowErrors(kind)[r] <= BlockErrors(kind)[r]
      BY CertificateErrors, HarnessAssumption, SMT DEF Errors
    <2>3. Distance(score[r], truth[r]) \in Int
      BY <1>1, HarnessAssumption, SMT DEF Distance, Scores
    <2>4. QED
      BY <2>1, <2>2, <2>3, SMT
  <1>3. QED
    BY <1>1, <1>2 DEF Within

LEMMA NoViolation ==
    ASSUME encoding \in Encoding, NEW kind \in Kinds, NEW rows \in SUBSET Rows,
           NEW score, NEW truth, Within(score, truth, BlockErrors(kind))
    PROVE  Violations(rows, score, truth, kind) = {}
  <1>1. ASSUME NEW r \in rows
        PROVE  ~ (\/ truth[r] < Lower(score, BlockErrors(kind))[r]
                  \/ truth[r] > Upper(score, BlockErrors(kind))[r])
    <2>1. BlockErrors(kind) \in Errors
      BY CertificateErrors
    <2>2. /\ truth[r] \in Int
          /\ Lower(score, BlockErrors(kind))[r] \in Int
          /\ Lower(score, BlockErrors(kind))[r] <= truth[r]
          /\ Upper(score, BlockErrors(kind))[r] \in Int
          /\ truth[r] <= Upper(score, BlockErrors(kind))[r]
      BY <2>1, BoundsHoldTruth
    <2>3. QED
      BY <2>2, SMT
  <1>2. QED
    BY <1>1 DEF Violations

-----------------------------------------------------------------------------
(* The inductive invariant: what the harness holds has its types, what it  *)
(* scanned is within the errors, and no failure has been counted.          *)

Scans == [truth : [Rows -> Scores], primary : [Rows -> Scores], refined : [Rows -> Scores]]
Outcomes == [budget : Nat, near : Seq(Nat), far : Seq(Nat), refined_violations : {0}]

TypesOK ==
    /\ encoding \in Encoding
    /\ k \in Nat /\ budgets \in Seq(Nat)
    /\ survivors \in Seq(Nat) /\ per_row_survivors \in Seq(Nat)
    /\ Len(survivors) = Len(per_row_survivors)
    /\ soundness_failures = 0 /\ primary_violations = 0
    /\ scans \in Seq(Scans) /\ outcomes \in Seq(Outcomes)

(* Nothing is scanned before the corpus is encoded, nor counted before k is known. *)
PhasesOK == /\ phase = "empty" => scans = <<>>
            /\ phase \in {"empty", "prepared"} => survivors = <<>>

ScansWithin ==
    \A i \in DOMAIN scans :
        /\ Within(scans[i].primary, scans[i].truth, BlockErrors("primary"))
        /\ Within(scans[i].refined, scans[i].truth, BlockErrors("refined"))

IInv == TypesOK /\ PhasesOK /\ ScansWithin /\ SurvivorsBracketed

LEMMA InvSound == IInv => BoundsSound
  <1> SUFFICES ASSUME IInv PROVE BoundsSound
    OBVIOUS
  <1>1. \A i \in DOMAIN outcomes : outcomes[i] \in Outcomes
    BY DEF IInv, TypesOK
  <1>2. QED
    BY <1>1 DEF IInv, TypesOK, BoundsSound, Outcomes

LEMMA InitInv == Init => IInv
  <1> SUFFICES ASSUME Init PROVE IInv
    OBVIOUS
  <1>1. encoding \in Encoding
    BY HarnessAssumption, SMT DEF Init, NothingEncoded, Encoding
  <1>2. TypesOK
    BY <1>1 DEF Init, TypesOK
  <1>3. QED
    BY <1>2 DEF Init, IInv, PhasesOK, ScansWithin, SurvivorsBracketed

\* The certificates stay what they are while the encoding does.
LEMMA SameEncoding ==
    ASSUME UNCHANGED encoding
    PROVE  /\ BlockErrors("primary")' = BlockErrors("primary")
           /\ BlockErrors("refined")' = BlockErrors("refined")
  BY DEF BlockErrors, BlockError

\* The survivors of a query, with the certificates of the block and of its rows.
LEMMA PruneCounts ==
    ASSUME TypesOK, NEW truth \in Truths, NEW score \in Estimates(truth, "primary")
    PROVE  LET kept == Survivors(score, BlockErrors("primary"))
               rowKept == Survivors(score, RowErrors("primary"))
           IN  /\ Cardinality(kept) \in Nat /\ Cardinality(rowKept) \in Nat
               /\ Least(k, RowCount) <= Cardinality(rowKept)
               /\ Cardinality(rowKept) <= Cardinality(kept)
               /\ Best(Rows, truth, k) \ kept = {}
  <1> DEFINE kept == Survivors(score, BlockErrors("primary"))
             rowKept == Survivors(score, RowErrors("primary"))
  <1>1. /\ encoding \in Encoding /\ k \in Nat /\ "primary" \in Kinds
        /\ truth \in [Rows -> Scores] /\ score \in [Rows -> Scores]
    BY HarnessAssumption DEF TypesOK, Kinds, Estimates
  <1>2. /\ RowErrors("primary") \in Errors /\ BlockErrors("primary") \in Errors
        /\ \A r \in Rows : RowErrors("primary")[r] <= BlockErrors("primary")[r]
    BY <1>1, CertificateErrors
  <1>3. kept \in SUBSET Rows /\ rowKept \in SUBSET Rows
    BY DEF Survivors, AtLeast
  <1>4. Cardinality(kept) \in Nat /\ Cardinality(rowKept) \in Nat
    <2>1. Cardinality(kept) \in 0..RowCount /\ Cardinality(rowKept) \in 0..RowCount
      BY <1>3, RowsFinite
    <2> HIDE DEF kept, rowKept
    <2>2. QED
      BY <2>1, HarnessAssumption, SMT
  <1>5. Least(k, RowCount) <= Cardinality(rowKept)
    BY <1>1, <1>2, EnoughSurvive
  <1>6. Cardinality(rowKept) <= Cardinality(kept)
    BY <1>1, <1>2, TighterLeavesFewer
  <1>7. Best(Rows, truth, k) \subseteq kept
    BY <1>1, <1>2, EstimatesWithin, BestSurvive
  <1>8. QED
    BY <1>4, <1>5, <1>6, <1>7

LEMMA PruneKeeps == IInv /\ PruneQuery => IInv'
  <1> SUFFICES ASSUME IInv, PruneQuery PROVE IInv'
    OBVIOUS
  <1>0. PICK truth \in Truths : \E score \in Estimates(truth, "primary") :
          /\ survivors' = Append(survivors, Cardinality(Survivors(score, BlockErrors("primary"))))
          /\ per_row_survivors' =
                Append(per_row_survivors, Cardinality(Survivors(score, RowErrors("primary"))))
          /\ soundness_failures' = soundness_failures
                + Cardinality(Best(Rows, truth, k) \ Survivors(score, BlockErrors("primary")))
    BY DEF PruneQuery
  <1>1. PICK score \in Estimates(truth, "primary") :
          /\ survivors' = Append(survivors, Cardinality(Survivors(score, BlockErrors("primary"))))
          /\ per_row_survivors' =
                Append(per_row_survivors, Cardinality(Survivors(score, RowErrors("primary"))))
          /\ soundness_failures' = soundness_failures
                + Cardinality(Best(Rows, truth, k) \ Survivors(score, BlockErrors("primary")))
    BY <1>0
  <1> DEFINE many == Cardinality(Survivors(score, BlockErrors("primary")))
             few == Cardinality(Survivors(score, RowErrors("primary")))
  <1>2. /\ many \in Nat /\ few \in Nat /\ Least(k, RowCount) <= few /\ few <= many
        /\ Best(Rows, truth, k) \ Survivors(score, BlockErrors("primary")) = {}
    BY PruneCounts DEF IInv
  <1>3. soundness_failures' = 0
    <2>1. Cardinality(Best(Rows, truth, k) \ Survivors(score, BlockErrors("primary"))) = 0
      BY <1>2, FS_EmptySet, Zenon
    <2>2. soundness_failures = 0
      BY DEF IInv, TypesOK
    <2>3. QED
      BY <1>1, <2>1, <2>2, SMT
  <1> HIDE DEF many, few
  <1>4. survivors' = Append(survivors, many) /\ per_row_survivors' = Append(per_row_survivors, few)
    BY <1>1 DEF many, few
  <1>5. UNCHANGED <<phase, encoding, k, budgets, scans, primary_violations, outcomes>>
    BY DEF PruneQuery
  <1>6. TypesOK'
    <2>1. /\ survivors \in Seq(Nat) /\ per_row_survivors \in Seq(Nat)
          /\ Len(survivors) = Len(per_row_survivors)
      BY DEF IInv, TypesOK
    <2>2. /\ survivors' \in Seq(Nat) /\ per_row_survivors' \in Seq(Nat)
          /\ Len(survivors') = Len(per_row_survivors')
      BY <1>2, <1>4, <2>1, SMT
    <2>3. QED
      BY <1>3, <1>5, <2>2 DEF IInv, TypesOK
  <1>7. SurvivorsBracketed'
    <2>1. ASSUME NEW i \in DOMAIN survivors'
          PROVE  Least(k, RowCount) <= per_row_survivors'[i] /\ per_row_survivors'[i] <= survivors'[i]
      BY <1>2, <1>4, SMT DEF IInv, TypesOK, SurvivorsBracketed
    <2>2. QED
      BY <2>1, <1>5 DEF SurvivorsBracketed
  <1>8. ScansWithin'
    BY <1>5, SameEncoding DEF IInv, ScansWithin
  <1>9. PhasesOK'
    BY <1>5 DEF IInv, PhasesOK, PruneQuery
  <1>10. QED
    BY <1>6, <1>7, <1>8, <1>9 DEF IInv

LEMMA ScanKeeps == IInv /\ ScanQuery => IInv'
  <1> SUFFICES ASSUME IInv, ScanQuery PROVE IInv'
    OBVIOUS
  <1>1. UNCHANGED <<encoding, k, budgets, survivors, per_row_survivors, soundness_failures, outcomes>>
          /\ phase = "scanning"
    BY DEF ScanQuery
  <1>2. PICK truth \in Truths : \E primary \in Estimates(truth, "primary"),
                refined \in Estimates(truth, "refined") : Scanned(truth, primary, refined)
    BY DEF ScanQuery
  <1>3. PICK primary \in Estimates(truth, "primary"), refined \in Estimates(truth, "refined") :
          Scanned(truth, primary, refined)
    BY <1>2
  <1> DEFINE scan == [truth |-> truth, primary |-> primary, refined |-> refined]
  <1>4. /\ encoding \in Encoding /\ "primary" \in Kinds /\ "refined" \in Kinds
        /\ truth \in [Rows -> Scores]
    BY HarnessAssumption DEF IInv, TypesOK, Kinds
  <1>5. /\ Within(primary, truth, BlockErrors("primary"))
        /\ Within(refined, truth, BlockErrors("refined"))
    BY <1>4, EstimatesWithin
  <1>6. CASE UNCHANGED <<scans, primary_violations>> /\ phase' = "ServingScoreMismatch"
    BY <1>1, <1>6, SameEncoding DEF IInv, TypesOK, PhasesOK, ScansWithin, SurvivorsBracketed
  <1>7. CASE /\ scans' = Append(scans, scan)
             /\ primary_violations' = primary_violations
                    + Cardinality(Violations(Rows, primary, truth, "primary"))
             /\ UNCHANGED phase
    <2>1. Violations(Rows, primary, truth, "primary") = {}
      BY <1>4, <1>5, NoViolation
    <2>2. primary_violations' = 0
      <3>1. Cardinality(Violations(Rows, primary, truth, "primary")) = 0
        BY <2>1, FS_EmptySet, Zenon
      <3>2. primary_violations = 0
        BY DEF IInv, TypesOK
      <3>3. QED
        BY <1>7, <3>1, <3>2, SMT
    <2>3. scan \in Scans
      BY <1>5 DEF Within, Scans
    <2>4. scans \in Seq(Scans)
      BY DEF IInv, TypesOK
    <2>5. TypesOK'
      BY <1>1, <1>7, <2>2, <2>3, <2>4 DEF IInv, TypesOK
    <2>6. ScansWithin'
      <3>1. ASSUME NEW i \in DOMAIN scans'
            PROVE  /\ Within(scans'[i].primary, scans'[i].truth, BlockErrors("primary"))
                   /\ Within(scans'[i].refined, scans'[i].truth, BlockErrors("refined"))
        <4> HIDE DEF scan
        <4>1. CASE scans'[i] = scan
          BY <1>5, <4>1 DEF scan
        <4>2. CASE i \in DOMAIN scans /\ scans'[i] = scans[i]
          BY <4>2 DEF IInv, ScansWithin
        <4>3. scans'[i] = scan \/ (i \in DOMAIN scans /\ scans'[i] = scans[i])
          BY <1>7, <2>3, <2>4, SMT
        <4>4. QED
          BY <4>1, <4>2, <4>3
      <3>2. QED
        BY <3>1, <1>1, SameEncoding DEF ScansWithin
    <2>7. PhasesOK' /\ SurvivorsBracketed'
      BY <1>1, <1>7 DEF IInv, PhasesOK, SurvivorsBracketed
    <2>8. QED
      BY <2>5, <2>6, <2>7 DEF IInv
  <1>8. QED
    BY <1>3, <1>6, <1>7 DEF Scanned

\* A recall counts rows, one number for each query.
LEMMA HitsAreCounts ==
    ASSUME scans \in Seq(Scans), NEW rows, NEW bound
    PROVE  Hits(rows, bound) \in Seq(Nat)
  <1>1. ASSUME NEW i \in DOMAIN scans
        PROVE  Cardinality(Found(scans[i], rows, bound)) \in Nat
    <2>1. Found(scans[i], rows, bound) \in SUBSET Rows
      BY DEF Found, Best
    <2>2. Cardinality(Found(scans[i], rows, bound)) \in 0..RowCount
      BY <2>1, RowsFinite
    <2>3. QED
      BY <2>2, HarnessAssumption, SMT
  <1>2. Hits(rows, bound) \in [1..Len(scans) -> Nat] /\ Len(scans) \in Nat
    BY <1>1 DEF Hits
  <1>3. QED
    BY <1>2

LEMMA RerankKeeps == IInv /\ RerankBudget => IInv'
  <1> SUFFICES ASSUME IInv, RerankBudget PROVE IInv'
    OBVIOUS
  <1> DEFINE budget == budgets[Len(outcomes) + 1]
             rows == Least(budget, RowCount)
             wrong == {p \in (DOMAIN scans) \X Rows :
                          p[2] \in Violations(Candidates(scans[p[1]], rows), scans[p[1]].refined,
                                             scans[p[1]].truth, "refined")}
             entry == [budget |-> budget, near |-> Hits(rows, Near), far |-> Hits(rows, Far),
                         refined_violations |-> Cardinality(wrong)]
  <1>1. UNCHANGED <<encoding, k, budgets, survivors, per_row_survivors, soundness_failures, scans,
                    primary_violations>> /\ phase = "reranking" /\ Len(outcomes) < Len(budgets)
    BY DEF RerankBudget
  <1>2. ScansWithin' /\ SurvivorsBracketed'
    BY <1>1, SameEncoding DEF IInv, ScansWithin, SurvivorsBracketed
  <1>3. CASE phase' = "ZeroBudget" /\ UNCHANGED outcomes
    BY <1>1, <1>2, <1>3 DEF IInv, TypesOK, PhasesOK
  <1>4. CASE outcomes' = Append(outcomes, entry) /\ UNCHANGED phase
    <2>1. encoding \in Encoding /\ "refined" \in Kinds /\ scans \in Seq(Scans)
      BY DEF IInv, TypesOK, Kinds
    <2>2. wrong = {}
      <3>1. ASSUME NEW i \in DOMAIN scans, NEW few
            PROVE  Violations(Candidates(scans[i], few), scans[i].refined, scans[i].truth,
                              "refined") = {}
        <4>1. Candidates(scans[i], few) \in SUBSET Rows
          BY DEF Candidates, Best
        <4>2. Within(scans[i].refined, scans[i].truth, BlockErrors("refined"))
          BY DEF IInv, ScansWithin
        <4>3. QED
          BY <2>1, <4>1, <4>2, NoViolation
      <3>2. QED
        BY <3>1
    <2>3. Cardinality(wrong) = 0
      BY <2>2, FS_EmptySet
    <2>4. budget \in Nat
      BY <1>1, SMT DEF IInv, TypesOK
    <2>5. Hits(rows, Near) \in Seq(Nat) /\ Hits(rows, Far) \in Seq(Nat)
      BY <2>1, HitsAreCounts
    <2> HIDE DEF budget, rows, wrong
    <2>6. entry \in Outcomes
      BY <2>3, <2>4, <2>5 DEF Outcomes
    <2> HIDE DEF entry
    <2>7. TypesOK'
      BY <1>1, <1>4, <2>6 DEF IInv, TypesOK
    <2>8. QED
      BY <1>1, <1>2, <1>4, <2>7 DEF IInv, PhasesOK
  <1>5. QED
    BY <1>3, <1>4 DEF RerankBudget

\* What prepares the corpus, starts a measurement or ends it.
LEMMA PrepareKeeps ==
    ASSUME IInv, NEW calibrated \in BOOLEAN, NEW e \in Encodings, NEW filled,
           Prepare(calibrated, e, filled)
    PROVE  IInv'
  <1>1. /\ phase = "empty" /\ phase' \in {"prepared", "EmptyCalibration"}
        /\ encoding' = IF calibrated THEN e ELSE encoding
        /\ UNCHANGED <<k, budgets, survivors, per_row_survivors, soundness_failures, scans,
                       primary_violations, outcomes>>
    BY DEF Prepare
  <1>2. encoding' \in Encoding
    BY <1>1, HarnessAssumption DEF Encoding, IInv, TypesOK
  <1>3. scans = <<>> /\ survivors = <<>>
    BY <1>1 DEF IInv, PhasesOK
  <1>4. TypesOK'
    BY <1>1, <1>2 DEF IInv, TypesOK
  <1>5. ScansWithin' /\ SurvivorsBracketed' /\ PhasesOK'
    BY <1>1, <1>3 DEF IInv, ScansWithin, SurvivorsBracketed, PhasesOK
  <1>6. QED
    BY <1>4, <1>5 DEF IInv

LEMMA StartKeeps ==
    ASSUME IInv,
           \/ \E n \in Ks : MeasurePrune(n)
           \/ \E list \in BudgetLists : Measure(list)
    PROVE  IInv'
  <1>1. /\ phase = "prepared" /\ phase' \notin {"empty", "prepared"}
        /\ k' \in {k} \cup Ks /\ budgets' \in {budgets} \cup BudgetLists
        /\ UNCHANGED <<encoding, survivors, per_row_survivors, soundness_failures, scans,
                       primary_violations, outcomes>>
    BY DEF MeasurePrune, Measure
  <1>2. k' \in Nat /\ budgets' \in Seq(Nat)
    BY <1>1, HarnessAssumption DEF IInv, TypesOK
  <1>3. survivors' = <<>>
    BY <1>1 DEF IInv, PhasesOK
  <1>4. TypesOK'
    BY <1>1, <1>2 DEF IInv, TypesOK
  <1>5. ScansWithin'
    BY <1>1, SameEncoding DEF IInv, ScansWithin
  <1>6. SurvivorsBracketed' /\ PhasesOK'
    BY <1>1, <1>3 DEF SurvivorsBracketed, PhasesOK
  <1>7. QED
    BY <1>4, <1>5, <1>6 DEF IInv

LEMMA EndKeeps ==
    ASSUME IInv, FinishPrune \/ StartRerank \/ Publish \/ UNCHANGED vars
    PROVE  IInv'
  <1>1. /\ phase' = phase \/ phase' \notin {"empty", "prepared"}
        /\ UNCHANGED <<encoding, k, budgets, survivors, per_row_survivors, soundness_failures, scans,
                       primary_violations, outcomes>>
    BY DEF FinishPrune, StartRerank, Publish, vars
  <1>2. ScansWithin'
    BY <1>1, SameEncoding DEF IInv, ScansWithin
  <1>3. TypesOK' /\ SurvivorsBracketed' /\ PhasesOK'
    BY <1>1 DEF IInv, TypesOK, SurvivorsBracketed, PhasesOK
  <1>4. QED
    BY <1>2, <1>3 DEF IInv

LEMMA StepKeeps == IInv /\ [Next]_vars => IInv'
  <1> SUFFICES ASSUME IInv, [Next]_vars PROVE IInv'
    OBVIOUS
  <1>1. CASE \E calibrated \in BOOLEAN, e \in Encodings, filled \in {{}} \cup {{z} : z \in Scores} :
               Prepare(calibrated, e, filled)
    BY <1>1, PrepareKeeps
  <1>2. CASE \/ \E n \in Ks : MeasurePrune(n)
             \/ \E list \in BudgetLists : Measure(list)
    BY <1>2, StartKeeps
  <1>3. CASE PruneQuery
    BY <1>3, PruneKeeps
  <1>4. CASE ScanQuery
    BY <1>4, ScanKeeps
  <1>5. CASE RerankBudget
    BY <1>5, RerankKeeps
  <1>6. CASE FinishPrune \/ StartRerank \/ Publish \/ UNCHANGED vars
    BY <1>6, EndKeeps
  <1>7. QED
    BY <1>1, <1>2, <1>3, <1>4, <1>5, <1>6 DEF Next

-----------------------------------------------------------------------------
\* No true neighbour is pruned and no true score leaves its bounds, for every
\* corpus, every k and every list of budgets (harness.rs:262-640).
THEOREM MeasurementSound == Spec => []BoundsSound
  <1>1. Init => IInv
    BY InitInv
  <1>2. IInv /\ [Next]_vars => IInv'
    BY StepKeeps
  <1>3. IInv => BoundsSound
    BY InvSound
  <1>4. QED
    BY <1>1, <1>2, <1>3, PTL DEF Spec

\* Certificates of single rows never leave more rows than that of the block, and
\* both leave k (harness.rs:335-398).
THEOREM TighterCertificatesHelp == Spec => []SurvivorsBracketed
  <1>1. Init => IInv
    BY InitInv
  <1>2. IInv /\ [Next]_vars => IInv'
    BY StepKeeps
  <1>3. IInv => SurvivorsBracketed
    BY DEF IInv
  <1>4. QED
    BY <1>1, <1>2, <1>3, PTL DEF Spec

-----------------------------------------------------------------------------
(* The heaps of the streaming oracle: whatever order the rows come in, a heap *)
(* keeps the best.                                                            *)

\* Rows that have a score, each of them one.
Neighbors(S) ==
    /\ IsFiniteSet(S)
    /\ \A s \in S : s.row \in Int /\ s.score \in Int
    /\ \A s, t \in S : s.row = t.row => s = t

\* Greater puts them in a total order.
LEMMA GreaterOrders ==
    ASSUME NEW S, Neighbors(S)
    PROVE  /\ \A s \in S : ~ Greater(s, s)
           /\ \A s, t \in S : s # t => Greater(t, s) \/ Greater(s, t)
           /\ \A s, t \in S : Greater(t, s) => ~ Greater(s, t)
           /\ \A s, t, u \in S : Greater(t, s) /\ Greater(u, t) => Greater(u, s)
  <1>1. ASSUME NEW s \in S PROVE s.row \in Int /\ s.score \in Int
    BY DEF Neighbors
  <1>2. \A s \in S : ~ Greater(s, s)
    BY <1>1 DEF Greater
  <1>3. ASSUME NEW s \in S, NEW t \in S, s # t PROVE Greater(t, s) \/ Greater(s, t)
    <2>1. s.row # t.row
      BY <1>3 DEF Neighbors
    <2>2. QED
      BY <1>1, <2>1 DEF Greater
  <1>4. ASSUME NEW s \in S, NEW t \in S, Greater(t, s) PROVE ~ Greater(s, t)
    BY <1>1, <1>4 DEF Greater
  <1>5. ASSUME NEW s \in S, NEW t \in S, NEW u \in S, Greater(t, s), Greater(u, t)
        PROVE  Greater(u, s)
    BY <1>1, <1>5 DEF Greater
  <1>6. QED
    BY <1>2, <1>3, <1>4, <1>5

\* The neighbours that come before one.
Over(S, s) == {t \in S : Greater(t, s)}

\* So one of them is the last.
LEMMA WorstIs ==
    ASSUME NEW S, Neighbors(S), S # {}
    PROVE  Worst(S) \in S /\ \A t \in S \ {Worst(S)} : Greater(t, Worst(S))
  <1> DEFINE n == Cardinality(S)
             over(s) == n - Cardinality(Over(S, s))
             T == {over(s) : s \in S}
  <1>1. IsFiniteSet(S) /\ n \in Nat
    BY FS_CardinalityType DEF Neighbors
  <1>2. ASSUME NEW s \in S
        PROVE  /\ IsFiniteSet(Over(S, s)) /\ Cardinality(Over(S, s)) \in Nat
               /\ Cardinality(Over(S, s)) <= n
    <2>1. Over(S, s) \in SUBSET S
      BY DEF Over
    <2>2. QED
      BY <1>1, <2>1, FS_Subset, FS_CardinalityType
  <1> HIDE DEF n
  <1>3. T \subseteq Nat /\ T # {}
    <2>1. \A s \in S : over(s) \in Nat
      BY <1>1, <1>2
    <2>2. QED
      BY <2>1
  <1>4. PICK d \in T : \A y \in T : ~ (y < d)
    <2> HIDE DEF T
    <2>1. QED
      BY <1>3, FirstNatural
  <1>5. PICK s \in S : d = over(s)
    BY <1>4
  <1>6. ASSUME NEW t \in S \ {s} PROVE Greater(t, s)
    <2>1. SUFFICES ASSUME Greater(s, t) PROVE FALSE
      BY GreaterOrders
    <2>2. Over(S, s) \cup {s} \subseteq Over(S, t) /\ s \notin Over(S, s)
      BY <2>1, GreaterOrders DEF Over
    <2>3. Cardinality(Over(S, s) \cup {s}) = Cardinality(Over(S, s)) + 1
      BY <1>2, <2>2, FS_AddElement
    <2>4. Cardinality(Over(S, s) \cup {s}) <= Cardinality(Over(S, t))
      BY <1>2, <2>2, FS_Subset
    <2>5. over(t) < over(s)
      BY <1>1, <1>2, <2>3, <2>4
    <2>6. over(t) \in T
      OBVIOUS
    <2>7. QED
      BY <1>4, <1>5, <2>5, <2>6
  <1>7. \E w \in S : \A o \in S \ {w} : Greater(o, w)
    BY <1>6
  <1>8. QED
    BY <1>7, Zenon DEF Worst

\* A heap kept as many of some neighbours as fit, and none before these is left out.
Kept(S, heap, limit) ==
    /\ heap \subseteq S
    /\ Cardinality(heap) = limit \/ (heap = S /\ Cardinality(heap) <= limit)
    /\ \A s \in heap, t \in S \ heap : Greater(s, t)

\* One more neighbour.
LEMMA AdmitKeeps ==
    ASSUME NEW S, NEW x, Neighbors(S \cup {x}), x \notin S, NEW heap, NEW limit \in Nat \ {0}, Kept(S, heap, limit)
    PROVE  Kept(S \cup {x}, Admit(heap, x, limit), limit)
  <1>1. /\ heap \subseteq S /\ IsFiniteSet(heap) /\ Cardinality(heap) \in Nat
        /\ x \notin heap
    <2>1. IsFiniteSet(S \cup {x}) /\ heap \in SUBSET (S \cup {x})
      BY DEF Neighbors, Kept
    <2>2. IsFiniteSet(heap)
      BY <2>1, FS_Subset
    <2>3. QED
      BY <2>2, FS_CardinalityType DEF Kept
  <1>2. /\ limit \in Nat \ {0} /\ Cardinality(heap) <= limit
        /\ \A s \in heap, t \in S \ heap : Greater(s, t)
    BY DEF Kept
  <1>3. CASE Cardinality(heap) < limit
    <2>1. heap = S
      BY <1>1, <1>2, <1>3 DEF Kept
    <2>2. Admit(heap, x, limit) = S \cup {x}
      BY <1>3, <2>1 DEF Admit
    <2>3. Cardinality(heap \cup {x}) = Cardinality(heap) + 1
      BY <1>1, FS_AddElement
    <2>4. Cardinality(S \cup {x}) <= limit
      BY <1>1, <1>2, <1>3, <2>1, <2>3
    <2>5. QED
      BY <2>2, <2>4 DEF Kept
  <1>4. CASE ~ (Cardinality(heap) < limit)
    <2>1. Cardinality(heap) = limit
      BY <1>1, <1>2, <1>4
    <2>2. heap # {}
      BY <1>2, <2>1, FS_EmptySet
    <2> DEFINE w == Worst(heap)
    <2>3. w \in heap /\ \A t \in heap \ {w} : Greater(t, w)
      <3>1. Neighbors(heap)
        BY <1>1 DEF Neighbors
      <3>2. QED
        BY <2>2, <3>1, WorstIs
    <2>4. Admit(heap, x, limit) = IF Greater(x, w) THEN (heap \ {w}) \cup {x} ELSE heap
      BY <1>4 DEF Admit
    <2> HIDE DEF w
    <2>5. \A t \in S \ heap : Greater(w, t)
      BY <1>2, <2>3
    <2>6. CASE Greater(x, w)
      <3> DEFINE new == (heap \ {w}) \cup {x}
      <3>1. Admit(heap, x, limit) = new
        BY <2>4, <2>6
      <3>2. Cardinality(new) = limit
        <4>1. IsFiniteSet(heap \ {w}) /\ Cardinality(heap \ {w}) = Cardinality(heap) - 1
          BY <1>1, <2>3, FS_RemoveElement
        <4>2. x \notin heap \ {w}
          BY <1>1
        <4>3. Cardinality(new) = Cardinality(heap \ {w}) + 1
          BY <4>1, <4>2, FS_AddElement
        <4>4. QED
          BY <1>1, <2>1, <4>1, <4>3
      <3>3. ASSUME NEW s \in new, NEW t \in (S \cup {x}) \ new PROVE Greater(s, t)
        <4>1. s \in S \cup {x} /\ t \in S \cup {x} /\ w \in S \cup {x}
          BY <1>1, <2>3, <3>3
        <4>2. Greater(s, w)
          BY <2>3, <2>6, <3>3
        <4>3. t = w \/ (t \in S \ heap)
          BY <3>3
        <4>4. CASE t = w
          BY <4>2, <4>4
        <4>5. CASE t \in S \ heap
          <5>1. Greater(w, t)
            BY <2>5, <4>5
          <5>2. QED
            BY <4>1, <4>2, <5>1, GreaterOrders
        <4>6. QED
          BY <4>3, <4>4, <4>5
      <3>4. new \subseteq S \cup {x}
        BY <1>1
      <3> HIDE DEF new
      <3>5. QED
        BY <3>1, <3>2, <3>3, <3>4 DEF Kept
    <2>7. CASE ~ Greater(x, w)
      <3>1. Admit(heap, x, limit) = heap
        BY <2>4, <2>7
      <3>2. Greater(w, x)
        <4>1. x # w /\ w \in S \cup {x} /\ x \in S \cup {x}
          BY <1>1, <2>3
        <4>2. QED
          BY <2>7, <4>1, GreaterOrders
      <3>3. ASSUME NEW s \in heap PROVE Greater(s, x)
        <4>1. CASE s = w
          BY <3>2, <4>1
        <4>2. CASE s # w
          <5>1. Greater(s, w) /\ s \in S \cup {x} /\ w \in S \cup {x} /\ x \in S \cup {x}
            BY <1>1, <2>3, <4>2
          <5>2. QED
            BY <3>2, <5>1, GreaterOrders
        <4>3. QED
          BY <4>1, <4>2
      <3>4. \A s \in heap, t \in (S \cup {x}) \ heap : Greater(s, t)
        BY <1>2, <3>3
      <3>5. QED
        BY <1>1, <2>1, <3>1, <3>4 DEF Kept
    <2>8. QED
      BY <2>6, <2>7
  <1>5. QED
    BY <1>3, <1>4

\* What was kept are the neighbours with fewer than the limit before them.
LEMMA KeptAreBest ==
    ASSUME NEW S, Neighbors(S), NEW heap, NEW limit \in Nat \ {0}, Kept(S, heap, limit)
    PROVE  heap = {s \in S : Cardinality(Over(S, s)) < limit}
  <1>1. heap \subseteq S /\ \A s \in heap, t \in S \ heap : Greater(s, t)
    BY DEF Kept
  <1>2. IsFiniteSet(S) /\ IsFiniteSet(heap) /\ Cardinality(heap) \in Nat /\ limit \in Nat
    BY <1>1, FS_Subset, FS_CardinalityType DEF Neighbors
  <1>3. ASSUME NEW s \in S
        PROVE  IsFiniteSet(Over(S, s)) /\ Cardinality(Over(S, s)) \in Nat
    <2>1. Over(S, s) \in SUBSET S
      BY DEF Over
    <2>2. QED
      BY <1>2, <2>1, FS_Subset, FS_CardinalityType
  <1>4. ASSUME NEW s \in heap PROVE Cardinality(Over(S, s)) < limit
    <2>1. Over(S, s) \in SUBSET (heap \ {s})
      <3>1. ASSUME NEW t \in S, Greater(t, s) PROVE t \in heap /\ t # s
        BY <1>1, <3>1, GreaterOrders
      <3>2. QED
        BY <3>1 DEF Over
    <2>2. IsFiniteSet(heap \ {s}) /\ Cardinality(heap \ {s}) = Cardinality(heap) - 1
      BY <1>2, FS_RemoveElement
    <2>3. Cardinality(Over(S, s)) <= Cardinality(heap \ {s})
      BY <2>1, <2>2, FS_Subset
    <2>4. Cardinality(heap) <= limit
      BY <1>2 DEF Kept
    <2>5. Cardinality(Over(S, s)) \in Nat
      BY <1>1, <1>3
    <2>6. QED
      BY <1>2, <2>2, <2>3, <2>4, <2>5
  <1>5. ASSUME NEW s \in S \ heap PROVE ~ (Cardinality(Over(S, s)) < limit)
    <2>1. heap \in SUBSET Over(S, s)
      BY <1>1 DEF Over
    <2>2. Cardinality(heap) <= Cardinality(Over(S, s))
      BY <1>3, <2>1, FS_Subset
    <2>3. Cardinality(heap) = limit
      BY DEF Kept
    <2>4. QED
      BY <1>2, <1>3, <2>2, <2>3
  <1>6. QED
    BY <1>1, <1>4, <1>5

\* The heap after the neighbours of a list.
LEMMA AdmitAllKeeps ==
    ASSUME NEW n \in Nat, NEW list, Len(list) = n,
           NEW S, Neighbors(S \cup {list[i] : i \in 1 .. n}),
           \A i \in 1 .. n : list[i] \notin S,
           \A i, j \in 1 .. n : list[i] = list[j] => i = j,
           NEW heap, NEW limit \in Nat \ {0}, Kept(S, heap, limit)
    PROVE  Kept(S \cup {list[i] : i \in 1 .. n}, AdmitAll(heap, list, limit), limit)
  <1> DEFINE Adds(g, d) == g = [i \in 0 .. d |-> IF i = 0 THEN heap ELSE Admit(g[i - 1], list[i], limit)]
             upTo(d) == S \cup {list[i] : i \in 1 .. d}
  <1>1. AdmitAll(heap, list, limit) = (CHOOSE g : Adds(g, n))[n]
    BY DEF AdmitAll
  <1>2. \E g : Adds(g, n)
    <2> DEFINE Bad == {d \in 0 .. n : ~ \E g : Adds(g, d)}
    <2>1. SUFFICES ASSUME Bad # {} PROVE FALSE
      <3>1. n \in 0 .. n
        OBVIOUS
      <3> HIDE DEF Adds
      <3>2. QED
        BY <3>1, Zenon
    <2>2. PICK d \in Bad : \A y \in Bad : ~ (y < d)
      <3>1. Bad \subseteq Nat
        BY SMT
      <3> HIDE DEF Bad
      <3>2. QED
        BY <2>1, <3>1, FirstNatural
    <2>3. d \in 0 .. n /\ ~ \E g : Adds(g, d)
      BY <2>2
    <2>4. CASE d = 0
      <3> DEFINE g == [i \in 0 .. 0 |-> heap]
      <3>1. Adds(g, 0)
        OBVIOUS
      <3> HIDE DEF Adds
      <3>2. QED
        BY <2>3, <2>4, <3>1
    <2>5. CASE d # 0
      <3>1. d - 1 \in 0 .. n /\ d - 1 < d /\ d \in Nat /\ d >= 1
        BY <2>3, <2>5
      <3>2. PICK h : Adds(h, d - 1)
        BY <2>2, <3>1
      <3> DEFINE g == [i \in 0 .. d |-> IF i = d THEN Admit(h[d - 1], list[d], limit) ELSE h[i]]
      <3>3. ASSUME NEW i \in 0 .. d
            PROVE  g[i] = IF i = 0 THEN heap ELSE Admit(g[i - 1], list[i], limit)
        <4>1. CASE i = d
          <5>1. i - 1 \in 0 .. d /\ i - 1 # d
            BY <3>1, <4>1
          <5>2. g[i - 1] = h[d - 1]
            BY <4>1, <5>1
          <5>3. g[i] = Admit(h[d - 1], list[d], limit) /\ i # 0
            BY <3>1, <4>1
          <5>4. QED
            BY <4>1, <5>2, <5>3
        <4>2. CASE i = 0
          <5>1. g[i] = h[0] /\ 0 \in 0 .. d - 1
            BY <3>1, <4>2
          <5>2. h[0] = heap
            BY <3>2, <5>1
          <5>3. QED
            BY <4>2, <5>1, <5>2
        <4>3. CASE i # d /\ i # 0
          <5>1. i \in 0 .. d - 1 /\ i - 1 \in 0 .. d /\ i - 1 # d
            BY <3>1, <4>3
          <5>2. g[i] = h[i] /\ g[i - 1] = h[i - 1]
            BY <4>3, <5>1
          <5>3. h[i] = Admit(h[i - 1], list[i], limit)
            BY <3>2, <4>3, <5>1
          <5>4. QED
            BY <4>3, <5>2, <5>3
        <4>4. QED
          BY <4>1, <4>2, <4>3
      <3>4. g = [i \in 0 .. d |-> g[i]]
        OBVIOUS
      <3> HIDE DEF g
      <3>5. Adds(g, d)
        BY <3>3, <3>4
      <3> HIDE DEF Adds
      <3>6. QED
        BY <2>3, <3>5
    <2>6. QED
      BY <2>4, <2>5
  <1> DEFINE after == CHOOSE g : Adds(g, n)
  <1>3. Adds(after, n)
    <2> HIDE DEF Adds
    <2>1. QED
      BY <1>2
  <1> HIDE DEF after
  <1>4. after[0] = heap /\ \A i \in 1 .. n : after[i] = Admit(after[i - 1], list[i], limit)
    <2>1. \A i \in 0 .. n : after[i] = IF i = 0 THEN heap ELSE Admit(after[i - 1], list[i], limit)
      BY <1>3, Zenon
    <2>2. 0 \in 0 .. n /\ \A i \in 1 .. n : i \in 0 .. n /\ i # 0
      BY SMT
    <2>3. QED
      BY <2>1, <2>2, Zenon
  <1>5. \A d \in 0 .. n : Kept(upTo(d), after[d], limit)
    <2> DEFINE Bad == {d \in 0 .. n : ~ Kept(upTo(d), after[d], limit)}
    <2>1. SUFFICES ASSUME Bad # {} PROVE FALSE
      OBVIOUS
    <2>2. PICK d \in Bad : \A y \in Bad : ~ (y < d)
      <3>1. Bad \subseteq Nat
        BY SMT
      <3> HIDE DEF Bad
      <3>2. QED
        BY <2>1, <3>1, FirstNatural
    <2>3. d \in 0 .. n /\ ~ Kept(upTo(d), after[d], limit)
      BY <2>2
    <2>4. CASE d = 0
      <3>1. upTo(0) = S
        OBVIOUS
      <3> HIDE DEF upTo
      <3>2. QED
        BY <1>4, <2>3, <2>4, <3>1
    <2>5. CASE d # 0
      <3>1. d - 1 \in 0 .. n /\ d - 1 < d /\ d \in 1 .. n
        BY <2>3, <2>5
      <3>2. Kept(upTo(d - 1), after[d - 1], limit)
        BY <2>2, <3>1
      <3>3. upTo(d) = upTo(d - 1) \cup {list[d]}
        <4>1. \A i : i \in 1 .. d <=> (i \in 1 .. d - 1 \/ i = d)
          BY <3>1
        <4>2. {list[i] : i \in 1 .. d} = {list[i] : i \in 1 .. d - 1} \cup {list[d]}
          BY <4>1
        <4>3. QED
          BY <4>2
      <3>4. list[d] \notin upTo(d - 1)
        <4>1. \A i \in 1 .. d - 1 : i \in 1 .. n /\ i # d
          BY <3>1
        <4>2. \A i \in 1 .. d - 1 : list[i] # list[d]
          BY <3>1, <4>1
        <4>3. QED
          BY <3>1, <4>2
      <3>5. Neighbors(upTo(d - 1) \cup {list[d]})
        <4>1. upTo(d) \in SUBSET upTo(n)
          <5>1. \A i \in 1 .. d : i \in 1 .. n
            BY <3>1
          <5>2. QED
            BY <5>1
        <4>2. Neighbors(upTo(n))
          OBVIOUS
        <4> HIDE DEF upTo
        <4>3. QED
          BY <3>3, <4>1, <4>2, FS_Subset DEF Neighbors
      <3> HIDE DEF upTo
      <3>6. Kept(upTo(d - 1) \cup {list[d]}, Admit(after[d - 1], list[d], limit), limit)
        BY <3>2, <3>4, <3>5, AdmitKeeps
      <3>7. QED
        BY <1>4, <2>3, <3>1, <3>3, <3>6
    <2>6. QED
      BY <2>4, <2>5
  <1>6. AdmitAll(heap, list, limit) = after[n]
    BY <1>1 DEF after
  <1>7. n \in 0 .. n
    OBVIOUS
  <1> HIDE DEF Adds
  <1>8. QED
    BY <1>5, <1>6, <1>7

\* What is kept of two heaps, and what these kept of their neighbours.
LEMMA MergeKept ==
    ASSUME NEW S, NEW P, Neighbors(S \cup P), NEW limit \in Nat \ {0},
           NEW A, Kept(S, A, limit), NEW B, Kept(P, B, limit),
           NEW C, Kept(A \cup B, C, limit)
    PROVE  Kept(S \cup P, C, limit)
  <1>1. /\ A \subseteq S /\ B \subseteq P /\ C \subseteq A \cup B
        /\ \A s \in A, t \in S \ A : Greater(s, t)
        /\ \A s \in B, t \in P \ B : Greater(s, t)
        /\ \A s \in C, t \in (A \cup B) \ C : Greater(s, t)
    BY DEF Kept
  <1>2. /\ IsFiniteSet(A) /\ IsFiniteSet(B) /\ IsFiniteSet(C) /\ IsFiniteSet(A \cup B)
        /\ Cardinality(A) \in Nat /\ Cardinality(B) \in Nat /\ Cardinality(C) \in Nat
        /\ Cardinality(A) <= Cardinality(A \cup B) /\ Cardinality(B) <= Cardinality(A \cup B)
    <2>1. /\ A \in SUBSET (S \cup P) /\ B \in SUBSET (S \cup P) /\ C \in SUBSET (S \cup P)
          /\ A \cup B \in SUBSET (S \cup P) /\ IsFiniteSet(S \cup P)
      BY <1>1 DEF Neighbors
    <2>2. IsFiniteSet(A) /\ IsFiniteSet(B) /\ IsFiniteSet(C) /\ IsFiniteSet(A \cup B)
      BY <2>1, FS_Subset
    <2>3. A \in SUBSET (A \cup B) /\ B \in SUBSET (A \cup B)
      OBVIOUS
    <2>4. QED
      BY <2>2, <2>3, FS_Subset, FS_CardinalityType
  <1>3. CASE Cardinality(C) = limit
    <2>1. ASSUME NEW H, NEW U, U \subseteq S \cup P, Kept(U, H, limit), H \subseteq A \cup B,
                 IsFiniteSet(H), Cardinality(H) \in Nat,
                 NEW s \in C, NEW t \in U \ H
          PROVE  Greater(s, t)
      <3>1. SUFFICES ASSUME ~ Greater(s, t) PROVE FALSE
        OBVIOUS
      <3>2. H \subseteq U /\ Cardinality(H) = limit /\ \A h \in H : Greater(h, t)
        BY <2>1 DEF Kept
      <3>3. s \in S \cup P /\ t \in S \cup P
        BY <1>1, <2>1
      <3>4. \A h \in H : h \in S \cup P /\ Greater(h, s)
        <4>1. TAKE h \in H
        <4>2. h \in S \cup P /\ Greater(h, t)
          BY <2>1, <3>2
        <4>3. CASE s = t
          BY <4>2, <4>3
        <4>4. CASE s # t
          <5>1. Greater(t, s)
            BY <3>1, <3>3, <4>4, GreaterOrders
          <5>2. QED
            BY <3>3, <4>2, <5>1, GreaterOrders
        <4>5. QED
          BY <4>3, <4>4
      <3>5. s \notin H
        BY <3>3, <3>4, GreaterOrders
      <3>6. H \subseteq C
        <4>1. ASSUME NEW h \in H, h \notin C PROVE FALSE
          <5>1. Greater(s, h) /\ Greater(h, s)
            BY <1>1, <2>1, <3>4, <4>1
          <5>2. QED
            BY <3>3, <3>4, <5>1, GreaterOrders
        <4>2. QED
          BY <4>1
      <3>7. H = C
        BY <1>2, <1>3, <3>2, <3>6, FS_Subset
      <3>8. QED
        BY <2>1, <3>5, <3>7
    <2>2. ASSUME NEW s \in C, NEW t \in (S \cup P) \ C PROVE Greater(s, t)
      <3>1. CASE t \in A \cup B
        BY <1>1, <3>1
      <3>2. CASE t \in S \ A
        <4>1. A \subseteq A \cup B /\ S \subseteq S \cup P
          OBVIOUS
        <4>2. QED
          BY <1>2, <2>1, <3>2, <4>1
      <3>3. CASE t \in P \ B
        <4>1. B \subseteq A \cup B /\ P \subseteq S \cup P
          OBVIOUS
        <4>2. QED
          BY <1>2, <2>1, <3>3, <4>1
      <3>4. QED
        BY <3>1, <3>2, <3>3
    <2>3. C \subseteq S \cup P
      BY <1>1
    <2>4. QED
      BY <1>3, <2>2, <2>3 DEF Kept
  <1>4. CASE Cardinality(C) # limit
    <2>1. C = A \cup B /\ Cardinality(C) <= limit
      BY <1>4 DEF Kept
    <2>2. Cardinality(A) # limit /\ Cardinality(B) # limit
      BY <1>2, <1>4, <2>1
    <2>3. A = S /\ B = P
      BY <2>2 DEF Kept
    <2>4. QED
      BY <2>1, <2>3 DEF Kept
  <1>5. QED
    BY <1>3, <1>4

-----------------------------------------------------------------------------
(* The neighbours of a corpus. *)

Listed(content, q) == {Neighbor(i - 1, content[i], q) : i \in 1 .. Len(content)}

LEMMA ScoreIs ==
    ASSUME NEW r \in ScoredRows, NEW q \in 1 .. QueryCount
    PROVE  RowScores[r.seed][r.at][q] \in Int
  <1>1. PICK s \in Seeds : r \in {[seed |-> s, at |-> i] : i \in DOMAIN RowScores[s]}
    BY DEF ScoredRows
  <1>2. PICK i \in DOMAIN RowScores[s] : r = [seed |-> s, at |-> i]
    BY <1>1
  <1>3. RowScores[s] \in Seq([1 .. QueryCount -> Int])
    BY OracleAssumption
  <1>4. RowScores[s][i] \in [1 .. QueryCount -> Int]
    BY <1>2, <1>3
  <1>5. r.seed = s /\ r.at = i
    BY <1>2
  <1>6. QED
    BY <1>4, <1>5

LEMMA NeighborIs ==
    ASSUME NEW row, NEW r \in ScoredRows, NEW q \in 1 .. QueryCount
    PROVE  Neighbor(row, r, q).row = row /\ Neighbor(row, r, q).score \in Int
  BY ScoreIs DEF Neighbor

LEMMA ListedAre ==
    ASSUME NEW content \in Seq(ScoredRows), NEW q \in 1 .. QueryCount
    PROVE  /\ Neighbors(Listed(content, q))
           /\ \A n \in Listed(content, q) : n.row \in 0 .. Len(content) - 1
           /\ \A i, j \in 1 .. Len(content) :
                 Neighbor(i - 1, content[i], q) = Neighbor(j - 1, content[j], q) => i = j
  <1> DEFINE n == Len(content)
             N(i) == Neighbor(i - 1, content[i], q)
             S == Listed(content, q)
  <1>1. n \in Nat /\ \A i \in 1 .. n : content[i] \in ScoredRows
    OBVIOUS
  <1>2. \A i \in 1 .. n : N(i).row = i - 1 /\ N(i).score \in Int
    BY <1>1, NeighborIs
  <1> HIDE DEF n
  <1>3. \A s \in S : \E i \in 1 .. n : s = N(i)
    BY DEF Listed, n
  <1>4. \A i \in 1 .. n : N(i) \in S
    BY DEF Listed, n
  <1> HIDE DEF N, S
  <1>5. \A i, j \in 1 .. n : N(i).row = N(j).row => i = j
    BY <1>1, <1>2
  <1>6. \A s \in S : s.row \in 0 .. n - 1 /\ s.row \in Int /\ s.score \in Int
    <2>1. TAKE s \in S
    <2>2. PICK i \in 1 .. n : s = N(i)
      BY <1>3
    <2>3. i - 1 \in 0 .. n - 1 /\ i - 1 \in Int
      BY <1>1
    <2>4. QED
      BY <1>2, <2>2, <2>3
  <1>7. \A s, t \in S : s.row = t.row => s = t
    BY <1>3, <1>5
  <1>8. IsFiniteSet(S)
    <2> DEFINE g == [i \in 1 .. n |-> N(i)]
    <2>1. 1 \in Int /\ n \in Int
      BY <1>1
    <2>2. IsFiniteSet(1 .. n)
      BY <2>1, FS_Interval
    <2>3. g \in [1 .. n -> S] /\ \A i \in 1 .. n : g[i] = N(i)
      BY <1>4
    <2> HIDE DEF g
    <2>4. g \in Surjection(1 .. n, S)
      BY <1>3, <2>3 DEF Surjection
    <2>5. QED
      BY <2>2, <2>4, FS_Surjection
  <1>9. \A i, j \in 1 .. n : N(i) = N(j) => i = j
    BY <1>5
  <1>10. QED
    BY <1>6, <1>7, <1>8, <1>9 DEF Neighbors, S, N, n

\* What a heap keeps of a corpus ranks as the exact oracle ranks it.
LEMMA KeptIsExact ==
    ASSUME NEW content \in Seq(ScoredRows), NEW q \in 1 .. QueryCount,
           NEW limit \in Nat \ {0}, NEW heap, Kept(Listed(content, q), heap, limit)
    PROVE  Ranking(heap) = ExactRanking(content, q, limit)
  <1> DEFINE n == Len(content)
             D == 0 .. n - 1
             score == [r \in D |-> RowScores[content[r + 1].seed][content[r + 1].at][q]]
             best == Best(D, score, limit)
             N(r) == [row |-> r, score |-> score[r]]
             S == Listed(content, q)
             exact == {N(r) : r \in best}
  <1>1. n \in Nat /\ \A r \in D : r + 1 \in 1 .. n /\ r \in Int
    OBVIOUS
  <1>2. \A r \in D : N(r) = Neighbor((r + 1) - 1, content[r + 1], q)
    BY <1>1 DEF Neighbor
  <1>3. Neighbors(S)
    BY ListedAre
  <1>4. ExactRanking(content, q, limit) = Ranking(exact)
    <2>1. DOMAIN score = D
      OBVIOUS
    <2>2. QED
      BY <2>1 DEF ExactRanking
  <1>5. \A r \in D : N(r) \in S
    <2>1. TAKE r \in D
    <2>2. r + 1 \in 1 .. Len(content)
      BY <1>1 DEF n
    <2>3. QED
      BY <1>2, <2>2 DEF Listed
  <1>6. \A s \in S : \E r \in D : s = N(r)
    <2>1. TAKE s \in S
    <2>2. PICK i \in 1 .. Len(content) : s = Neighbor(i - 1, content[i], q)
      BY DEF Listed
    <2>3. i - 1 \in D /\ (i - 1) + 1 = i /\ ((i - 1) + 1) - 1 = i - 1
      OBVIOUS
    <2> HIDE DEF D, N, n
    <2>4. N(i - 1) = Neighbor(((i - 1) + 1) - 1, content[(i - 1) + 1], q)
      BY <1>2, <2>3
    <2>5. s = N(i - 1)
      BY <2>2, <2>3, <2>4
    <2>6. QED
      BY <2>3, <2>5
  <1>7. \A r, t \in D : Better(score, t, r) <=> Greater(N(t), N(r))
    BY DEF Better, Greater
  <1>8. \A r, t \in D : N(r) = N(t) => r = t
    <2>1. TAKE r \in D, t \in D
    <2>2. N(r).row = r /\ N(t).row = t
      OBVIOUS
    <2>3. QED
      BY <2>2
  <1>9. best = {r \in D : Cardinality({t \in D : Better(score, t, r)}) < limit}
    BY DEF Best
  <1>10. IsFiniteSet(D)
    <2>1. 0 \in Int /\ n - 1 \in Int
      BY <1>1
    <2>2. QED
      BY <2>1, FS_Interval
  <1> HIDE DEF n, D, score, best, S, N
  <1>11. ASSUME NEW r \in D
         PROVE  Cardinality({t \in D : Better(score, t, r)}) = Cardinality(Over(S, N(r)))
    <2> DEFINE U == {t \in D : Better(score, t, r)}
               V == Over(S, N(r))
               g == [t \in U |-> N(t)]
    <2>1. IsFiniteSet(U)
      <3>1. U \in SUBSET D
        OBVIOUS
      <3>2. QED
        BY <1>10, <3>1, FS_Subset
    <2>2. \A t \in U : N(t) \in V
      BY <1>5, <1>7 DEF Over
    <2>3. \A v \in V : \E t \in U : v = N(t)
      BY <1>6, <1>7 DEF Over
    <2>4. \A t, u \in U : N(t) = N(u) => t = u
      BY <1>8
    <2> HIDE DEF U, V
    <2>5. g \in [U -> V] /\ \A t \in U : g[t] = N(t)
      BY <2>2
    <2> HIDE DEF g
    <2>6. g \in Bijection(U, V)
      BY <2>3, <2>4, <2>5 DEF Bijection, Injection, Surjection, IsInjective
    <2>7. ExistsBijection(U, V)
      BY <2>6 DEF ExistsBijection
    <2>8. Cardinality(U) = Cardinality(V)
      BY <2>1, <2>7, FS_Bijection
    <2>9. QED
      BY <2>8 DEF U, V
  <1>12. heap = {s \in S : Cardinality(Over(S, s)) < limit}
    BY <1>3, KeptAreBest DEF S
  <1>13. \A s \in exact : s \in heap
    BY <1>5, <1>9, <1>11, <1>12
  <1>14. \A s \in heap : s \in exact
    <2>1. TAKE s \in heap
    <2>2. s \in S /\ Cardinality(Over(S, s)) < limit
      BY <1>12
    <2>3. PICK r \in D : s = N(r)
      BY <1>6, <2>2
    <2>4. Cardinality({t \in D : Better(score, t, r)}) < limit
      BY <1>11, <2>2, <2>3
    <2>5. QED
      BY <1>9, <2>3, <2>4
  <1>15. heap = exact
    BY <1>13, <1>14
  <1> HIDE DEF exact
  <1>16. QED
    BY <1>4, <1>15

\* The rows of a heap in the order of its buffer, each of them once.
LEMMA InOrderLists ==
    ASSUME NEW heap, Neighbors(heap), \A n \in heap : n.row \in 0 .. RowLimit - 1,
           NEW order \in MergeOrders
    PROVE  /\ Len(InOrder(heap, order)) = Cardinality(heap) /\ Cardinality(heap) \in Nat
           /\ {InOrder(heap, order)[j] : j \in 1 .. Cardinality(heap)} = heap
           /\ \A i, j \in 1 .. Cardinality(heap) :
                 InOrder(heap, order)[i] = InOrder(heap, order)[j] => i = j
  <1> DEFINE m == Cardinality(heap)
             places == {i \in DOMAIN order : \E n \in heap : n.row = order[i]}
             earlier(i) == {p \in places : p < i}
             nth(j) == CHOOSE i \in places : Cardinality(earlier(i)) = j - 1
             list == [j \in 1 .. m |-> CHOOSE n \in heap : n.row = order[nth(j)]]
  <1>0. InOrder(heap, order) = list
    BY DEF InOrder
  <1>1. /\ order \in Seq(0 .. (RowLimit - 1)) /\ Len(order) \in Nat
        /\ \A row \in 0 .. (RowLimit - 1) : \E i \in DOMAIN order : order[i] = row
        /\ \A i, j \in DOMAIN order : order[i] = order[j] => i = j
    BY OracleAssumption
  <1>2. IsFiniteSet(heap) /\ m \in Nat
    BY FS_CardinalityType DEF Neighbors
  <1>3. places \subseteq Nat /\ IsFiniteSet(places) /\ Cardinality(places) \in Nat
    <2>1. places \in SUBSET (1 .. Len(order)) /\ 1 \in Int /\ Len(order) \in Int
      BY <1>1
    <2>2. IsFiniteSet(1 .. Len(order))
      BY <2>1, FS_Interval
    <2>3. \A i \in 1 .. Len(order) : i \in Nat
      BY <1>1
    <2>4. QED
      BY <2>1, <2>2, <2>3, FS_Subset, FS_CardinalityType
  <1>4. \A i \in places : \E n \in heap : n.row = order[i]
    OBVIOUS
  <1>5. \A n \in heap : \E i \in places : order[i] = n.row
    BY <1>1
  <1>6. \A i, j \in places : order[i] = order[j] => i = j
    BY <1>1
  <1>7. \A n, o \in heap : n.row = o.row => n = o
    BY DEF Neighbors
  <1> HIDE DEF m, places
  <1>8. Cardinality(places) = m
    <2> DEFINE g == [i \in places |-> CHOOSE n \in heap : n.row = order[i]]
    <2>1. \A i \in places : g[i] \in heap /\ g[i].row = order[i]
      BY <1>4
    <2>2. g \in [places -> heap]
      BY <2>1
    <2> HIDE DEF g
    <2>3. \A i, j \in places : g[i] = g[j] => i = j
      BY <1>6, <2>1
    <2>4. \A n \in heap : \E i \in places : g[i] = n
      BY <1>5, <1>7, <2>1
    <2>5. g \in Bijection(places, heap)
      BY <2>2, <2>3, <2>4 DEF Bijection, Injection, Surjection, IsInjective
    <2>6. ExistsBijection(places, heap)
      BY <2>5 DEF ExistsBijection
    <2>7. QED
      BY <1>3, <2>6, FS_Bijection DEF m
  <1>9. ASSUME NEW i \in places
        PROVE  /\ earlier(i) \subseteq places /\ IsFiniteSet(earlier(i))
               /\ Cardinality(earlier(i)) \in Nat /\ Cardinality(earlier(i)) < m
    <2>1. earlier(i) \in SUBSET places /\ i \notin earlier(i)
      BY <1>3
    <2>2. IsFiniteSet(earlier(i)) /\ Cardinality(earlier(i)) <= Cardinality(places)
            /\ (Cardinality(earlier(i)) = Cardinality(places) => earlier(i) = places)
      BY <1>3, <2>1, FS_Subset
    <2>3. Cardinality(earlier(i)) \in Nat
      BY <2>2, FS_CardinalityType
    <2>4. Cardinality(earlier(i)) # Cardinality(places)
      BY <2>1, <2>2
    <2>5. QED
      BY <1>2, <1>8, <2>1, <2>2, <2>3, <2>4
  <1>10. ASSUME NEW i \in places, NEW j \in places, i < j
         PROVE  Cardinality(earlier(i)) < Cardinality(earlier(j))
    <2>1. earlier(i) \cup {i} \in SUBSET earlier(j) /\ i \notin earlier(i)
      <3>1. \A p \in earlier(i) \cup {i} : p \in places /\ p < j
        BY <1>3, <1>10
      <3>2. ~ (i < i)
        BY <1>3
      <3>3. QED
        BY <3>1, <3>2
    <2> HIDE DEF earlier
    <2>2. Cardinality(earlier(i) \cup {i}) = Cardinality(earlier(i)) + 1
      BY <1>9, <2>1, FS_AddElement
    <2>3. Cardinality(earlier(i) \cup {i}) <= Cardinality(earlier(j))
      BY <1>9, <2>1, FS_Subset
    <2>4. QED
      BY <1>9, <2>2, <2>3
  <1> HIDE DEF earlier
  <1> DEFINE rank == [i \in places |-> Cardinality(earlier(i)) + 1]
  <1>11. \A i \in places : rank[i] \in 1 .. m /\ rank[i] = Cardinality(earlier(i)) + 1
    BY <1>2, <1>9
  <1>12. rank \in [places -> 1 .. m]
    BY <1>11
  <1> HIDE DEF rank
  <1>13. \A i, j \in places : rank[i] = rank[j] => i = j
    <2>1. TAKE i \in places, j \in places
    <2>2. SUFFICES ASSUME rank[i] = rank[j], i # j PROVE FALSE
      OBVIOUS
    <2>3. Cardinality(earlier(i)) = Cardinality(earlier(j))
      BY <1>9, <1>11, <2>2
    <2>4. i < j \/ j < i
      BY <1>3, <2>2
    <2>5. QED
      BY <1>9, <1>10, <2>3, <2>4
  <1>14. \A j \in 1 .. m : \E i \in places : rank[i] = j
    <2>1. rank \in Injection(places, 1 .. m)
      BY <1>12, <1>13 DEF Injection, IsInjective
    <2>2. IsFiniteSet(1 .. m) /\ Cardinality(1 .. m) = m
      <3>1. 1 \in Int /\ m \in Int
        BY <1>2
      <3>2. IsFiniteSet(1 .. m) /\ Cardinality(1 .. m) = IF 1 > m THEN 0 ELSE m - 1 + 1
        BY <3>1, FS_Interval
      <3>3. QED
        BY <1>2, <3>2
    <2>3. rank \in Surjection(places, 1 .. m)
      BY <1>3, <1>8, <2>1, <2>2, FS_Injection
    <2>4. QED
      BY <2>3 DEF Surjection
  <1>15. ASSUME NEW j \in 1 .. m
         PROVE  nth(j) \in places /\ Cardinality(earlier(nth(j))) = j - 1
    <2>1. PICK i \in places : rank[i] = j
      BY <1>14
    <2>2. Cardinality(earlier(i)) = j - 1
      BY <1>2, <1>9, <1>11, <2>1
    <2>3. \E p \in places : Cardinality(earlier(p)) = j - 1
      BY <2>2
    <2>4. QED
      BY <2>3
  <1> HIDE DEF nth
  <1>16. \A j \in 1 .. m : list[j] \in heap /\ list[j].row = order[nth(j)]
    BY <1>4, <1>15
  <1>17. \A i, j \in 1 .. m : list[i] = list[j] => i = j
    <2>1. TAKE i \in 1 .. m, j \in 1 .. m
    <2>2. SUFFICES ASSUME list[i] = list[j] PROVE i = j
      OBVIOUS
    <2>3. order[nth(i)] = order[nth(j)]
      BY <1>16, <2>2
    <2>4. nth(i) = nth(j)
      BY <1>6, <1>15, <2>3
    <2>5. i - 1 = j - 1
      BY <1>15, <2>4
    <2>6. QED
      BY <1>2, <2>5
  <1>18. list \in [1 .. m -> heap]
    BY <1>16
  <1>19. Len(list) = m
    BY <1>2
  <1> HIDE DEF list
  <1>20. \A n \in heap : \E j \in 1 .. m : list[j] = n
    <2>1. list \in Injection(1 .. m, heap)
      BY <1>17, <1>18 DEF Injection, IsInjective
    <2>2. IsFiniteSet(1 .. m) /\ Cardinality(1 .. m) = m
      <3>1. 1 \in Int /\ m \in Int
        BY <1>2
      <3>2. IsFiniteSet(1 .. m) /\ Cardinality(1 .. m) = IF 1 > m THEN 0 ELSE m - 1 + 1
        BY <3>1, FS_Interval
      <3>3. QED
        BY <1>2, <3>2
    <2>3. list \in Surjection(1 .. m, heap)
      BY <1>2, <2>1, <2>2, FS_Injection DEF m
    <2>4. QED
      BY <2>3 DEF Surjection
  <1>21. {list[j] : j \in 1 .. m} = heap
    BY <1>18, <1>20
  <1>22. QED
    BY <1>0, <1>2, <1>17, <1>19, <1>21 DEF m

\* Those of the rows after the first of them, up to another.
Stretch(content, q, from, to) == {Neighbor(i - 1, content[i], q) : i \in from + 1 .. to}

LEMMA SomeNeighbors ==
    ASSUME NEW S, Neighbors(S), NEW T \in SUBSET S
    PROVE  Neighbors(T)
  BY FS_Subset DEF Neighbors

LEMMA StretchesJoin ==
    ASSUME NEW content \in Seq(ScoredRows), NEW q \in 1 .. QueryCount,
           NEW to \in 0 .. Len(content), NEW from \in 0 .. to
    PROVE  /\ Stretch(content, q, 0, from) \cup Stretch(content, q, from, to)
                = Stretch(content, q, 0, to)
           /\ Neighbors(Stretch(content, q, 0, to))
           /\ Neighbors(Stretch(content, q, from, to))
           /\ Stretch(content, q, 0, from) \cap Stretch(content, q, from, to) = {}
           /\ \A n \in Stretch(content, q, from, to) : n.row \in 0 .. Len(content) - 1
  <1> DEFINE N(i) == Neighbor(i - 1, content[i], q)
             S == Listed(content, q)
  <1>1. /\ Len(content) \in Nat /\ from \in Nat /\ to \in Nat
        /\ from <= to /\ to <= Len(content)
    OBVIOUS
  <1>2. /\ Neighbors(S)
        /\ \A n \in S : n.row \in 0 .. Len(content) - 1
        /\ \A i, j \in 1 .. Len(content) : N(i) = N(j) => i = j
    BY ListedAre
  <1>3. \A i \in 1 .. Len(content) : N(i) \in S
    BY DEF Listed
  <1> HIDE DEF S
  <1>4. /\ Stretch(content, q, 0, from) = {N(i) : i \in 1 .. from}
        /\ Stretch(content, q, from, to) = {N(i) : i \in from + 1 .. to}
        /\ Stretch(content, q, 0, to) = {N(i) : i \in 1 .. to}
    <2>1. 0 + 1 = 1
      OBVIOUS
    <2>2. QED
      BY <2>1 DEF Stretch
  <1> HIDE DEF N
  <1>5. /\ \A i \in 1 .. from : i \in 1 .. to
        /\ \A i \in from + 1 .. to : i \in 1 .. to /\ i \notin 1 .. from
        /\ \A i \in 1 .. to : i \in 1 .. Len(content) /\ (i \in 1 .. from \/ i \in from + 1 .. to)
    BY <1>1
  <1>6. {N(i) : i \in 1 .. from} \cup {N(i) : i \in from + 1 .. to} = {N(i) : i \in 1 .. to}
    BY <1>5
  <1>7. {N(i) : i \in 1 .. to} \in SUBSET S /\ {N(i) : i \in from + 1 .. to} \in SUBSET S
    BY <1>3, <1>5
  <1>8. {N(i) : i \in 1 .. from} \cap {N(i) : i \in from + 1 .. to} = {}
    BY <1>2, <1>5 DEF N
  <1>9. QED
    BY <1>2, <1>4, <1>6, <1>7, <1>8, SomeNeighbors

\* Nothing and everything are kept of themselves.
LEMMA KeptOfItself ==
    ASSUME NEW limit \in Nat \ {0}
    PROVE  /\ Kept({}, {}, limit)
           /\ \A S, heap : Kept(S, heap, limit) => Kept(heap, heap, limit)
  <1>1. Cardinality({}) = 0
    BY FS_EmptySet
  <1>2. Kept({}, {}, limit)
    BY <1>1 DEF Kept
  <1>3. QED
    BY <1>2 DEF Kept

\* A thread's heap, of its part of a chunk.
LEMMA PartKept ==
    ASSUME NEW content \in Seq(ScoredRows), NEW q \in 1 .. QueryCount, NEW limit \in Nat \ {0},
           NEW to \in 0 .. Len(content), NEW from \in 0 .. to,
           NEW list, Len(list) = to - from,
           \A r \in 1 .. to - from : list[r] = Neighbor(from + r - 1, content[from + r], q)
    PROVE  Kept(Stretch(content, q, from, to), AdmitAll({}, list, limit), limit)
  <1> DEFINE n == to - from
             N(i) == Neighbor(i - 1, content[i], q)
             S == Stretch(content, q, from, to)
  <1>1. n \in Nat /\ from \in Nat /\ to \in Nat /\ to <= Len(content) /\ Len(content) \in Nat
    OBVIOUS
  <1>2. \A r \in 1 .. n : list[r] = N(from + r)
    OBVIOUS
  <1>3. \A i, j \in 1 .. Len(content) : N(i) = N(j) => i = j
    BY ListedAre
  <1>4. Neighbors(S)
    BY StretchesJoin
  <1>5. \A s \in S : \E i \in from + 1 .. to : s = N(i)
    BY DEF Stretch
  <1>6. \A i \in from + 1 .. to : N(i) \in S
    BY DEF Stretch
  <1> HIDE DEF N, S
  <1>7. \A r \in 1 .. n : from + r \in from + 1 .. to /\ from + r \in 1 .. Len(content)
    BY <1>1
  <1>8. \A i \in from + 1 .. to : i - from \in 1 .. n /\ from + (i - from) = i
    BY <1>1
  <1> HIDE DEF n
  <1>9. {list[r] : r \in 1 .. n} = S
    <2>1. \A r \in 1 .. n : list[r] \in S
      BY <1>2, <1>6, <1>7
    <2>2. \A s \in S : \E r \in 1 .. n : list[r] = s
      <3>1. TAKE s \in S
      <3>2. PICK i \in from + 1 .. to : s = N(i)
        BY <1>5
      <3>3. i - from \in 1 .. n /\ list[i - from] = N(i)
        BY <1>2, <1>8
      <3>4. QED
        BY <3>2, <3>3
    <2>3. QED
      BY <2>1, <2>2
  <1>10. \A i, j \in 1 .. n : list[i] = list[j] => i = j
    <2>1. TAKE i \in 1 .. n, j \in 1 .. n
    <2>2. SUFFICES ASSUME list[i] = list[j] PROVE i = j
      OBVIOUS
    <2>3. from + i = from + j
      BY <1>2, <1>3, <1>7, <2>2
    <2>4. QED
      BY <1>1, <2>3
  <1>11. {} \cup {list[r] : r \in 1 .. n} = S
    BY <1>9
  <1>12. Len(list) = n
    BY DEF n
  <1>13. Kept({}, {}, limit)
    BY KeptOfItself
  <1>14. Kept({} \cup {list[r] : r \in 1 .. n}, AdmitAll({}, list, limit), limit)
    BY <1>1, <1>4, <1>10, <1>11, <1>12, <1>13, AdmitAllKeeps
  <1>15. QED
    BY <1>11, <1>14 DEF S

\* A heap, after the merge of a thread's.
LEMMA MergeKeeps ==
    ASSUME NEW content \in Seq(ScoredRows), Len(content) <= RowLimit,
           NEW q \in 1 .. QueryCount, NEW limit \in Nat \ {0},
           NEW to \in 0 .. Len(content), NEW from \in 0 .. to,
           NEW heap, Kept(Stretch(content, q, 0, from), heap, limit),
           NEW part, Kept(Stretch(content, q, from, to), part, limit),
           NEW order \in MergeOrders
    PROVE  Kept(Stretch(content, q, 0, to), AdmitAll(heap, InOrder(part, order), limit), limit)
  <1> DEFINE S == Stretch(content, q, 0, from)
             P == Stretch(content, q, from, to)
             list == InOrder(part, order)
             m == Cardinality(part)
  <1>1. /\ S \cup P = Stretch(content, q, 0, to)
        /\ Neighbors(S \cup P) /\ Neighbors(P) /\ S \cap P = {}
        /\ \A n \in P : n.row \in 0 .. Len(content) - 1
    <2> HIDE DEF S, P
    <2>1. /\ S \cup P = Stretch(content, q, 0, to)
          /\ Neighbors(Stretch(content, q, 0, to)) /\ Neighbors(P) /\ S \cap P = {}
          /\ \A n \in P : n.row \in 0 .. Len(content) - 1
      BY StretchesJoin DEF S, P
    <2>2. QED
      BY <2>1
  <1>2. heap \subseteq S /\ part \subseteq P
    BY DEF Kept
  <1>3. Len(content) \in Nat /\ RowLimit \in Nat
    BY OracleAssumption
  <1> HIDE DEF S, P
  <1>4. Neighbors(part) /\ \A n \in part : n.row \in 0 .. RowLimit - 1
    <2>1. \A n \in part : n.row \in 0 .. Len(content) - 1
      BY <1>1, <1>2
    <2>2. \A n \in part : n.row \in 0 .. RowLimit - 1
      BY <1>3, <2>1
    <2>3. part \in SUBSET P
      BY <1>2
    <2>4. QED
      BY <1>1, <2>2, <2>3, SomeNeighbors
  <1>5. /\ Len(list) = m /\ m \in Nat
        /\ {list[j] : j \in 1 .. m} = part
        /\ \A i, j \in 1 .. m : list[i] = list[j] => i = j
    <2>1. /\ Len(InOrder(part, order)) = Cardinality(part) /\ Cardinality(part) \in Nat
          /\ {InOrder(part, order)[j] : j \in 1 .. Cardinality(part)} = part
          /\ \A i, j \in 1 .. Cardinality(part) :
                InOrder(part, order)[i] = InOrder(part, order)[j] => i = j
      <3> HIDE DEF list, m
      <3>1. QED
        BY <1>4, InOrderLists
    <2>2. QED
      BY <2>1, Zenon
  <1> HIDE DEF list, m
  <1>6. \A i \in 1 .. m : list[i] \notin heap
    BY <1>1, <1>2, <1>5
  <1>7. Kept(heap, heap, limit)
    BY KeptOfItself DEF S
  <1>8. Neighbors(heap \cup {list[j] : j \in 1 .. m})
    <2>1. heap \cup part \in SUBSET (S \cup P)
      BY <1>2
    <2>2. Neighbors(heap \cup part)
      BY <1>1, <2>1, SomeNeighbors
    <2>3. QED
      BY <1>5, <2>2
  <1>9. Kept(heap \cup {list[j] : j \in 1 .. m}, AdmitAll(heap, list, limit), limit)
    BY <1>5, <1>6, <1>7, <1>8, AdmitAllKeeps
  <1>10. Kept(heap \cup part, AdmitAll(heap, list, limit), limit)
    BY <1>5, <1>9
  <1>11. Kept(S \cup P, AdmitAll(heap, list, limit), limit)
    BY <1>1, <1>10, MergeKept DEF S, P
  <1>12. QED
    BY <1>1, <1>11 DEF list

-----------------------------------------------------------------------------
(* A chunk, dealt to threads. *)

\* Enough parts of the same width reach the last row, and every part has a row.
LEMMA PartsReach ==
    ASSUME NEW n \in Nat \ {0}, NEW width \in Nat \ {0}
    PROVE  LET batches == (n + width - 1) \div width
           IN  /\ batches \in Nat \ {0} /\ n <= batches * width
               /\ \A b \in 1 .. batches :
                     /\ (b - 1) * width \in Nat /\ (b - 1) * width < n
                     /\ b * width = (b - 1) * width + width
  <1> DEFINE m == n + width - 1
             batches == m \div width
  <1>1. m \in Nat /\ m >= width
    OBVIOUS
  <1> HIDE DEF m
  <1>2. batches \in Int /\ batches * width <= m /\ m < batches * width + width
    BY <1>1, SMT
  <1> HIDE DEF batches
  <1>3. batches \in Nat \ {0}
    <2>1. SUFFICES ASSUME batches <= 0 PROVE FALSE
      BY <1>2
    <2>2. batches * width <= 0
      BY <1>2, <2>1, SMT
    <2>3. batches * width \in Int
      BY <1>2
    <2>4. QED
      BY <1>1, <1>2, <2>2, <2>3
  <1>4. batches * width \in Nat
    BY <1>3
  <1>5. n <= batches * width
    BY <1>2, <1>4 DEF m
  <1>6. ASSUME NEW b \in 1 .. batches
        PROVE  /\ (b - 1) * width \in Nat /\ (b - 1) * width < n
               /\ b * width = (b - 1) * width + width
    <2>1. b - 1 \in Nat /\ batches - b \in Nat /\ b \in Nat
      BY <1>3
    <2>2. (b - 1) * width \in Nat /\ b * width \in Nat /\ (batches - b) * width \in Nat
      BY <2>1
    <2>3. b * width = (b - 1) * width + width
      BY <2>1, SMT
    <2>4. batches * width = b * width + (batches - b) * width
      BY <1>3, <2>1, SMT
    <2>5. QED
      BY <1>2, <1>4, <2>2, <2>3, <2>4 DEF m
  <1>7. QED
    BY <1>3, <1>5, <1>6 DEF batches, m

\* The heaps keep the best of the rows accepted.
KeptOf(content) ==
    /\ DOMAIN heaps = 1 .. QueryCount
    /\ \A q \in 1 .. QueryCount : Kept(Listed(content, q), heaps[q], depth)

\* The rows before a thread's part.
Starts(b, width, start) == start = (b - 1) * width

LEMMA RowsAppended ==
    ASSUME NEW R, NEW before \in Seq(R), NEW chunk \in Seq(R)
    PROVE  /\ Len(chunk) \in Nat /\ before \o chunk \in Seq(R)
           /\ Len(before \o chunk) = Len(before) + Len(chunk)
           /\ \A i \in 1 .. Len(chunk) : (before \o chunk)[Len(before) + i] = chunk[i]
  <1>1. Len(before) \in Nat /\ Len(chunk) \in Nat
    OBVIOUS
  <1>2. before \o chunk \in Seq(R) /\ Len(before \o chunk) = Len(before) + Len(chunk)
    OBVIOUS
  <1>3. ASSUME NEW i \in 1 .. Len(chunk)
        PROVE  (before \o chunk)[Len(before) + i] = chunk[i]
    <2>1. Len(before) + i \in 1 .. Len(before) + Len(chunk) /\ ~ (Len(before) + i <= Len(before))
      BY <1>1
    <2>2. QED
      BY <1>1, <2>1
  <1>4. QED
    BY <1>1, <1>2, <1>3

\* The heaps of a thread keep the best of its part.
LEMMA BatchKept ==
    ASSUME DOMAIN heaps = 1 .. QueryCount, depth \in Nat \ {0},
           NEW content \in Seq(ScoredRows), NEW chunk \in Seq(ScoredRows),
           NEW width \in Nat, NEW b \in Nat, NEW start \in Nat, Starts(b, width, start),
           NEW q \in 1 .. QueryCount, NEW first \in Nat, first = Len(content),
           NEW size \in Nat, size = Least(width, Len(chunk) - start), start + size <= Len(chunk)
    PROVE  Kept(Stretch(content \o chunk, q, first + start, first + start + size),
                BatchHeaps(chunk, first, width, b)[q], depth)
  <1> DEFINE n == Len(chunk)
             all == content \o chunk
             list == [r \in 1 .. size |-> Neighbor(RowNumber(first, width, b, r), chunk[start + r], q)]
             from == first + start
             to == first + start + size
  <1>1. /\ n \in Nat /\ all \in Seq(ScoredRows) /\ Len(all) = first + n
        /\ \A i \in 1 .. n : all[first + i] = chunk[i]
    <2>1. /\ n \in Nat /\ all \in Seq(ScoredRows) /\ Len(all) = Len(content) + n
          /\ \A i \in 1 .. n : all[Len(content) + i] = chunk[i]
      BY RowsAppended
    <2> HIDE DEF n, all
    <2>2. QED
      BY <2>1
  <1>2. BatchHeaps(chunk, first, width, b)[q] = AdmitAll({}, list, depth)
    BY DEF BatchHeaps, Starts
  <1>3. Len(list) = size
    OBVIOUS
  <1>4. from \in 0 .. to /\ to \in 0 .. first + n /\ to - from = size
    OBVIOUS
  <1>5. ASSUME NEW r \in 1 .. size
        PROVE  list[r] = Neighbor(from + r - 1, all[from + r], q)
    <2>1. list[r] = Neighbor(RowNumber(first, width, b, r), chunk[start + r], q)
      OBVIOUS
    <2>2. RowNumber(first, width, b, r) = from + r - 1
      BY DEF RowNumber, Starts
    <2>3. start + r \in 1 .. n /\ first + (start + r) = from + r
      OBVIOUS
    <2> HIDE DEF n, all, list, from
    <2>4. all[from + r] = chunk[start + r]
      BY <1>1, <2>3
    <2>5. QED
      BY <2>1, <2>2, <2>4
  <1> HIDE DEF all, list, from, to, n
  <1>6. Kept(Stretch(all, q, from, to), AdmitAll({}, list, depth), depth)
    <2>1. to \in 0 .. Len(all) /\ from \in 0 .. to /\ Len(list) = to - from
      BY <1>1, <1>3, <1>4
    <2>2. \A r \in 1 .. to - from : list[r] = Neighbor(from + r - 1, all[from + r], q)
      BY <1>4, <1>5
    <2>3. all \in Seq(ScoredRows)
      BY <1>1
    <2>4. QED
      BY <2>1, <2>2, <2>3, PartKept
  <1>7. QED
    BY <1>2, <1>6 DEF all, from, to

LEMMA StretchIsListed ==
    ASSUME NEW content \in Seq(ScoredRows), NEW chunk \in Seq(ScoredRows), NEW q
    PROVE  /\ Stretch(content \o chunk, q, 0, Len(content)) = Listed(content, q)
           /\ Stretch(content \o chunk, q, 0, Len(content) + Len(chunk)) = Listed(content \o chunk, q)
  <1> DEFINE all == content \o chunk
  <1>1. /\ Len(content) \in Nat /\ Len(chunk) \in Nat /\ Len(all) = Len(content) + Len(chunk)
        /\ \A i \in 1 .. Len(content) : all[i] = content[i]
    OBVIOUS
  <1> HIDE DEF all
  <1>2. 0 + 1 = 1
    OBVIOUS
  <1>3. Stretch(all, q, 0, Len(content)) = Listed(content, q)
    BY <1>1, <1>2 DEF Stretch, Listed
  <1>4. Stretch(all, q, 0, Len(content) + Len(chunk)) = Listed(all, q)
    BY <1>1, <1>2 DEF Stretch, Listed
  <1>5. QED
    BY <1>3, <1>4 DEF all

\* The heaps after one more thread has been joined.
Joined(chunk, width, order, before, b) ==
    [q \in DOMAIN heaps |->
        AdmitAll(before[q], InOrder(BatchHeaps(chunk, Len(corpus), width, b)[q], order), depth)]

\* The heaps when the first threads, up to row to of the chunk, are joined.
KeptUpTo(chunk, to, now) ==
    /\ DOMAIN now = 1 .. QueryCount
    /\ \A q \in 1 .. QueryCount :
          Kept(Stretch(corpus \o chunk, q, 0, Len(corpus) + to), now[q], depth)

LEMMA JoinKeeps ==
    ASSUME KeptOf(corpus), depth \in Nat \ {0}, corpus \in Seq(ScoredRows),
           NEW chunk \in Seq(ScoredRows), Len(corpus) + Len(chunk) <= RowLimit,
           NEW order \in MergeOrders,
           NEW width \in Nat, NEW b \in Nat, NEW start \in Nat, Starts(b, width, start),
           NEW size \in Nat, size = Least(width, Len(chunk) - start), start + size <= Len(chunk),
           NEW before, KeptUpTo(chunk, start, before)
    PROVE  KeptUpTo(chunk, start + size, Joined(chunk, width, order, before, b))
  <1> DEFINE first == Len(corpus)
             all == corpus \o chunk
             now == Joined(chunk, width, order, before, b)
             part(q) == BatchHeaps(chunk, Len(corpus), width, b)[q]
  <1>1. DOMAIN heaps = 1 .. QueryCount
    BY DEF KeptOf
  <1>2. first \in Nat /\ Len(chunk) \in Nat /\ all \in Seq(ScoredRows) /\ Len(all) = first + Len(chunk)
    OBVIOUS
  <1>3. DOMAIN now = 1 .. QueryCount
    BY <1>1 DEF Joined
  <1>4. ASSUME NEW q \in 1 .. QueryCount
        PROVE  Kept(Stretch(all, q, 0, first + (start + size)), now[q], depth)
    <2>1. now[q] = AdmitAll(before[q], InOrder(part(q), order), depth)
      BY <1>1 DEF Joined
    <2>2. Kept(Stretch(all, q, 0, first + start), before[q], depth)
      BY DEF KeptUpTo
    <2>3. Kept(Stretch(all, q, first + start, first + start + size), part(q), depth)
      <3> HIDE DEF first
      <3>1. first = Len(corpus)
        BY DEF first
      <3>2. Kept(Stretch(all, q, first + start, first + start + size),
                 BatchHeaps(chunk, first, width, b)[q], depth)
        BY <1>1, <1>2, <3>1, BatchKept
      <3>3. QED
        BY <3>1, <3>2
    <2>4. /\ first + (start + size) = first + start + size
          /\ first + start + size \in 0 .. Len(all) /\ first + start \in 0 .. first + start + size
      <3> HIDE DEF first, all
      <3>1. QED
        BY <1>2
    <2> DEFINE from == first + start
               to == first + start + size
    <2>5. /\ to \in 0 .. Len(all) /\ from \in 0 .. to /\ Len(all) <= RowLimit
          /\ first + (start + size) = to
          /\ Kept(Stretch(all, q, 0, from), before[q], depth)
          /\ Kept(Stretch(all, q, from, to), part(q), depth)
      <3>1. Len(all) <= RowLimit
        BY <1>2
      <3> HIDE DEF all, first, part
      <3>2. QED
        BY <2>2, <2>3, <2>4, <3>1
    <2> HIDE DEF from, to, first, all, now, part
    <2>6. Kept(Stretch(all, q, 0, to), AdmitAll(before[q], InOrder(part(q), order), depth), depth)
      BY <1>2, <2>5, MergeKeeps
    <2>7. QED
      BY <2>1, <2>5, <2>6
  <1>5. QED
    BY <1>3, <1>4 DEF KeptUpTo

\* The heaps after a chunk.
LEMMA ExtendKeeps ==
    ASSUME KeptOf(corpus), depth \in Nat \ {0}, corpus \in Seq(ScoredRows),
           NEW chunk \in Seq(ScoredRows), chunk # <<>>, Len(corpus) + Len(chunk) <= RowLimit,
           NEW order \in MergeOrders
    PROVE  /\ DOMAIN Extended(chunk, order) = 1 .. QueryCount
           /\ \A q \in 1 .. QueryCount :
                 Kept(Listed(corpus \o chunk, q), Extended(chunk, order)[q], depth)
  <1> DEFINE n == Len(chunk)
             width == (n + Threads - 1) \div Threads
             batches == (n + width - 1) \div width
             Merges(g, d) == g = [b \in 0 .. d |->
                 IF b = 0 THEN heaps
                 ELSE LET part == BatchHeaps(chunk, Len(corpus), width, b)
                      IN  [q \in DOMAIN heaps |->
                              AdmitAll(g[b - 1][q], InOrder(part[q], order), depth)]]
             join(before, b) == Joined(chunk, width, order, before, b)
             Chain(g, d) == g = [b \in 0 .. d |-> IF b = 0 THEN heaps ELSE join(g[b - 1], b)]
  <1>1. n \in Nat \ {0} /\ Threads \in Nat \ {0}
    BY OracleAssumption
  <1>2. Extended(chunk, order) = (CHOOSE g : Chain(g, batches))[batches]
    <2>1. Extended(chunk, order) = (CHOOSE g : Merges(g, batches))[batches]
      BY DEF Extended
    <2>2. \A g, d : Merges(g, d) <=> Chain(g, d)
      BY DEF Joined
    <2> HIDE DEF Merges, Chain
    <2>3. (CHOOSE g : Merges(g, batches)) = (CHOOSE g : Chain(g, batches))
      BY <2>2
    <2>4. QED
      BY <2>1, <2>3
  <1> HIDE DEF Merges
  <1>3. width \in Nat \ {0}
    <2> HIDE DEF n
    <2>1. QED
      BY <1>1, PartsReach
  <1> HIDE DEF n, width
  <1>4. /\ batches \in Nat \ {0} /\ n <= batches * width
        /\ \A b \in 1 .. batches : /\ (b - 1) * width \in Nat /\ (b - 1) * width < n
                                   /\ b * width = (b - 1) * width + width
    BY <1>1, <1>3, PartsReach
  <1> HIDE DEF batches
  <1>5. \E g : Chain(g, batches)
    <2> HIDE DEF join
    <2> DEFINE Bad == {d \in 0 .. batches : ~ \E g : Chain(g, d)}
    <2>1. SUFFICES ASSUME Bad # {} PROVE FALSE
      <3>1. batches \in 0 .. batches
        BY <1>4
      <3>2. QED
        BY <3>1
    <2>2. PICK d \in Bad : \A y \in Bad : ~ (y < d)
      <3>1. Bad \subseteq Nat
        BY SMT
      <3> HIDE DEF Bad
      <3>2. QED
        BY <2>1, <3>1, FirstNatural
    <2>3. d \in 0 .. batches /\ ~ \E g : Chain(g, d)
      BY <2>2
    <2>4. CASE d = 0
      <3> DEFINE g == [b \in 0 .. 0 |-> heaps]
      <3>1. Chain(g, 0)
        OBVIOUS
      <3> HIDE DEF Chain
      <3>2. QED
        BY <2>3, <2>4, <3>1
    <2>5. CASE d # 0
      <3>1. d - 1 \in 0 .. batches /\ d - 1 < d /\ d \in Nat /\ d >= 1
        BY <1>4, <2>3, <2>5
      <3>2. PICK h : Chain(h, d - 1)
        BY <2>2, <3>1
      <3> DEFINE g == [b \in 0 .. d |-> IF b = d THEN join(h[d - 1], d) ELSE h[b]]
      <3>3. ASSUME NEW b \in 0 .. d
            PROVE  g[b] = IF b = 0 THEN heaps ELSE join(g[b - 1], b)
        <4>1. CASE b = d
          <5>1. b - 1 \in 0 .. d /\ b - 1 # d
            BY <3>1, <4>1
          <5>2. g[b - 1] = h[d - 1]
            BY <4>1, <5>1
          <5>3. g[b] = join(h[d - 1], d) /\ b # 0
            BY <3>1, <4>1
          <5>4. QED
            BY <4>1, <5>2, <5>3
        <4>2. CASE b = 0
          <5>1. g[b] = h[0] /\ 0 \in 0 .. d - 1
            BY <3>1, <4>2
          <5>2. h[0] = heaps
            BY <3>2, <5>1
          <5>3. QED
            BY <4>2, <5>1, <5>2
        <4>3. CASE b # d /\ b # 0
          <5>1. b \in 0 .. d - 1 /\ b - 1 \in 0 .. d /\ b - 1 # d
            BY <3>1, <4>3
          <5>2. g[b] = h[b] /\ g[b - 1] = h[b - 1]
            BY <4>3, <5>1
          <5>3. h[b] = join(h[b - 1], b)
            BY <3>2, <4>3, <5>1
          <5>4. QED
            BY <4>3, <5>2, <5>3
        <4>4. QED
          BY <4>1, <4>2, <4>3
      <3>4. g = [b \in 0 .. d |-> g[b]]
        OBVIOUS
      <3> HIDE DEF g
      <3>5. Chain(g, d)
        BY <3>3, <3>4
      <3> HIDE DEF Chain
      <3>6. QED
        BY <2>3, <3>5
    <2>6. QED
      BY <2>4, <2>5
  <1> DEFINE merged == CHOOSE g : Chain(g, batches)
  <1>6. Chain(merged, batches)
    <2> HIDE DEF Chain
    <2>1. QED
      BY <1>5
  <1>7. Extended(chunk, order) = merged[batches]
    BY <1>2
  <1> HIDE DEF merged
  <1>8. merged[0] = heaps /\ \A b \in 1 .. batches : merged[b] = join(merged[b - 1], b)
    <2> HIDE DEF join
    <2>1. QED
      BY <1>4, <1>6
  <1> HIDE DEF Chain
  <1>9. \A b \in 0 .. batches : KeptUpTo(chunk, Least(b * width, n), merged[b])
    <2> DEFINE Bad == {b \in 0 .. batches : ~ KeptUpTo(chunk, Least(b * width, n), merged[b])}
    <2>1. SUFFICES ASSUME Bad # {} PROVE FALSE
      OBVIOUS
    <2>2. PICK b \in Bad : \A y \in Bad : ~ (y < b)
      <3>1. Bad \subseteq Nat
        BY SMT
      <3> HIDE DEF Bad
      <3>2. QED
        BY <2>1, <3>1, FirstNatural
    <2>3. b \in 0 .. batches /\ ~ KeptUpTo(chunk, Least(b * width, n), merged[b])
      BY <2>2
    <2>4. CASE b = 0
      <3>1. Least(b * width, n) = 0
        BY <1>1, <1>3, <2>4 DEF Least
      <3>2. KeptUpTo(chunk, 0, heaps)
        <4>1. Len(corpus) + 0 = Len(corpus)
          OBVIOUS
        <4>2. \A q : Stretch(corpus \o chunk, q, 0, Len(corpus) + 0) = Listed(corpus, q)
          BY <4>1, StretchIsListed
        <4>3. QED
          BY <4>2 DEF KeptUpTo, KeptOf
      <3>3. QED
        BY <1>8, <2>3, <2>4, <3>1, <3>2
    <2>5. CASE b # 0
      <3>1. b - 1 \in 0 .. batches /\ b - 1 < b /\ b \in 1 .. batches /\ b \in Nat
        BY <1>4, <2>3, <2>5
      <3>2. KeptUpTo(chunk, Least((b - 1) * width, n), merged[b - 1])
        BY <2>2, <3>1
      <3> DEFINE start == (b - 1) * width
                 size == Least(width, n - start)
      <3>3. Starts(b, width, start)
        BY DEF Starts
      <3>4. start \in Nat /\ start < n /\ b * width = start + width
        BY <1>4, <3>1
      <3> HIDE DEF start
      <3>5. Least(start, n) = start
        BY <1>1, <3>4 DEF Least
      <3>6. size \in Nat /\ start + size <= n /\ Least(start + width, n) = start + size
        BY <1>1, <1>3, <3>4 DEF Least
      <3> HIDE DEF size
      <3>7. KeptUpTo(chunk, start, merged[b - 1])
        BY <3>2, <3>5 DEF start
      <3>8. KeptUpTo(chunk, start + size, Joined(chunk, width, order, merged[b - 1], b))
        <4>1. size = Least(width, Len(chunk) - start) /\ start + size <= Len(chunk)
          BY <3>6 DEF size, n
        <4>2. width \in Nat
          BY <1>3
        <4>3. QED
          BY <3>1, <3>3, <3>4, <3>6, <3>7, <4>1, <4>2, JoinKeeps
      <3>9. merged[b] = Joined(chunk, width, order, merged[b - 1], b)
        BY <1>8, <3>1
      <3>10. Least(b * width, n) = start + size
        BY <3>4, <3>6
      <3>11. QED
        BY <2>3, <3>8, <3>9, <3>10
    <2>6. QED
      BY <2>4, <2>5
  <1>10. Least(batches * width, n) = n
    <2>1. batches * width \in Nat
      BY <1>3, <1>4
    <2>2. QED
      BY <1>1, <1>4, <2>1 DEF Least
  <1>11. batches \in 0 .. batches
    BY <1>4
  <1>12. KeptUpTo(chunk, n, merged[batches])
    BY <1>9, <1>10, <1>11
  <1>13. \A q : Stretch(corpus \o chunk, q, 0, Len(corpus) + n) = Listed(corpus \o chunk, q)
    BY StretchIsListed DEF n
  <1>14. QED
    BY <1>7, <1>12, <1>13 DEF KeptUpTo

-----------------------------------------------------------------------------
(* A generated corpus, chunk after chunk. *)

\* So many rows are those of some full chunks, or all.
Whole(s, n) == /\ n \in Nat /\ n <= s.count
               /\ n = s.count \/ \E i \in Nat : n = i * ChunkRows

LEMMA SourceRowsAre ==
    ASSUME NEW s \in Sources, NEW n \in Nat, n <= s.count
    PROVE  SourceRows(s, 0, n) \in Seq(ScoredRows) /\ Len(SourceRows(s, 0, n)) = n
  <1>1. s.seed \in Seeds /\ s.count \in Nat /\ s.count <= Len(RowScores[s.seed])
    BY OracleAssumption
  <1>2. RowScores[s.seed] \in Seq([1 .. QueryCount -> Int])
    BY <1>1, OracleAssumption
  <1>3. DOMAIN RowScores[s.seed] = 1 .. Len(RowScores[s.seed]) /\ Len(RowScores[s.seed]) \in Nat
    BY <1>2
  <1>4. ASSUME NEW i \in 1 .. n
        PROVE  [seed |-> s.seed, at |-> 0 + i] \in ScoredRows
    <2>1. i \in DOMAIN RowScores[s.seed] /\ 0 + i = i
      BY <1>1, <1>3
    <2>2. [seed |-> s.seed, at |-> i] \in {[seed |-> s.seed, at |-> j] : j \in DOMAIN RowScores[s.seed]}
      BY <2>1
    <2>3. QED
      BY <1>1, <2>1, <2>2 DEF ScoredRows
  <1>5. SourceRows(s, 0, n) \in [1 .. n -> ScoredRows]
    BY <1>4 DEF SourceRows
  <1>6. QED
    BY <1>5

LEMMA NextChunk ==
    ASSUME NEW s \in Sources, NEW n, Whole(s, n), n < s.count,
           NEW chunk, chunk = Chunk(s, n \div ChunkRows)
    PROVE  /\ chunk \in Seq(ScoredRows)
           /\ SourceRows(s, 0, n) \o chunk = SourceRows(s, 0, n + Len(chunk))
           /\ Whole(s, n + Len(chunk))
  <1>1. s.seed \in Seeds /\ s.count \in Nat /\ ChunkRows \in Nat \ {0} /\ n \in Nat
    BY OracleAssumption DEF Whole
  <1>2. PICK i \in Nat : n = i * ChunkRows
    BY <1>1 DEF Whole
  <1>3. n \div ChunkRows = i
    BY <1>1, <1>2, SMT
  <1> DEFINE size == Least(ChunkRows, s.count - n)
  <1>4. chunk = SourceRows(s, n, size)
    BY <1>2, <1>3 DEF Chunk
  <1>5. /\ size \in Nat /\ n + size <= s.count
        /\ n + size = s.count \/ size = ChunkRows
    <2>1. n < s.count
      OBVIOUS
    <2>2. QED
      BY <1>1, <2>1 DEF Least
  <1> HIDE DEF size
  <1>6. (i + 1) * ChunkRows = n + ChunkRows
    BY <1>1, <1>2, SMT
  <1>7. Whole(s, n + size)
    <2>1. n + size = s.count \/ \E j \in Nat : n + size = j * ChunkRows
      <3>1. CASE size = ChunkRows
        <4>1. i + 1 \in Nat /\ n + size = (i + 1) * ChunkRows
          BY <1>6, <3>1
        <4>2. QED
          BY <4>1
      <3>2. QED
        BY <1>5, <3>1
    <2>2. n + size \in Nat
      BY <1>1, <1>5
    <2>3. QED
      BY <1>5, <2>1, <2>2 DEF Whole
  <1> DEFINE head == SourceRows(s, 0, n)
             all == SourceRows(s, 0, n + size)
  <1>8. /\ head \in Seq(ScoredRows) /\ Len(head) = n
        /\ all \in Seq(ScoredRows) /\ Len(all) = n + size
    <2>1. n + size \in Nat /\ n <= s.count
      BY <1>1, <1>5
    <2>2. QED
      BY <1>1, <1>5, <2>1, SourceRowsAre
  <1>9. \A j \in 1 .. size : chunk[j] = [seed |-> s.seed, at |-> n + j]
    BY <1>4 DEF SourceRows
  <1>10. \A j \in 1 .. n + size : all[j] = [seed |-> s.seed, at |-> 0 + j]
    BY DEF SourceRows
  <1>11. \A j \in 1 .. n : head[j] = [seed |-> s.seed, at |-> 0 + j]
    BY DEF SourceRows
  <1> HIDE DEF head, all
  <1>12. \A j \in 1 .. size : /\ n + j \in 1 .. n + size /\ 0 + (n + j) = n + j
                              /\ all[n + j] = chunk[j]
    <2>1. TAKE j \in 1 .. size
    <2>2. n + j \in 1 .. n + size /\ 0 + (n + j) = n + j
      BY <1>1, <1>5
    <2>3. all[n + j] = [seed |-> s.seed, at |-> 0 + (n + j)]
      BY <1>10, <2>2
    <2>4. QED
      BY <1>9, <2>2, <2>3
  <1>13. chunk \in Seq(ScoredRows) /\ Len(chunk) = size
    <2>1. \A j \in 1 .. size : chunk[j] \in ScoredRows
      <3>1. \A j \in 1 .. n + size : all[j] \in ScoredRows
        BY <1>8
      <3>2. QED
        BY <1>12, <3>1
    <2>2. chunk = [j \in 1 .. size |-> chunk[j]]
      BY <1>4 DEF SourceRows
    <2>3. chunk \in [1 .. size -> ScoredRows]
      BY <2>1, <2>2
    <2>4. QED
      BY <1>5, <2>3
  <1>14. head \o chunk = all
    <2> DEFINE joined == head \o chunk
    <2>1. /\ joined \in Seq(ScoredRows) /\ Len(joined) = n + size
          /\ \A j \in 1 .. n : joined[j] = head[j]
          /\ \A j \in n + 1 .. n + size : joined[j] = chunk[j - n]
      <3>1. head \in Seq(ScoredRows) /\ chunk \in Seq(ScoredRows)
        BY <1>8, <1>13
      <3>2. /\ joined \in Seq(ScoredRows) /\ Len(joined) = Len(head) + Len(chunk)
            /\ \A j \in 1 .. Len(head) : joined[j] = head[j]
            /\ \A j \in Len(head) + 1 .. Len(head) + Len(chunk) : joined[j] = chunk[j - Len(head)]
        BY <3>1
      <3> HIDE DEF joined
      <3>3. Len(head) = n /\ Len(chunk) = size
        BY <1>8, <1>13
      <3>4. QED
        BY <3>2, <3>3
    <2> HIDE DEF joined
    <2>2. ASSUME NEW j \in 1 .. n + size PROVE joined[j] = all[j]
      <3>1. CASE j \in 1 .. n
        BY <1>10, <1>11, <2>1, <3>1
      <3>2. CASE j \notin 1 .. n
        <4>1. j \in n + 1 .. n + size /\ j - n \in 1 .. size /\ n + (j - n) = j
          BY <1>1, <1>5, <3>2
        <4>2. all[n + (j - n)] = chunk[j - n]
          BY <1>12, <4>1
        <4>3. QED
          BY <2>1, <4>1, <4>2
      <3>3. QED
        BY <3>1, <3>2
    <2>3. joined = all
      BY <1>1, <1>5, <1>8, <2>1, <2>2, SeqEqual
    <2>4. QED
      BY <2>3 DEF joined
  <1>15. QED
    BY <1>7, <1>13, <1>14 DEF head, all

-----------------------------------------------------------------------------
(* The inductive invariant of the oracle, its files and the index. *)

\* The rows of the corpus asked for.
IsCorpus(s, rows) == rows = SourceRows(s, 0, s.count)

\* The exact rankings of these rows.
RanksOf(rankings, rows) == \A q \in 1 .. QueryCount : rankings[q] = ExactRanking(rows, q, Depth)

StreamInv ==
    /\ corpus \in Seq(ScoredRows) /\ Len(corpus) <= RowLimit
    /\ heaps = <<>> => corpus = <<>>
    /\ heaps # <<>> => QueryCount # 0 /\ depth \in Nat \ {0} /\ KeptOf(corpus)
    /\ source # Nobody =>
        /\ source \in Sources /\ depth = Depth /\ DOMAIN heaps = 1 .. QueryCount
        /\ Whole(source, Len(corpus)) /\ corpus = SourceRows(source, 0, Len(corpus))

ReferenceInv ==
    reference # Nothing =>
        /\ DOMAIN reference = {"source", "corpus", "queries", "k", "rows", "artifact", "rankings"}
        /\ reference.source \in Sources
        /\ IsCorpus(reference.source, reference.corpus)
        /\ RanksOf(reference.rankings, reference.corpus)

\* What the builder pushed is the start of its corpus, unless others pushed too.
BuilderInv ==
    /\ index.builder \in Sources
    /\ Whole(index.builder, index.total) /\ index.total <= Len(index.rows)
    /\ Len(index.rows) = index.total => index.rows = SourceRows(index.builder, 0, index.total)

IndexInv ==
    index # Nothing =>
        /\ DOMAIN index = {"rows", "generation", "builder", "total"}
        /\ index.rows \in Seq(ScoredRows) /\ index.generation \in Nat
        /\ index.builder # Nobody => sidecar = Nothing /\ BuilderInv

\* Who finds the CURRENT of the sidecar, and as many rows, finds the corpus.
SidecarInv ==
    sidecar # Nothing =>
        /\ index # Nothing /\ sidecar.source \in Sources
        /\ sidecar.current \in Nat /\ sidecar.current <= index.generation
        /\ sidecar.current = index.generation /\ Len(index.rows) = sidecar.source.count
              => IsCorpus(sidecar.source, index.rows)

MeasuredInv ==
    measured # Nothing =>
        /\ IsCorpus(measured.source, measured.rows)
        /\ RanksOf(measured.exact, measured.rows)

OracleInv == StreamInv /\ ReferenceInv /\ IndexInv /\ SidecarInv /\ MeasuredInv

LEMMA NothingYet ==
    /\ \A q : Listed(<<>>, q) = {}
    /\ \A s \in Sources : Whole(s, 0) /\ SourceRows(s, 0, 0) = <<>>
  <1>1. Len(<<>>) = 0 /\ 1 .. 0 = {}
    OBVIOUS
  <1>2. \A q : Listed(<<>>, q) = {}
    BY <1>1 DEF Listed
  <1>3. ASSUME NEW s \in Sources PROVE Whole(s, 0) /\ SourceRows(s, 0, 0) = <<>>
    <2>1. s.count \in Nat /\ ChunkRows \in Nat
      BY OracleAssumption
    <2>2. 0 = 0 * ChunkRows /\ 0 \in Nat /\ 0 <= s.count
      BY <2>1
    <2>3. Whole(s, 0)
      BY <2>2 DEF Whole
    <2>4. SourceRows(s, 0, 0) \in Seq(ScoredRows) /\ Len(SourceRows(s, 0, 0)) = 0
      BY <2>2, SourceRowsAre
    <2>5. QED
      BY <2>3, <2>4
  <1>4. QED
    BY <1>2, <1>3

LEMMA NewKeeps ==
    ASSUME StreamInv, NEW queries \in {0, QueryCount}, NEW limit \in Nat, NEW s,
           s = Nobody \/ (s \in Sources /\ queries = QueryCount /\ limit = Depth),
           NewOracle(queries, limit, s)
    PROVE  StreamInv'
  <1>1. /\ heaps = <<>> /\ corpus = <<>> /\ corpus' = <<>> /\ depth' = limit /\ source' = s
        /\ answer' = IF queries = 0 \/ limit = 0 THEN "InvalidOptions" ELSE "ok"
        /\ heaps' = IF answer' = "ok" THEN [q \in 1 .. queries |-> {}] ELSE heaps
    BY DEF NewOracle, StreamInv
  <1>2. QueryCount \in Nat /\ Depth \in Nat \ {0} /\ RowLimit \in Nat
    BY OracleAssumption, HarnessAssumption
  <1>3. corpus' \in Seq(ScoredRows) /\ Len(corpus') <= RowLimit
    BY <1>1, <1>2
  <1>4. CASE queries = 0 \/ limit = 0
    <2>1. heaps' = <<>>
      BY <1>1, <1>4
    <2>2. ASSUME s # Nobody
          PROVE  /\ s \in Sources /\ depth' = Depth /\ DOMAIN heaps' = 1 .. QueryCount
                 /\ Whole(s, Len(corpus')) /\ corpus' = SourceRows(s, 0, Len(corpus'))
      <3>1. s \in Sources /\ queries = QueryCount /\ limit = Depth
        BY <2>2
      <3>2. QueryCount = 0
        BY <1>2, <1>4, <3>1
      <3>3. DOMAIN heaps' = 1 .. QueryCount
        BY <2>1, <3>2
      <3>4. Len(corpus') = 0
        BY <1>1
      <3>5. QED
        BY <1>1, <3>1, <3>3, <3>4, NothingYet
    <2>3. QED
      BY <1>1, <1>3, <2>1, <2>2 DEF StreamInv
  <1>5. CASE ~ (queries = 0 \/ limit = 0)
    <2>1. /\ heaps' = [q \in 1 .. QueryCount |-> {}] /\ limit \in Nat \ {0}
          /\ queries = QueryCount /\ QueryCount # 0
      BY <1>1, <1>5
    <2>2. KeptOf(corpus)'
      <3>1. DOMAIN heaps' = 1 .. QueryCount /\ \A q \in 1 .. QueryCount : heaps'[q] = {}
        BY <2>1
      <3>2. \A q \in 1 .. QueryCount : Kept(Listed(corpus', q), heaps'[q], depth')
        BY <1>1, <2>1, <3>1, NothingYet, KeptOfItself
      <3>3. QED
        BY <3>1, <3>2 DEF KeptOf
    <2>3. ASSUME s # Nobody
          PROVE  /\ s \in Sources /\ depth' = Depth /\ DOMAIN heaps' = 1 .. QueryCount
                 /\ Whole(s, Len(corpus')) /\ corpus' = SourceRows(s, 0, Len(corpus'))
      <3>1. s \in Sources /\ queries = QueryCount /\ limit = Depth
        BY <2>3
      <3>2. DOMAIN heaps' = 1 .. QueryCount
        BY <2>1
      <3>3. Len(corpus') = 0
        BY <1>1
      <3>4. QED
        BY <1>1, <3>1, <3>2, <3>3, NothingYet
    <2>4. QED
      BY <1>1, <1>3, <2>1, <2>2, <2>3 DEF StreamInv
  <1>6. QED
    BY <1>4, <1>5

\* A chunk that is taken, or refused.
LEMMA ChunkKeeps ==
    ASSUME StreamInv, NEW chunk \in Seq(ScoredRows \cup {[seed |-> 0, at |-> 0]}), Extend(chunk),
           source # Nobody => /\ Len(corpus) < source.count
                              /\ chunk = Chunk(source, Len(corpus) \div ChunkRows)
    PROVE  StreamInv'
  <1>1. /\ heaps # <<>> /\ UNCHANGED <<source, depth>>
        /\ IF answer' = "ok" /\ chunk # <<>>
           THEN /\ \E order \in MergeOrders : heaps' = Extended(chunk, order)
                /\ corpus' = corpus \o chunk
           ELSE UNCHANGED <<corpus, heaps>>
        /\ answer' = "ok" => /\ ~ (Len(corpus) + Len(chunk) > RowLimit)
                             /\ Invalid \notin {chunk[i] : i \in DOMAIN chunk}
    BY DEF Extend
  <1>2. CASE ~ (answer' = "ok" /\ chunk # <<>>)
    <2>1. UNCHANGED <<source, depth, corpus, heaps>>
      BY <1>1, <1>2
    <2>2. QED
      BY <2>1 DEF StreamInv, KeptOf
  <1>3. CASE answer' = "ok" /\ chunk # <<>>
    <2>1. PICK order \in MergeOrders : heaps' = Extended(chunk, order)
      BY <1>1, <1>3
    <2>2. corpus' = corpus \o chunk
      BY <1>1, <1>3
    <2>3. /\ corpus \in Seq(ScoredRows) /\ depth \in Nat \ {0} /\ KeptOf(corpus)
      BY <1>1 DEF StreamInv
    <2>4. chunk \in Seq(ScoredRows)
      <3>1. \A i \in DOMAIN chunk : chunk[i] \in ScoredRows
        BY <1>1, <1>3 DEF Invalid
      <3>2. QED
        BY <3>1
    <2>5. Len(corpus) + Len(chunk) <= RowLimit
      <3>1. Len(corpus) + Len(chunk) \in Nat /\ RowLimit \in Nat
        BY <2>3, <2>4, OracleAssumption
      <3>2. QED
        BY <1>1, <1>3, <3>1
    <2>6. /\ DOMAIN heaps' = 1 .. QueryCount
          /\ \A q \in 1 .. QueryCount : Kept(Listed(corpus', q), heaps'[q], depth')
      <3>1. /\ DOMAIN Extended(chunk, order) = 1 .. QueryCount
            /\ \A q \in 1 .. QueryCount :
                  Kept(Listed(corpus \o chunk, q), Extended(chunk, order)[q], depth)
        BY <1>3, <2>3, <2>4, <2>5, ExtendKeeps
      <3>2. QED
        BY <1>1, <2>1, <2>2, <3>1
    <2>7. KeptOf(corpus)'
      BY <2>6 DEF KeptOf
    <2>8. corpus' \in Seq(ScoredRows) /\ Len(corpus') <= RowLimit /\ Len(corpus') = Len(corpus) + Len(chunk)
      BY <2>2, <2>3, <2>4, <2>5
    <2>9. ASSUME source # Nobody
          PROVE  Whole(source, Len(corpus')) /\ corpus' = SourceRows(source, 0, Len(corpus'))
      <3>1. /\ source \in Sources /\ Whole(source, Len(corpus)) /\ Len(corpus) < source.count
            /\ corpus = SourceRows(source, 0, Len(corpus))
            /\ chunk = Chunk(source, Len(corpus) \div ChunkRows)
        BY <2>9 DEF StreamInv
      <3>2. /\ SourceRows(source, 0, Len(corpus)) \o chunk = SourceRows(source, 0, Len(corpus) + Len(chunk))
            /\ Whole(source, Len(corpus) + Len(chunk))
        BY <3>1, NextChunk
      <3>3. corpus' = SourceRows(source, 0, Len(corpus) + Len(chunk))
        BY <2>2, <3>1, <3>2, Zenon
      <3>4. QED
        BY <2>8, <3>2, <3>3, Zenon
    <2>10. heaps' # <<>>
      <3>1. QueryCount # 0 /\ QueryCount \in Nat
        BY <1>1, HarnessAssumption DEF StreamInv
      <3>2. 1 \in DOMAIN heaps'
        BY <2>6, <3>1
      <3>3. QED
        BY <3>2
    <2>11. QED
      BY <1>1, <2>3, <2>6, <2>7, <2>8, <2>9, <2>10 DEF StreamInv
  <1>4. QED
    BY <1>2, <1>3

\* The oracle is not touched by what only uses the files and the index.
LEMMA StreamSame ==
    ASSUME UNCHANGED streamVars
    PROVE  StreamInv' = StreamInv
  BY DEF streamVars, StreamInv, KeptOf

LEMMA WriteKeeps == OracleInv /\ WriteReference => OracleInv'
  <1> SUFFICES ASSUME OracleInv, WriteReference PROVE OracleInv'
    OBVIOUS
  <1> DEFINE ranked == [q \in DOMAIN heaps |-> Ranking(heaps[q])]
             new == [source |-> source, corpus |-> corpus, queries |-> Len(heaps), k |-> depth,
                     rows |-> Len(corpus), artifact |-> ranked, rankings |-> ranked]
  <1>1. /\ source # Nobody /\ Len(corpus) = source.count
        /\ reference' = new
        /\ source' = Nobody /\ depth' = 0 /\ corpus' = <<>> /\ heaps' = <<>>
        /\ UNCHANGED <<index, sidecar, measured>>
    BY DEF WriteReference
  <1>2. /\ source \in Sources /\ depth = Depth /\ DOMAIN heaps = 1 .. QueryCount
        /\ corpus = SourceRows(source, 0, Len(corpus)) /\ corpus \in Seq(ScoredRows)
    BY <1>1 DEF OracleInv, StreamInv
  <1>3. StreamInv'
    <2>1. corpus' \in Seq(ScoredRows) /\ Len(corpus') <= RowLimit
      BY <1>1, OracleAssumption
    <2>2. QED
      BY <1>1, <2>1 DEF StreamInv
  <1>4. ReferenceInv'
    <2>1. ASSUME NEW q \in 1 .. QueryCount PROVE ranked[q] = ExactRanking(corpus, q, Depth)
      <3>1. heaps # <<>>
        <4>1. q \in DOMAIN heaps
          BY <1>2
        <4>2. QED
          BY <4>1
      <3>2. Kept(Listed(corpus, q), heaps[q], Depth)
        BY <1>2, <3>1 DEF OracleInv, StreamInv, KeptOf
      <3>3. ranked[q] = Ranking(heaps[q])
        BY <1>2
      <3>4. Depth \in Nat \ {0}
        BY OracleAssumption
      <3>5. Ranking(heaps[q]) = ExactRanking(corpus, q, Depth)
        BY <1>2, <3>2, <3>4, KeptIsExact
      <3>6. QED
        BY <3>3, <3>5
    <2> HIDE DEF ranked
    <2>2. /\ DOMAIN new = {"source", "corpus", "queries", "k", "rows", "artifact", "rankings"}
          /\ new.source = source /\ new.corpus = corpus /\ new.rankings = ranked
      OBVIOUS
    <2> HIDE DEF new
    <2>3. IsCorpus(source, corpus)
      BY <1>1, <1>2 DEF IsCorpus
    <2>4. RanksOf(ranked, corpus)
      BY <2>1 DEF RanksOf
    <2>5. QED
      BY <1>1, <1>2, <2>2, <2>3, <2>4 DEF ReferenceInv
  <1>5. IndexInv' /\ SidecarInv' /\ MeasuredInv'
    BY <1>1 DEF OracleInv, IndexInv, BuilderInv, SidecarInv, MeasuredInv
  <1>6. QED
    BY <1>3, <1>4, <1>5 DEF OracleInv

LEMMA LoseKeeps == OracleInv /\ LoseRanking => OracleInv'
  <1> SUFFICES ASSUME OracleInv, LoseRanking PROVE OracleInv'
    OBVIOUS
  <1>1. /\ reference # Nothing
        /\ reference' = [reference EXCEPT !.artifact[1] = <<>>]
        /\ UNCHANGED streamVars /\ UNCHANGED <<index, sidecar, measured>>
    BY DEF LoseRanking
  <1>2. DOMAIN reference = {"source", "corpus", "queries", "k", "rows", "artifact", "rankings"}
    BY <1>1 DEF OracleInv, ReferenceInv
  <1>3. /\ DOMAIN reference' = DOMAIN reference /\ reference'.source = reference.source
        /\ reference'.corpus = reference.corpus /\ reference'.rankings = reference.rankings
    BY <1>1, <1>2
  <1>4. ReferenceInv'
    BY <1>1, <1>2, <1>3 DEF OracleInv, ReferenceInv
  <1>5. StreamInv' /\ IndexInv' /\ SidecarInv' /\ MeasuredInv'
    BY <1>1, StreamSame DEF OracleInv, IndexInv, BuilderInv, SidecarInv, MeasuredInv
  <1>6. QED
    BY <1>4, <1>5 DEF OracleInv

-----------------------------------------------------------------------------
(* The index and its sidecar. *)

LEMMA StartBuildKeeps ==
    ASSUME OracleInv, NEW s \in Sources, StartBuild(s)
    PROVE  OracleInv'
  <1> DEFINE new == [rows |-> <<>>, generation |-> 0, builder |-> s, total |-> 0]
  <1>1. /\ index = Nothing /\ index' = new
        /\ UNCHANGED streamVars /\ UNCHANGED <<reference, sidecar, measured>>
    BY DEF StartBuild
  <1>2. sidecar = Nothing
    BY <1>1 DEF OracleInv, SidecarInv
  <1>3. /\ DOMAIN new = {"rows", "generation", "builder", "total"}
        /\ new.rows = <<>> /\ new.generation = 0 /\ new.builder = s /\ new.total = 0
    OBVIOUS
  <1> HIDE DEF new
  <1>4. /\ Whole(s, 0) /\ SourceRows(s, 0, 0) = <<>>
    BY NothingYet
  <1>5. BuilderInv'
    <2>1. Len(index'.rows) = 0 /\ index'.total = 0 /\ index'.builder = s /\ index'.rows = <<>>
      BY <1>1, <1>3
    <2>2. QED
      BY <1>4, <2>1 DEF BuilderInv
  <1>6. IndexInv'
    <2>1. index'.rows \in Seq(ScoredRows) /\ index'.generation \in Nat
      BY <1>1, <1>3
    <2>2. QED
      BY <1>1, <1>2, <1>3, <1>5, <2>1 DEF IndexInv
  <1>7. StreamInv' /\ ReferenceInv' /\ SidecarInv' /\ MeasuredInv'
    BY <1>1, <1>2, StreamSame DEF OracleInv, ReferenceInv, SidecarInv, MeasuredInv
  <1>8. QED
    BY <1>6, <1>7 DEF OracleInv

LEMMA IndexIs ==
    ASSUME OracleInv, index # Nothing
    PROVE  /\ DOMAIN index = {"rows", "generation", "builder", "total"}
           /\ index.rows \in Seq(ScoredRows) /\ index.generation \in Nat
           /\ Building => sidecar = Nothing /\ BuilderInv
  BY DEF OracleInv, IndexInv, Building

LEMMA StopKeeps == OracleInv /\ StopBuild => OracleInv'
  <1> SUFFICES ASSUME OracleInv, StopBuild PROVE OracleInv'
    OBVIOUS
  <1>1. /\ index # Nothing /\ Building /\ index' = [index EXCEPT !.builder = Nobody]
        /\ UNCHANGED streamVars /\ UNCHANGED <<reference, sidecar, measured>>
    BY DEF StopBuild, Building
  <1>2. /\ DOMAIN index = {"rows", "generation", "builder", "total"}
        /\ index.rows \in Seq(ScoredRows) /\ index.generation \in Nat /\ sidecar = Nothing
    BY <1>1, IndexIs
  <1>3. /\ DOMAIN index' = DOMAIN index /\ index'.rows = index.rows
        /\ index'.generation = index.generation /\ index'.builder = Nobody
    BY <1>1, <1>2
  <1>4. IndexInv' /\ SidecarInv'
    BY <1>1, <1>2, <1>3 DEF IndexInv, SidecarInv
  <1>5. StreamInv' /\ ReferenceInv' /\ MeasuredInv'
    BY <1>1, StreamSame DEF OracleInv, ReferenceInv, MeasuredInv
  <1>6. QED
    BY <1>4, <1>5 DEF OracleInv

LEMMA EndBuildKeeps == OracleInv /\ EndBuild => OracleInv'
  <1> SUFFICES ASSUME OracleInv, EndBuild PROVE OracleInv'
    OBVIOUS
  <1> DEFINE new == [source |-> index.builder, corpus |-> SourceRows(index.builder, 0, index.total),
                     current |-> index.generation]
  <1>1. /\ index # Nothing /\ Building /\ index' = [index EXCEPT !.builder = Nobody]
        /\ index.total = index.builder.count /\ sidecar' = new
        /\ UNCHANGED streamVars /\ UNCHANGED <<reference, measured>>
    BY DEF EndBuild, Building
  <1>2. /\ DOMAIN index = {"rows", "generation", "builder", "total"}
        /\ index.rows \in Seq(ScoredRows) /\ index.generation \in Nat /\ BuilderInv
    BY <1>1, IndexIs
  <1>3. /\ DOMAIN index' = DOMAIN index /\ index'.rows = index.rows
        /\ index'.generation = index.generation /\ index'.builder = Nobody
    BY <1>1, <1>2
  <1>4. new.source = index.builder /\ new.current = index.generation
    OBVIOUS
  <1> HIDE DEF new
  <1>5. IndexInv'
    BY <1>1, <1>2, <1>3 DEF IndexInv
  <1>6. index' # Nothing
    <2>1. DOMAIN Nothing = {"none"}
      BY DEF Nothing
    <2>2. "rows" \in DOMAIN index'
      BY <1>2, <1>3
    <2>3. "rows" # "none"
      OBVIOUS
    <2>4. QED
      BY <2>1, <2>2, <2>3
  <1>7. SidecarInv'
    <2>1. /\ sidecar'.source = index.builder /\ sidecar'.current = index.generation
          /\ index.builder \in Sources
      BY <1>1, <1>2, <1>4 DEF BuilderInv
    <2>2. Len(index.rows) = index.builder.count => IsCorpus(index.builder, index.rows)
      BY <1>1, <1>2 DEF BuilderInv, IsCorpus
    <2>3. index.generation <= index.generation
      BY <1>2
    <2>4. QED
      BY <1>2, <1>3, <1>6, <2>1, <2>2, <2>3 DEF SidecarInv
  <1>8. StreamInv' /\ ReferenceInv' /\ MeasuredInv'
    BY <1>1, StreamSame DEF OracleInv, ReferenceInv, MeasuredInv
  <1>9. QED
    BY <1>5, <1>7, <1>8 DEF OracleInv

\* The index has the four fields, so it is there.
LEMMA IsThere ==
    ASSUME NEW x, DOMAIN x = {"rows", "generation", "builder", "total"}
    PROVE  x # Nothing
  <1>1. DOMAIN Nothing = {"none"}
    BY DEF Nothing
  <1>2. "rows" \in DOMAIN x /\ "rows" # "none"
    OBVIOUS
  <1>3. QED
    BY <1>1, <1>2

LEMMA BuildChunkKeeps == OracleInv /\ BuildChunk => OracleInv'
  <1> SUFFICES ASSUME OracleInv, BuildChunk PROVE OracleInv'
    OBVIOUS
  <1> DEFINE chunk == Chunk(index.builder, index.total \div ChunkRows)
             pushed == [index EXCEPT !.generation = @ + 1, !.rows = @ \o chunk,
                                     !.total = @ + Len(chunk)]
  <1>1. /\ index # Nothing /\ Building /\ index.total < index.builder.count
        /\ UNCHANGED streamVars /\ UNCHANGED <<reference, sidecar, measured>>
    BY DEF BuildChunk, Building
  <1>2. index' = IF Len(index.rows) # index.total THEN [index EXCEPT !.builder = Nobody] ELSE pushed
    BY DEF BuildChunk
  <1>3. /\ DOMAIN index = {"rows", "generation", "builder", "total"}
        /\ index.rows \in Seq(ScoredRows) /\ index.generation \in Nat
        /\ sidecar = Nothing /\ BuilderInv
    BY <1>1, IndexIs
  <1>4. StreamInv' /\ ReferenceInv' /\ SidecarInv' /\ MeasuredInv'
    BY <1>1, <1>3, StreamSame DEF OracleInv, ReferenceInv, SidecarInv, MeasuredInv
  <1>5. CASE Len(index.rows) # index.total
    <2>1. index' = [index EXCEPT !.builder = Nobody]
      BY <1>2, <1>5
    <2>2. /\ DOMAIN index' = DOMAIN index /\ index'.rows = index.rows
          /\ index'.generation = index.generation /\ index'.builder = Nobody
      BY <1>3, <2>1
    <2>3. IndexInv'
      BY <1>3, <2>2 DEF IndexInv
    <2>4. QED
      BY <1>4, <2>3 DEF OracleInv
  <1>6. CASE Len(index.rows) = index.total
    <2>1. /\ index.builder \in Sources /\ Whole(index.builder, index.total)
          /\ index.rows = SourceRows(index.builder, 0, index.total)
      BY <1>3, <1>6 DEF BuilderInv
    <2>2. /\ chunk \in Seq(ScoredRows)
          /\ SourceRows(index.builder, 0, index.total) \o chunk
                 = SourceRows(index.builder, 0, index.total + Len(chunk))
          /\ Whole(index.builder, index.total + Len(chunk))
      BY <1>1, <2>1, NextChunk
    <2> HIDE DEF chunk
    <2>3. index' = pushed
      BY <1>2, <1>6
    <2>4. /\ DOMAIN index' = DOMAIN index /\ index'.rows = index.rows \o chunk
          /\ index'.generation = index.generation + 1 /\ index'.builder = index.builder
          /\ index'.total = index.total + Len(chunk)
      BY <1>3, <2>3
    <2> HIDE DEF pushed
    <2>5. /\ index'.rows = SourceRows(index'.builder, 0, index'.total)
          /\ Whole(index'.builder, index'.total)
      BY <2>1, <2>2, <2>4
    <2>6. /\ index'.rows \in Seq(ScoredRows) /\ index'.generation \in Nat
          /\ Len(index'.rows) = index'.total
      <3>1. /\ Len(index.rows \o chunk) = Len(index.rows) + Len(chunk)
            /\ index.rows \o chunk \in Seq(ScoredRows)
        BY <1>3, <2>2
      <3>2. QED
        BY <1>3, <1>6, <2>4, <3>1
    <2>7. index'.total <= Len(index'.rows)
      <3>1. Len(index'.rows) \in Nat
        BY <2>6
      <3>2. QED
        BY <2>6, <3>1
    <2>8. BuilderInv'
      BY <2>1, <2>4, <2>5, <2>7 DEF BuilderInv
    <2>9. IndexInv'
      BY <1>1, <1>3, <2>4, <2>6, <2>8 DEF IndexInv
    <2>10. QED
      BY <1>4, <2>9 DEF OracleInv
  <1>7. QED
    BY <1>5, <1>6

LEMMA FirstChunk ==
    ASSUME NEW s \in Sources
    PROVE  Chunk(s, 0) \in Seq(ScoredRows)
  <1>1. s.count \in Nat /\ ChunkRows \in Nat \ {0}
    BY OracleAssumption
  <1>2. CASE s.count = 0
    <2>1. 0 * ChunkRows = 0 /\ s.count - 0 * ChunkRows = 0
      BY <1>1, <1>2
    <2>2. Least(ChunkRows, s.count - 0 * ChunkRows) = 0
      BY <1>1, <2>1 DEF Least
    <2>3. Chunk(s, 0) = SourceRows(s, 0, 0)
      BY <2>1, <2>2 DEF Chunk
    <2>4. 0 \in Nat /\ 0 <= s.count
      BY <1>1
    <2>5. QED
      BY <2>3, <2>4, SourceRowsAre
  <1>3. CASE s.count # 0
    <2>1. 0 < s.count /\ 0 \div ChunkRows = 0
      BY <1>1, <1>3
    <2>2. Whole(s, 0)
      BY NothingYet
    <2> DEFINE first == Chunk(s, 0)
    <2>3. first = Chunk(s, 0 \div ChunkRows)
      BY <2>1
    <2>4. first \in Seq(ScoredRows)
      <3> HIDE DEF first
      <3>1. QED
        BY <2>1, <2>2, <2>3, NextChunk
    <2>5. QED
      BY <2>4
  <1>4. QED
    BY <1>2, <1>3

\* What others append names another CURRENT than the sidecar does.
LEMMA AppendElsewhereKeeps ==
    ASSUME OracleInv, NEW s \in Sources, AppendElsewhere(s)
    PROVE  OracleInv'
  <1> DEFINE chunk == Chunk(s, 0)
  <1>1. /\ index # Nothing
        /\ index' = [index EXCEPT !.generation = @ + 1, !.rows = @ \o chunk]
        /\ UNCHANGED streamVars /\ UNCHANGED <<reference, sidecar, measured>>
    BY DEF AppendElsewhere
  <1>2. /\ DOMAIN index = {"rows", "generation", "builder", "total"}
        /\ index.rows \in Seq(ScoredRows) /\ index.generation \in Nat
        /\ Building => sidecar = Nothing /\ BuilderInv
    BY <1>1, IndexIs
  <1>3. chunk \in Seq(ScoredRows)
    BY FirstChunk
  <1> HIDE DEF chunk
  <1>4. /\ DOMAIN index' = DOMAIN index /\ index'.rows = index.rows \o chunk
        /\ index'.generation = index.generation + 1 /\ index'.builder = index.builder
        /\ index'.total = index.total
    BY <1>1, <1>2
  <1>5. /\ Len(index.rows \o chunk) = Len(index.rows) + Len(chunk)
        /\ index.rows \o chunk \in Seq(ScoredRows)
        /\ Len(index.rows) \in Nat /\ Len(chunk) \in Nat
    BY <1>2, <1>3
  <1>6. index' # Nothing
    <2>1. DOMAIN index' = {"rows", "generation", "builder", "total"}
      BY <1>2, <1>4
    <2>2. QED
      BY <2>1, IsThere
  <1>7. ASSUME index'.builder # Nobody
        PROVE  sidecar' = Nothing /\ BuilderInv'
    <2>1. Building
      BY <1>1, <1>4, <1>7 DEF Building
    <2>2. sidecar' = Nothing /\ BuilderInv
      BY <1>1, <1>2, <2>1
    <2>3. Whole(index.builder, index.total) /\ index.total \in Nat /\ index.total <= Len(index.rows)
      BY <2>2 DEF BuilderInv, Whole
    <2>4. index'.total <= Len(index'.rows)
      BY <1>4, <1>5, <2>3
    <2>5. ASSUME Len(index'.rows) = index'.total
          PROVE  index'.rows = SourceRows(index'.builder, 0, index'.total)
      <3>1. Len(index.rows) = index.total /\ Len(chunk) = 0
        BY <1>4, <1>5, <2>3, <2>5
      <3>2. chunk = <<>>
        BY <1>3, <3>1
      <3>3. index.rows \o chunk = index.rows
        BY <1>2, <3>2
      <3>4. index.rows = SourceRows(index.builder, 0, index.total)
        BY <2>2, <3>1 DEF BuilderInv
      <3>5. QED
        BY <1>4, <3>3, <3>4
    <2>6. QED
      BY <1>4, <2>2, <2>4, <2>5 DEF BuilderInv
  <1>8. IndexInv'
    <2>1. index'.rows \in Seq(ScoredRows) /\ index'.generation \in Nat
      BY <1>2, <1>4, <1>5
    <2>2. QED
      BY <1>2, <1>4, <1>7, <2>1 DEF IndexInv
  <1>9. SidecarInv'
    <2>1. ASSUME sidecar # Nothing
          PROVE  /\ sidecar.source \in Sources /\ sidecar.current \in Nat
                 /\ sidecar.current <= index'.generation /\ sidecar.current # index'.generation
      <3>1. /\ sidecar.source \in Sources /\ sidecar.current \in Nat
            /\ sidecar.current <= index.generation
        BY <2>1 DEF OracleInv, SidecarInv
      <3>2. QED
        BY <1>2, <1>4, <3>1
    <2>2. QED
      BY <1>1, <1>6, <2>1 DEF SidecarInv
  <1>10. StreamInv' /\ ReferenceInv' /\ MeasuredInv'
    BY <1>1, StreamSame DEF OracleInv, ReferenceInv, MeasuredInv
  <1>11. QED
    BY <1>8, <1>9, <1>10 DEF OracleInv

\* The index that is measured has the rows that were ranked.
LEMMA MeasureKeeps ==
    ASSUME OracleInv, NEW s \in Sources, MeasureQuality(s)
    PROVE  OracleInv'
  <1> DEFINE new == [rows |-> index.rows, source |-> s, exact |-> reference.artifact]
  <1>1. /\ reference # Nothing /\ reference.source = s
        /\ reference.artifact = reference.rankings
        /\ sidecar # Nothing /\ sidecar.source = s /\ sidecar.current = index.generation
        /\ Len(index.rows) = s.count
        /\ measured' = new
        /\ UNCHANGED streamVars /\ UNCHANGED <<reference, index, sidecar>>
    BY DEF MeasureQuality, PinnedOracle, BuiltFor
  <1>2. new.rows = index.rows /\ new.source = s /\ new.exact = reference.artifact
    OBVIOUS
  <1> HIDE DEF new
  <1>3. IsCorpus(s, index.rows)
    BY <1>1 DEF OracleInv, SidecarInv
  <1>4. IsCorpus(s, reference.corpus) /\ RanksOf(reference.rankings, reference.corpus)
    BY <1>1 DEF OracleInv, ReferenceInv
  <1>5. RanksOf(reference.artifact, index.rows)
    <2>1. index.rows = reference.corpus
      BY <1>3, <1>4 DEF IsCorpus
    <2>2. QED
      BY <1>1, <1>4, <2>1
  <1>6. MeasuredInv'
    BY <1>1, <1>2, <1>3, <1>5 DEF MeasuredInv, IsCorpus, RanksOf
  <1>7. StreamInv' /\ ReferenceInv' /\ IndexInv' /\ SidecarInv'
    BY <1>1, StreamSame DEF OracleInv, ReferenceInv, IndexInv, BuilderInv, SidecarInv
  <1>8. QED
    BY <1>6, <1>7 DEF OracleInv

-----------------------------------------------------------------------------
(* The programs of the package. *)

LEMMA OracleStarts == OracleInit => OracleInv
  <1> SUFFICES ASSUME OracleInit PROVE OracleInv
    OBVIOUS
  <1>1. corpus = <<>> /\ <<>> \in Seq(ScoredRows) /\ Len(<<>>) = 0
    BY DEF OracleInit
  <1>2. 0 <= RowLimit
    BY OracleAssumption
  <1>3. StreamInv
    BY <1>1, <1>2 DEF OracleInit, StreamInv
  <1>4. QED
    BY <1>3 DEF OracleInit, OracleInv, ReferenceInv, IndexInv, SidecarInv, MeasuredInv

\* Nothing but the stream changes in the oracle.
LEMMA StreamOnly ==
    ASSUME OracleInv, StreamInv', UNCHANGED fileVars
    PROVE  OracleInv'
  BY DEF OracleInv, fileVars, ReferenceInv, IndexInv, BuilderInv, SidecarInv, MeasuredInv

LEMMA CallerKeeps == OracleInv /\ CallerNext => OracleInv'
  <1> SUFFICES ASSUME OracleInv, CallerNext PROVE OracleInv'
    OBVIOUS
  <1>1. StreamInv
    BY DEF OracleInv
  <1>2. ASSUME NEW queries \in {0, QueryCount}, NEW limit \in CallerDepths,
               NewOracle(queries, limit, Nobody)
        PROVE  OracleInv'
    <2>1. limit \in Nat
      BY OracleAssumption
    <2>2. StreamInv'
      BY <1>1, <1>2, <2>1, NewKeeps
    <2>3. UNCHANGED fileVars
      BY <1>2 DEF NewOracle, fileVars
    <2>4. QED
      BY <2>2, <2>3, StreamOnly
  <1>3. ASSUME CallerExtends PROVE OracleInv'
    <2>1. source = Nobody
      BY <1>3 DEF CallerExtends
    <2>2. PICK chunk \in CallerChunks : Extend(chunk)
      BY <1>3 DEF CallerExtends
    <2>3. chunk \in Seq(ScoredRows \cup {[seed |-> 0, at |-> 0]})
      BY OracleAssumption
    <2>4. StreamInv'
      BY <1>1, <2>1, <2>2, <2>3, ChunkKeeps
    <2>5. UNCHANGED fileVars
      BY <2>2 DEF Extend, fileVars
    <2>6. QED
      BY <2>4, <2>5, StreamOnly
  <1>4. QED
    BY <1>2, <1>3 DEF CallerNext

LEMMA StreamChunkKeeps == OracleInv /\ StreamChunk => OracleInv'
  <1> SUFFICES ASSUME OracleInv, StreamChunk PROVE OracleInv'
    OBVIOUS
  <1> DEFINE chunk == Chunk(source, Len(corpus) \div ChunkRows)
  <1>1. StreamInv
    BY DEF OracleInv
  <1>2. source # Nobody /\ Len(corpus) < source.count /\ Extend(chunk)
    BY DEF StreamChunk
  <1>3. source \in Sources /\ Whole(source, Len(corpus))
    BY <1>1, <1>2 DEF StreamInv
  <1>4. UNCHANGED fileVars
    BY <1>2 DEF Extend, fileVars
  <1>5. chunk = Chunk(source, Len(corpus) \div ChunkRows)
    OBVIOUS
  <1> HIDE DEF chunk
  <1>6. chunk \in Seq(ScoredRows)
    BY <1>2, <1>3, <1>5, NextChunk
  <1>7. chunk \in Seq(ScoredRows \cup {[seed |-> 0, at |-> 0]})
    BY <1>6
  <1>8. StreamInv'
    BY <1>1, <1>2, <1>5, <1>7, ChunkKeeps
  <1>9. QED
    BY <1>4, <1>8, StreamOnly

LEMMA CommandKeeps == OracleInv /\ CommandNext => OracleInv'
  <1> SUFFICES ASSUME OracleInv, CommandNext PROVE OracleInv'
    OBVIOUS
  <1>1. ASSUME NEW s \in Sources, NewOracle(QueryCount, Depth, s) PROVE OracleInv'
    <2>1. StreamInv /\ Depth \in Nat
      BY OracleAssumption DEF OracleInv
    <2>2. StreamInv'
      BY <1>1, <2>1, NewKeeps
    <2>3. UNCHANGED fileVars
      BY <1>1 DEF NewOracle, fileVars
    <2>4. QED
      BY <2>2, <2>3, StreamOnly
  <1>2. CASE StreamChunk
    BY <1>2, StreamChunkKeeps
  <1>3. CASE WriteReference
    BY <1>3, WriteKeeps
  <1>4. CASE LoseRanking
    BY <1>4, LoseKeeps
  <1>5. ASSUME NEW s \in Sources, StartBuild(s) \/ AppendElsewhere(s) \/ MeasureQuality(s)
        PROVE  OracleInv'
    BY <1>5, StartBuildKeeps, AppendElsewhereKeeps, MeasureKeeps
  <1>6. CASE BuildChunk
    BY <1>6, BuildChunkKeeps
  <1>7. CASE EndBuild
    BY <1>7, EndBuildKeeps
  <1>8. CASE StopBuild
    BY <1>8, StopKeeps
  <1>9. QED
    BY <1>1, <1>2, <1>3, <1>4, <1>5, <1>6, <1>7, <1>8 DEF CommandNext

LEMMA OracleSame ==
    ASSUME UNCHANGED oracleVars
    PROVE  OracleInv' = OracleInv
  BY DEF oracleVars, OracleInv, StreamInv, KeptOf, ReferenceInv, IndexInv, BuilderInv,
         SidecarInv, MeasuredInv

LEMMA PackageKeeps == OracleInv /\ [PackageNext]_packageVars => OracleInv'
  <1> SUFFICES ASSUME OracleInv, [PackageNext]_packageVars PROVE OracleInv'
    OBVIOUS
  <1>1. CASE UNCHANGED oracleVars
    BY <1>1, OracleSame
  <1>2. CASE CommandNext
    BY <1>2, CommandKeeps
  <1>3. CASE CallerNext
    BY <1>3, CallerKeeps
  <1>4. QED
    BY <1>1, <1>2, <1>3 DEF PackageNext, packageVars

LEMMA OracleInvExact == OracleInv => ExactReference
  <1> SUFFICES ASSUME OracleInv PROVE ExactReference
    OBVIOUS
  <1>1. ASSUME NEW q \in DOMAIN heaps
        PROVE  Ranking(heaps[q]) = ExactRanking(corpus, q, depth)
    <2>1. heaps # <<>>
      BY <1>1
    <2>2. corpus \in Seq(ScoredRows) /\ depth \in Nat \ {0} /\ KeptOf(corpus)
      BY <2>1 DEF OracleInv, StreamInv
    <2>3. q \in 1 .. QueryCount /\ Kept(Listed(corpus, q), heaps[q], depth)
      BY <1>1, <2>2 DEF KeptOf
    <2>4. QED
      BY <2>2, <2>3, KeptIsExact
  <1>2. MeasuredInv
    BY DEF OracleInv
  <1>3. QED
    BY <1>1, <1>2 DEF ExactReference, MeasuredInv, IsCorpus, RanksOf

\* Whatever the order, the chunks, the threads and the merges: the heaps of the
\* streaming oracle rank as the exact oracle does, and the index command compares
\* an index with the exact ranking of its own rows (oracle_stream.rs:95-196,
\* local_index.rs:70-330, index_quality.rs:90-260).
THEOREM StreamedIsExact == PackageSpec => []ExactReference
  <1>1. PackageInit => OracleInv
    BY OracleStarts DEF PackageInit
  <1>2. OracleInv /\ [PackageNext]_packageVars => OracleInv'
    BY PackageKeeps
  <1>3. OracleInv => ExactReference
    BY OracleInvExact
  <1>4. QED
    BY <1>1, <1>2, <1>3, PTL DEF PackageSpec

\* In whatever order the programs of the package run, the harness takes only its
\* own steps, so that what is proved of Spec holds of the package (main.rs:55-75).
THEOREM PackageMeasures == PackageSpec => Spec
  <1>1. PackageInit => Init
    BY DEF PackageInit
  <1>2. [PackageNext]_packageVars => [Next]_vars
    BY DEF PackageNext, packageVars
  <1>3. QED
    BY <1>1, <1>2, PTL DEF PackageSpec, Spec

-------------------------------------------------------------------------------
(* Powers of two and the spacing of floating-point numbers: recursive          *)
(* functions over the naturals that double the value found for a smaller one.  *)

\* doubles is, up to i, 1 on the base and elsewhere twice its value before.
Doubling(doubles, base, before, i) ==
    /\ doubles \in [0..i -> Nat]
    /\ \A n \in 0..i : doubles[n] = IF n \in base THEN 1 ELSE 2 * doubles[before[n]]

\* What a number doubles is smaller, unless it is in the base.
GoesDown(base, before) ==
    /\ before \in [Nat -> Nat]
    /\ \A n \in Nat : n \in base \/ before[n] < n

\* Up to any number there is such a function.
LEMMA DoublingStarts ==
    ASSUME NEW base, NEW before, GoesDown(base, before), NEW t \in Nat
    PROVE  \E doubles : Doubling(doubles, base, before, t)
  <1> DEFINE Wrong == {i \in Nat : ~ \E doubles : Doubling(doubles, base, before, i)}
  <1>1. SUFFICES ASSUME Wrong # {} PROVE FALSE
    OBVIOUS
  <1>2. PICK m \in Wrong : \A y \in Wrong : ~ (y < m)
    BY <1>1, FirstNatural
  <1>3. CASE m = 0
    <2>1. 0 \in base
      BY SMT DEF GoesDown
    <2>2. Doubling([n \in 0..0 |-> 1], base, before, 0)
      BY <2>1, SMT DEF Doubling
    <2>3. QED
      BY <1>2, <1>3, <2>2
  <1>4. CASE m # 0
    <2>1. m \in Nat /\ m - 1 \in Nat /\ m - 1 < m
      BY <1>2, <1>4, SMT
    <2>2. PICK small : Doubling(small, base, before, m - 1)
      BY <1>2, <2>1
    <2>3. small \in [0..(m - 1) -> Nat]
      BY <2>2 DEF Doubling
    <2>4. m \in base \/ before[m] \in 0..(m - 1)
      BY <2>1, SMT DEF GoesDown
    <2> DEFINE last == IF m \in base THEN 1 ELSE 2 * small[before[m]]
               larger == [n \in 0..m |-> IF n = m THEN last ELSE small[n]]
    <2>5. last \in Nat
      BY <2>3, <2>4, SMT
    <2>6. \A n \in 0..m : n # m => n \in 0..(m - 1)
      BY <2>1, SMT
    <2>7. \A n \in 0..(m - 1) : n \in 0..m /\ n # m
      BY <2>1, SMT
    <2>8. larger \in [0..m -> Nat]
      BY <2>3, <2>5, <2>6
    <2>9. \A n \in 0..(m - 1) : larger[n] = small[n]
      BY <2>7
    <2>10. ASSUME NEW n \in 0..m
           PROVE  larger[n] = IF n \in base THEN 1 ELSE 2 * larger[before[n]]
      <3>1. CASE n = m
        BY <2>4, <2>9, <3>1
      <3>2. CASE n # m
        <4>1. n \in 0..(m - 1)
          BY <2>6, <3>2
        <4>2. n \in base \/ before[n] \in 0..(m - 1)
          BY <2>1, <4>1, SMT DEF GoesDown
        <4>3. small[n] = IF n \in base THEN 1 ELSE 2 * small[before[n]]
          BY <2>2, <4>1 DEF Doubling
        <4>4. QED
          BY <2>9, <4>1, <4>2, <4>3
      <3>3. QED
        BY <3>1, <3>2
    <2> HIDE DEF larger, last
    <2>11. Doubling(larger, base, before, m)
      BY <2>8, <2>10 DEF Doubling
    <2>12. QED
      BY <1>2, <2>11
  <1>5. QED
    BY <1>3, <1>4

\* And two of them agree where both are defined.
LEMMA DoublingAgrees ==
    ASSUME NEW base, NEW before, GoesDown(base, before), NEW t \in Nat, NEW l \in Nat,
           NEW f, Doubling(f, base, before, t), NEW g, Doubling(g, base, before, l),
           NEW n \in 0..t, n \in 0..l
    PROVE  f[n] = g[n]
  <1> DEFINE Wrong == {i \in 0..t : i \in 0..l /\ f[i] # g[i]}
  <1>1. SUFFICES ASSUME Wrong # {} PROVE FALSE
    OBVIOUS
  <1>2. Wrong \subseteq Nat
    BY SMT
  <1>3. PICK m \in Wrong : \A y \in Wrong : ~ (y < m)
    BY <1>1, <1>2, FirstNatural
  <1>4. m \in 0..t /\ m \in 0..l /\ f[m] # g[m]
    BY <1>3
  <1>5. /\ f[m] = IF m \in base THEN 1 ELSE 2 * f[before[m]]
        /\ g[m] = IF m \in base THEN 1 ELSE 2 * g[before[m]]
    BY <1>4 DEF Doubling
  <1>6. m \notin base
    BY <1>4, <1>5
  <1>7. before[m] \in 0..t /\ before[m] \in 0..l /\ before[m] < m
    BY <1>4, <1>6, SMT DEF GoesDown
  <1>8. before[m] \notin Wrong
    BY <1>3, <1>7
  <1>9. f[before[m]] = g[before[m]]
    BY <1>7, <1>8
  <1>10. QED
    BY <1>4, <1>5, <1>6, <1>9

\* Such a recursion has a solution over all naturals.
LEMMA DoublingSolved ==
    ASSUME NEW base, NEW before, GoesDown(base, before)
    PROVE  \E f \in [Nat -> Nat] :
              f = [n \in Nat |-> IF n \in base THEN 1 ELSE 2 * f[before[n]]]
  <1> DEFINE upTo(n) == CHOOSE doubles : Doubling(doubles, base, before, n)
             f == [n \in Nat |-> upTo(n)[n]]
  <1>1. \A n \in Nat : Doubling(upTo(n), base, before, n)
    BY DoublingStarts
  <1> HIDE DEF upTo
  <1>2. ASSUME NEW n \in Nat
        PROVE  /\ upTo(n)[n] \in Nat
               /\ upTo(n)[n] = IF n \in base THEN 1 ELSE 2 * upTo(n)[before[n]]
               /\ n \in base \/ before[n] \in 0..n
    <2>1. n \in 0..n
      BY SMT
    <2>2. n \in base \/ before[n] \in 0..n
      BY SMT DEF GoesDown
    <2>3. Doubling(upTo(n), base, before, n)
      BY <1>1
    <2>4. QED
      BY <2>1, <2>2, <2>3 DEF Doubling
  <1>3. f \in [Nat -> Nat]
    BY <1>2
  <1>4. ASSUME NEW n \in Nat, n \notin base
        PROVE  upTo(n)[before[n]] = f[before[n]]
    <2>1. before[n] \in 0..n /\ before[n] \in Nat /\ before[n] \in 0..before[n]
      BY <1>2, <1>4, SMT
    <2> DEFINE b == before[n]
    <2>2. b \in 0..n /\ b \in Nat /\ b \in 0..b
      BY <2>1
    <2> HIDE DEF b
    <2>3. Doubling(upTo(n), base, before, n) /\ Doubling(upTo(b), base, before, b)
      BY <1>1, <2>2
    <2>4. upTo(n)[b] = upTo(b)[b]
      BY <2>2, <2>3, DoublingAgrees
    <2>5. QED
      BY <2>2, <2>4 DEF b
  <1>5. ASSUME NEW n \in Nat
        PROVE  f[n] = IF n \in base THEN 1 ELSE 2 * f[before[n]]
    <2>1. f[n] = IF n \in base THEN 1 ELSE 2 * upTo(n)[before[n]]
      BY <1>2
    <2> HIDE DEF f
    <2>2. QED
      BY <1>4, <2>1
  <1> HIDE DEF f
  <1>6. f = [n \in Nat |-> IF n \in base THEN 1 ELSE 2 * f[before[n]]]
    BY <1>3, <1>5
  <1>7. QED
    BY <1>3, <1>6

\* The powers of two are naturals and double from one to the next.
LEMMA Powers ==
    /\ PowerOf2 \in [Nat -> Nat]
    /\ PowerOf2[0] = 1
    /\ \A n \in Nat : PowerOf2[n + 1] = 2 * PowerOf2[n]
    /\ \A n \in Nat : PowerOf2[n] >= 1
  <1> DEFINE base == {0}
             before == [n \in Nat |-> IF n = 0 THEN 0 ELSE n - 1]
  <1>1. GoesDown(base, before)
    BY SMT DEF GoesDown
  <1>2. PICK f \in [Nat -> Nat] : f = [n \in Nat |-> IF n \in base THEN 1 ELSE 2 * f[before[n]]]
    BY <1>1, DoublingSolved
  <1>3. \A n \in Nat : n # 0 => before[n] = n - 1
    OBVIOUS
  <1>4. f = [n \in Nat |-> IF n = 0 THEN 1 ELSE 2 * f[n - 1]]
    <2>1. \A n \in Nat : f[n] = IF n = 0 THEN 1 ELSE 2 * f[n - 1]
      BY <1>2, <1>3
    <2>2. QED
      BY <2>1, <1>2
  <1>5. PowerOf2 = CHOOSE g : g = [n \in Nat |-> IF n = 0 THEN 1 ELSE 2 * g[n - 1]]
    BY Zenon DEF PowerOf2
  <1> DEFINE P == PowerOf2
  <1>6. P = [n \in Nat |-> IF n = 0 THEN 1 ELSE 2 * P[n - 1]]
    BY <1>4, <1>5
  <1> HIDE DEF P
  <1>7. \A n \in Nat : P[n] = IF n = 0 THEN 1 ELSE 2 * P[n - 1]
    BY <1>6
  <1>8. \A n \in Nat : P[n] \in Nat /\ P[n] >= 1
    <2> DEFINE Wrong == {n \in Nat : ~ (P[n] \in Nat /\ P[n] >= 1)}
    <2>1. SUFFICES ASSUME Wrong # {} PROVE FALSE
      OBVIOUS
    <2>2. PICK m \in Wrong : \A y \in Wrong : ~ (y < m)
      BY <2>1, FirstNatural
    <2>3. m # 0
      BY <1>7, <2>2, SMT
    <2>4. m - 1 \in Nat /\ m - 1 < m
      BY <2>2, <2>3, SMT
    <2>5. P[m - 1] \in Nat /\ P[m - 1] >= 1
      BY <2>2, <2>4
    <2>6. P[m] = 2 * P[m - 1]
      BY <1>7, <2>2, <2>3
    <2>7. QED
      BY <2>2, <2>5, <2>6, SMT
  <1>9. \A n \in Nat : n + 1 \in Nat /\ n + 1 # 0 /\ (n + 1) - 1 = n
    BY SMT
  <1>10. P \in [Nat -> Nat]
    BY <1>6, <1>8
  <1>11. QED
    BY <1>7, <1>8, <1>9, <1>10 DEF P

\* There are at least four significands, an even number of them.
LEMMA SignificandsEven ==
    /\ Significands \in Nat /\ Significands >= 4
    /\ Significands \div 2 \in Nat /\ Significands = 2 * (Significands \div 2)
  <1>1. Precision - 2 \in Nat /\ Precision - 1 \in Nat
        /\ Precision - 1 = (Precision - 2) + 1 /\ Precision = (Precision - 1) + 1
    BY CertificateAssumption, SMT
  <1>2. PowerOf2[Precision] = 2 * (2 * PowerOf2[Precision - 2]) /\ PowerOf2[Precision - 2] >= 1
        /\ PowerOf2[Precision - 2] \in Nat
    BY <1>1, Powers
  <1>3. QED
    BY <1>2, SMT DEF Significands

\* The recursion of the spacing.
LEMMA SpacingIs ==
    /\ Spacing \in [Nat -> Nat]
    /\ \A n \in Nat : Spacing[n] = IF n < Significands THEN 1 ELSE 2 * Spacing[n \div 2]
  <1> DEFINE S == Significands
             base == {n \in Nat : n < S}
             before == [n \in Nat |-> n \div 2]
  <1>1. S \in Nat /\ S >= 4
    BY SignificandsEven
  <1>2. Spacing = CHOOSE g : g = [n \in Nat |-> IF n < S THEN 1 ELSE 2 * g[n \div 2]]
    BY Zenon DEF Spacing
  <1> HIDE DEF S
  <1>3. GoesDown(base, before)
    BY <1>1, SMT DEF GoesDown
  <1>4. PICK f \in [Nat -> Nat] : f = [n \in Nat |-> IF n \in base THEN 1 ELSE 2 * f[before[n]]]
    BY <1>3, DoublingSolved
  <1>5. \A n \in Nat : f[n] = IF n < S THEN 1 ELSE 2 * f[n \div 2]
    BY <1>4
  <1>6. f = [n \in Nat |-> IF n < S THEN 1 ELSE 2 * f[n \div 2]]
    BY <1>4, <1>5
  <1> DEFINE P == Spacing
  <1>7. P = [n \in Nat |-> IF n < S THEN 1 ELSE 2 * P[n \div 2]]
    BY <1>2, <1>6
  <1> HIDE DEF P
  <1>8. \A n \in Nat : P[n] = IF n < S THEN 1 ELSE 2 * P[n \div 2]
    BY <1>7
  <1>9. \A n \in Nat : P[n] \in Nat
    <2> DEFINE Wrong == {n \in Nat : P[n] \notin Nat}
    <2>1. SUFFICES ASSUME Wrong # {} PROVE FALSE
      OBVIOUS
    <2>2. PICK m \in Wrong : \A y \in Wrong : ~ (y < m)
      BY <2>1, FirstNatural
    <2>3. m \in Nat /\ P[m] \notin Nat
      BY <2>2
    <2>4. ~ (m < S)
      BY <1>8, <2>3
    <2>5. m \div 2 \in Nat /\ m \div 2 < m
      BY <1>1, <2>3, <2>4, SMT
    <2>6. P[m \div 2] \in Nat
      BY <2>2, <2>5
    <2>7. P[m] = 2 * P[m \div 2]
      BY <1>8, <2>3, <2>4
    <2>8. QED
      BY <2>3, <2>6, <2>7, SMT
  <1>10. P \in [Nat -> Nat]
    BY <1>7, <1>9
  <1>11. QED
    BY <1>8, <1>10 DEF P, S

-------------------------------------------------------------------------------
(* The spacing of floating-point numbers.                                      *)

\* A number has at most as many units of its spacing as there are significands,
\* and at least half as many unless the spacing is 1.
LEMMA SpacingBounds ==
    ASSUME NEW n \in Nat
    PROVE  /\ Spacing[n] \in Nat /\ Spacing[n] >= 1
           /\ n < Significands * Spacing[n]
           /\ Spacing[n] = 1 \/ (Significands \div 2) * Spacing[n] <= n
  <1> DEFINE S == Significands
             H == Significands \div 2
             U == Spacing
  <1>1. S \in Nat /\ H \in Nat /\ S = 2 * H /\ H >= 2
    BY SignificandsEven, SMT
  <1>2. /\ U \in [Nat -> Nat]
        /\ \A i \in Nat : U[i] = IF i < S THEN 1 ELSE 2 * U[i \div 2]
    BY SpacingIs
  <1> HIDE DEF S, H, U
  <1> DEFINE Right(i) == U[i] >= 1 /\ i < S * U[i] /\ (U[i] = 1 \/ H * U[i] <= i)
             Wrong == {i \in Nat : ~ Right(i)}
  <1>3. Wrong = {}
    <2>1. SUFFICES ASSUME Wrong # {} PROVE FALSE
      OBVIOUS
    <2>2. PICK m \in Wrong : \A y \in Wrong : ~ (y < m)
      BY <2>1, FirstNatural
    <2>3. m \in Nat /\ ~ Right(m)
      BY <2>2
    <2>4. CASE m < S
      <3>1. U[m] = 1
        BY <1>2, <2>3, <2>4
      <3>2. QED
        BY <1>1, <2>3, <2>4, <3>1, SMT
    <2>5. CASE ~ (m < S)
      <3> DEFINE half == m \div 2
      <3>1. half \in Nat /\ half < m /\ 2 * half <= m /\ m <= 2 * half + 1 /\ H <= half
        BY <1>1, <2>3, <2>5, SMT
      <3>2. U[m] = 2 * U[half]
        BY <1>2, <2>3, <2>5
      <3> HIDE DEF half
      <3>3. Right(half)
        BY <2>2, <3>1
      <3>4. U[half] \in Nat
        BY <1>2, <3>1
      <3> DEFINE u == U[half]
      <3>5. u \in Nat /\ u >= 1 /\ half < S * u /\ (u = 1 \/ H * u <= half)
        BY <3>3, <3>4
      <3>6. U[m] = 2 * u
        BY <3>2
      <3> HIDE DEF u
      <3>7. H * u <= half
        BY <1>1, <3>1, <3>5, SMT
      <3>8. m < S * (2 * u) /\ H * (2 * u) <= m /\ 2 * u >= 1
        <4> DEFINE Su == S * u
                   Hu == H * u
        <4>1. S * (2 * u) = 2 * Su /\ H * (2 * u) = 2 * Hu /\ Su \in Int /\ Hu \in Int
          BY <1>1, <3>5, SMT
        <4>2. half < Su /\ Hu <= half
          BY <3>5, <3>7
        <4> HIDE DEF Su, Hu
        <4>3. QED
          BY <2>3, <3>1, <3>5, <4>1, <4>2, SMT
      <3>9. QED
        BY <2>3, <3>6, <3>8
    <2>6. QED
      BY <2>4, <2>5
  <1>4. Right(n) /\ U[n] \in Nat
    BY <1>2, <1>3
  <1>5. QED
    BY <1>4 DEF S, H, U

\* The spacing of a number is a multiple of the spacing of a smaller one.
LEMMA SpacingDivides ==
    ASSUME NEW n \in Nat, NEW m \in Nat, m <= n
    PROVE  \E t \in Nat : t >= 1 /\ Spacing[n] = t * Spacing[m]
  <1> DEFINE S == Significands
             U == Spacing
  <1>1. S \in Nat /\ S >= 4
    BY SignificandsEven
  <1>2. \A t \in Nat : U[t] = IF t < S THEN 1 ELSE 2 * U[t \div 2]
    BY SpacingIs
  <1>3. \A t \in Nat : U[t] \in Nat /\ U[t] >= 1
    BY SpacingBounds
  <1> HIDE DEF S, U
  <1> DEFINE Right(i) == \A j \in 0..i : \E t \in Nat : t >= 1 /\ U[i] = t * U[j]
             Wrong == {i \in Nat : ~ Right(i)}
  <1>4. Wrong = {}
    <2>1. SUFFICES ASSUME Wrong # {} PROVE FALSE
      OBVIOUS
    <2>2. PICK i \in Wrong : \A y \in Wrong : ~ (y < i)
      BY <2>1, FirstNatural
    <2>3. PICK j \in 0..i : ~ \E t \in Nat : t >= 1 /\ U[i] = t * U[j]
      BY <2>2
    <2>4. i \in Nat /\ j \in Nat /\ j <= i
      BY <2>2, <2>3, SMT
    <2>5. CASE j < S
      <3>1. U[j] = 1 /\ U[i] \in Nat /\ U[i] >= 1
        BY <1>2, <1>3, <2>4, <2>5
      <3>2. U[i] = U[i] * U[j]
        BY <3>1, SMT
      <3>3. QED
        BY <2>3, <3>1, <3>2
    <2>6. CASE ~ (j < S)
      <3>1. ~ (i < S)
        BY <1>1, <2>4, <2>6, SMT
      <3>2. U[i] = 2 * U[i \div 2] /\ U[j] = 2 * U[j \div 2]
        BY <1>2, <2>4, <2>6, <3>1
      <3>3. i \div 2 \in Nat /\ i \div 2 < i /\ j \div 2 \in 0..(i \div 2) /\ j \div 2 \in Nat
        BY <1>1, <2>4, <3>1, SMT
      <3>4. PICK t \in Nat : t >= 1 /\ U[i \div 2] = t * U[j \div 2]
        BY <2>2, <3>3
      <3>5. U[j \div 2] \in Nat
        BY <1>3, <3>3
      <3>6. U[i] = t * U[j]
        BY <3>2, <3>4, <3>5, SMT
      <3>7. QED
        BY <2>3, <3>4, <3>6
    <2>7. QED
      BY <2>5, <2>6
  <1>5. m \in 0..n
    BY SMT
  <1>6. QED
    BY <1>4, <1>5 DEF U

\* The spacing grows with the number.
LEMMA SpacingGrows ==
    ASSUME NEW n \in Nat, NEW m \in Nat, m <= n
    PROVE  Spacing[m] <= Spacing[n]
  <1>1. PICK i \in Nat : i >= 1 /\ Spacing[n] = i * Spacing[m]
    BY SpacingDivides
  <1>2. Spacing[m] \in Nat
    BY SpacingBounds
  <1>3. QED
    BY <1>1, <1>2, SMT

\* Products of naturals grow with their factors.
LEMMA ProductGrows ==
    ASSUME NEW a \in Nat, NEW b \in Nat, NEW c \in Nat, NEW d \in Nat, a <= c, b <= d
    PROVE  a * b <= c * d
  BY SMT

\* Between half as many units as there are significands and all of them, the
\* spacing stays the same.
LEMMA SpacingOf ==
    ASSUME NEW x \in Nat, NEW y \in Nat,
           (Significands \div 2) * Spacing[x] <= y, y < Significands * Spacing[x]
    PROVE  Spacing[y] = Spacing[x]
  <1> DEFINE S == Significands
             H == Significands \div 2
             u == Spacing[x]
             v == Spacing[y]
  <1>1. S \in Nat /\ H \in Nat /\ S = 2 * H /\ H >= 2
    BY SignificandsEven, SMT
  <1>2. u \in Nat /\ u >= 1 /\ H * u <= y /\ y < S * u
    BY SpacingBounds
  <1>3. v \in Nat /\ v >= 1 /\ y < S * v /\ (v = 1 \/ H * v <= y)
    BY SpacingBounds
  <1>4. (\E i \in Nat : i >= 1 /\ u = i * v) \/ (\E i \in Nat : i >= 1 /\ v = i * u)
    <2>1. CASE x <= y
      BY <2>1, SpacingDivides
    <2>2. CASE y <= x
      BY <2>2, SpacingDivides
    <2>3. QED
      BY <2>1, <2>2, SMT
  <1> HIDE DEF S, H, u, v
  <1>5. CASE \E i \in Nat : i >= 1 /\ u = i * v
    <2>1. PICK i \in Nat : i >= 1 /\ u = i * v
      BY <1>5
    <2>2. SUFFICES ASSUME i >= 2 PROVE FALSE
      BY <1>3, <2>1, SMT DEF u, v
    <2>3. 2 * v <= u
      BY <1>3, <2>1, <2>2, SMT
    <2>4. H * (2 * v) <= H * u
      BY <1>1, <1>2, <1>3, <2>3, SMT
    <2>5. H * (2 * v) = S * v
      BY <1>1, <1>3, SMT
    <2>6. H * u \in Int /\ S * v \in Int
      BY <1>1, <1>2, <1>3, SMT
    <2>7. QED
      BY <1>2, <1>3, <2>4, <2>5, <2>6, SMT
  <1>6. CASE \E i \in Nat : i >= 1 /\ v = i * u
    <2>1. PICK i \in Nat : i >= 1 /\ v = i * u
      BY <1>6
    <2>2. SUFFICES ASSUME i >= 2 PROVE FALSE
      BY <1>2, <2>1, SMT DEF u, v
    <2>3. 2 * u <= v
      BY <1>2, <2>1, <2>2, SMT
    <2>4. H * (2 * u) <= H * v
      BY <1>1, <1>2, <1>3, <2>3, SMT
    <2>5. H * (2 * u) = S * u
      BY <1>1, <1>2, SMT
    <2>6. H * v \in Int /\ S * u \in Int
      BY <1>1, <1>2, <1>3, SMT
    <2>7. v # 1
      BY <1>2, <2>3, SMT
    <2>8. QED
      BY <1>2, <1>3, <2>4, <2>5, <2>6, <2>7, SMT
  <1>7. QED
    BY <1>4, <1>5, <1>6

\* Twice a number has twice its spacing, or 1.
LEMMA SpacingOfTwice ==
    ASSUME NEW n \in Nat
    PROVE  Spacing[2 * n] = 1 \/ Spacing[2 * n] = 2 * Spacing[n]
  <1>1. 2 * n \in Nat /\ (2 * n) \div 2 = n
    BY SMT
  <1>2. QED
    BY <1>1, SpacingIs

-------------------------------------------------------------------------------
(* Floating-point numbers.                                                     *)

Float(n) == n \in Int /\ \E i \in Int : n = i * Ulp(n)

\* Absolute values.
LEMMA AbsType ==
    ASSUME NEW n \in Int
    PROVE  /\ AbsInt(n) \in Nat /\ AbsInt(-n) = AbsInt(n)
           /\ n >= 0 => AbsInt(n) = n
           /\ n <= 0 => AbsInt(n) = -n
           /\ n <= AbsInt(n) /\ -n <= AbsInt(n)
  BY SMT DEF AbsInt

\* A number is less than as many units as there are significands, and at least half as
\* many unless its unit is 1.
LEMMA UlpBounds ==
    ASSUME NEW n \in Int
    PROVE  /\ Ulp(n) \in Nat /\ Ulp(n) >= 1 /\ Ulp(-n) = Ulp(n)
           /\ AbsInt(n) < Significands * Ulp(n)
           /\ Ulp(n) = 1 \/ (Significands \div 2) * Ulp(n) <= AbsInt(n)
  <1>1. AbsInt(n) \in Nat /\ AbsInt(-n) = AbsInt(n)
    BY AbsType
  <1>2. QED
    BY <1>1, SpacingBounds DEF Ulp

\* Units grow with the absolute value, by whole factors.
LEMMA UlpGrows ==
    ASSUME NEW m \in Int, NEW n \in Int, AbsInt(m) <= AbsInt(n)
    PROVE  \E i \in Nat : i >= 1 /\ Ulp(n) = i * Ulp(m)
  <1>1. AbsInt(m) \in Nat /\ AbsInt(n) \in Nat
    BY AbsType
  <1>2. QED
    BY <1>1, SpacingDivides DEF Ulp

\* The floats are symmetric.
LEMMA NegatedFloat ==
    ASSUME NEW n, Float(n)
    PROVE  Float(-n)
  <1>1. n \in Int
    BY DEF Float
  <1>2. PICK i \in Int : n = i * Ulp(n)
    BY DEF Float
  <1>3. Ulp(n) \in Nat /\ Ulp(-n) = Ulp(n)
    BY <1>1, UlpBounds
  <1>4. -n = (-i) * Ulp(-n) /\ -i \in Int /\ -n \in Int
    BY <1>1, <1>2, <1>3, SMT
  <1>5. QED
    BY <1>4 DEF Float

\* So many units as there are significands, or fewer, make a float.
LEMMA MultipleIsFloat ==
    ASSUME NEW x \in Int, NEW i \in Int, AbsInt(i) <= Significands
    PROVE  Float(i * Ulp(x))
  <1> DEFINE S == Significands
             H == Significands \div 2
             v == Ulp(x)
             y == i * v
             z == AbsInt(i) * v
  <1>1. S \in Nat /\ H \in Nat /\ S = 2 * H /\ H >= 2
    BY SignificandsEven, SMT
  <1>2. v \in Nat /\ v >= 1 /\ AbsInt(i) \in Nat /\ AbsInt(x) \in Nat /\ v = Spacing[AbsInt(x)]
    BY UlpBounds, AbsType DEF Ulp
  <1>3. y \in Int /\ AbsInt(y) = z /\ z \in Nat
    BY <1>2, SMT DEF AbsInt
  <1>4. \E c \in Int : z = c * Spacing[z]
    <2> DEFINE m == AbsInt(i)
               u == Spacing[z]
    <2>1. u \in Nat /\ u >= 1 /\ z < S * u /\ (u = 1 \/ H * u <= z)
      BY <1>3, SpacingBounds
    <2>2. m \in Nat /\ m <= S /\ z = m * v
      BY <1>2
    <2> HIDE DEF m
    <2>3. CASE m = S
      <3>1. H * v \in Nat /\ H * v < S * v /\ H * v <= H * v
        BY <1>1, <1>2, SMT
      <3>2. Spacing[H * v] = v
        BY <1>2, <3>1, SpacingOf
      <3>3. z = 2 * (H * v) /\ z >= S
        BY <1>1, <1>2, <2>2, <2>3, SMT
      <3>4. z \div 2 = H * v
        BY <3>1, <3>3, SMT
      <3>5. u = 2 * v
        BY <1>3, <3>2, <3>3, <3>4, SpacingIs, SignificandsEven
      <3>6. z = H * u
        BY <1>1, <1>2, <3>3, <3>5, SMT
      <3>7. QED
        BY <1>1, <3>6
    <2>4. CASE m # S
      <3>1. z < S * v
        BY <1>1, <1>2, <2>2, <2>4, SMT
      <3>2. CASE z <= AbsInt(x)
        <4>1. PICK c \in Nat : v = c * u
          BY <1>2, <1>3, <3>2, SpacingDivides
        <4>2. z = (m * c) * u /\ m * c \in Int
          BY <2>1, <2>2, <4>1, SMT
        <4>3. QED
          BY <4>2
      <3>3. CASE AbsInt(x) <= z
        <4>1. PICK c \in Nat : c >= 1 /\ u = c * v
          BY <1>2, <1>3, <3>3, SpacingDivides
        <4>2. ASSUME c >= 2 PROVE FALSE
          <5>1. 2 * v <= u /\ u # 1
            BY <1>2, <4>1, <4>2, SMT
          <5>2. H * (2 * v) <= H * u
            <6>1. 2 * v \in Nat /\ H <= H
              BY <1>1, <1>2, SMT
            <6>2. QED
              BY <1>1, <2>1, <5>1, <6>1, ProductGrows
          <5> HIDE DEF u, v, S, H
          <5>3. H * (2 * v) = S * v
            BY <1>1, <1>2, SMT
          <5>4. H * u \in Int /\ S * v \in Int
            BY <1>1, <1>2, <2>1, SMT
          <5>5. QED
            BY <1>3, <2>1, <3>1, <5>1, <5>2, <5>3, <5>4, SMT
        <4>3. u = v
          BY <1>2, <4>1, <4>2, SMT
        <4>4. QED
          BY <2>2, <4>3
      <3>4. QED
        BY <1>2, <1>3, <3>2, <3>3, SMT
    <2>5. QED
      BY <2>3, <2>4
  <1>5. PICK c \in Int : z = c * Ulp(y)
    BY <1>3, <1>4 DEF Ulp
  <1>6. y = c * Ulp(y) \/ y = (-c) * Ulp(y)
    <2>1. Ulp(y) \in Nat
      BY <1>3, UlpBounds
    <2>2. y = z \/ y = -z
      BY <1>3, SMT DEF AbsInt
    <2>3. QED
      BY <1>3, <1>5, <2>1, <2>2, SMT
  <1>7. -c \in Int
    BY SMT
  <1>8. QED
    BY <1>3, <1>5, <1>6, <1>7 DEF Float
-------------------------------------------------------------------------------
(* Rounding to nearest.                                                        *)

\* A natural number is rounded to the float below or the float above it,
\* whichever is nearer.
LEMMA RoundedNatural ==
    ASSUME NEW n \in Nat
    PROVE  \E q \in Nat :
              /\ q < Significands /\ q * Ulp(n) <= n /\ n < (q + 1) * Ulp(n)
              /\ Ulp(n) = 1 \/ Significands \div 2 <= q
              /\ \/ Round(n) = q * Ulp(n) /\ 2 * (n - q * Ulp(n)) <= Ulp(n)
                 \/ Round(n) = (q + 1) * Ulp(n) /\ 2 * ((q + 1) * Ulp(n) - n) <= Ulp(n)
  <1> DEFINE S == Significands
             H == Significands \div 2
             u == Ulp(n)
             q == n \div u
             below == q * u
             rest == 2 * (n - below)
             up == rest > u \/ (rest = u /\ (below \div u) % 2 = 1)
  <1>1. S \in Nat /\ H \in Nat /\ S = 2 * H /\ H >= 2
    BY SignificandsEven, SMT
  <1>2. AbsInt(n) = n
    BY SMT DEF AbsInt
  <1>3. u \in Nat /\ u >= 1 /\ n < S * u /\ (u = 1 \/ H * u <= n)
    BY <1>2, UlpBounds
  <1>4. Round(n) = IF up THEN below + u ELSE below
    <2>1. Round(n) = Nearest(n, u)
      BY <1>2, SMT DEF Round
    <2>2. QED
      BY <2>1 DEF Nearest
  <1> HIDE DEF u
  <1>5. q \in Nat /\ q * u <= n /\ n < (q + 1) * u
    BY <1>3, SMT
  <1> HIDE DEF q
  <1>6. below \in Nat /\ (q + 1) * u = below + u
    BY <1>3, <1>5, SMT
  <1>7. q < S
    <2>1. SUFFICES ASSUME S <= q PROVE FALSE
      BY <1>1, <1>5, SMT
    <2>2. S * u <= q * u
      BY <1>1, <1>3, <1>5, <2>1, ProductGrows, SMT
    <2>3. S * u \in Int
      BY <1>1, <1>3, SMT
    <2>4. QED
      BY <1>3, <1>5, <1>6, <2>2, <2>3, SMT
  <1>8. u = 1 \/ H <= q
    <2>1. SUFFICES ASSUME u # 1, q + 1 <= H PROVE FALSE
      BY <1>1, <1>5, SMT
    <2>2. (q + 1) * u <= H * u
      BY <1>1, <1>3, <1>5, <2>1, ProductGrows, SMT
    <2>3. H * u \in Int
      BY <1>1, <1>3, SMT
    <2>4. QED
      BY <1>3, <1>5, <1>6, <2>1, <2>2, <2>3, SMT
  <1>9. CASE up
    <2>1. Round(n) = below + u /\ rest >= u
      BY <1>3, <1>4, <1>9, <1>6, SMT
    <2>2. 2 * ((q + 1) * u - n) <= u
      BY <1>3, <1>6, <2>1, SMT
    <2>3. QED
      BY <1>5, <1>6, <1>7, <1>8, <2>1, <2>2 DEF u
  <1>10. CASE ~ up
    <2>1. Round(n) = below /\ rest <= u
      BY <1>3, <1>4, <1>10, <1>6, SMT
    <2>2. QED
      BY <1>5, <1>6, <1>7, <1>8, <2>1 DEF u
  <1>11. QED
    BY <1>9, <1>10

\* Rounding treats both signs alike.
LEMMA RoundIsOdd ==
    ASSUME NEW n \in Int
    PROVE  Round(-n) = -Round(n) /\ Round(n) \in Int
  <1>1. CASE n = 0
    <2>1. n \in Nat /\ -n = n
      <3>1. n <= 0 /\ n >= 0
        BY <1>1, SMT
      <3>2. QED
        BY <3>1, SMT
    <2>2. PICK q \in Nat :
              /\ q * Ulp(n) <= n
              /\ \/ Round(n) = q * Ulp(n)
                 \/ Round(n) = (q + 1) * Ulp(n) /\ 2 * ((q + 1) * Ulp(n) - n) <= Ulp(n)
      BY <2>1, RoundedNatural
    <2>3. Ulp(n) \in Nat /\ Ulp(n) >= 1
      BY UlpBounds
    <2>4. q = 0
      BY <1>1, <2>2, <2>3, SMT
    <2>5. Round(n) = 0
      BY <1>1, <2>2, <2>3, <2>4, SMT
    <2>6. QED
      BY <2>1, <2>5, SMT
  <1>2. CASE n # 0
    <2> DEFINE a == AbsInt(n)
               u == Ulp(n)
               nearest == Nearest(a, u)
    <2>1. u \in Nat /\ u >= 1 /\ Ulp(-n) = u /\ a \in Nat /\ AbsInt(-n) = a
      BY UlpBounds, AbsType
    <2>2. Round(n) = IF n < 0 THEN -nearest ELSE nearest
      BY DEF Round
    <2>3. Round(-n) = IF -n < 0 THEN -nearest ELSE nearest
      BY <2>1 DEF Round
    <2> HIDE DEF u, a
    <2>4. nearest \in Int
      BY <2>1, SMT DEF Nearest
    <2> HIDE DEF nearest
    <2>5. QED
      BY <1>2, <2>2, <2>3, <2>4, SMT
  <1>3. QED
    BY <1>1, <1>2

\* What is rounded is a float.
LEMMA RoundIsFloat ==
    ASSUME NEW n \in Int
    PROVE  Float(Round(n))
  <1>1. \A m \in Nat : Float(Round(m))
    <2> SUFFICES ASSUME NEW m \in Nat PROVE Float(Round(m))
      OBVIOUS
    <2>1. PICK q \in Nat : q < Significands /\ (Round(m) = q * Ulp(m) \/ Round(m) = (q + 1) * Ulp(m))
      BY RoundedNatural
    <2>2. /\ q \in Int /\ q + 1 \in Int /\ AbsInt(q) <= Significands
          /\ AbsInt(q + 1) <= Significands
      BY <2>1, SignificandsEven, SMT DEF AbsInt
    <2>3. m \in Int
      OBVIOUS
    <2>4. QED
      BY <2>1, <2>2, <2>3, MultipleIsFloat
  <1>2. CASE n >= 0
    BY <1>1, <1>2, SMT
  <1>3. CASE n < 0
    <2>1. -n \in Nat /\ -(-n) = n
      BY <1>3, SMT
    <2>2. Float(Round(-n)) /\ Round(-n) = -Round(n) /\ Round(n) \in Int
      BY <1>1, <2>1, RoundIsOdd
    <2>3. Float(-Round(-n)) /\ -Round(-n) = Round(n)
      BY <2>2, NegatedFloat, SMT
    <2>4. QED
      BY <2>3
  <1>4. QED
    BY <1>2, <1>3, SMT

\* What rounding changes is half a unit at most.
LEMMA RoundingError ==
    ASSUME NEW n \in Int
    PROVE  2 * AbsInt(Round(n) - n) <= Ulp(n)
  <1>1. \A m \in Nat : 2 * AbsInt(Round(m) - m) <= Ulp(m)
    <2> SUFFICES ASSUME NEW m \in Nat PROVE 2 * AbsInt(Round(m) - m) <= Ulp(m)
      OBVIOUS
    <2> DEFINE u == Ulp(m)
    <2>1. PICK q \in Nat :
              /\ q * u <= m /\ m < (q + 1) * u
              /\ \/ Round(m) = q * u /\ 2 * (m - q * u) <= u
                 \/ Round(m) = (q + 1) * u /\ 2 * ((q + 1) * u - m) <= u
      BY RoundedNatural
    <2>2. u \in Nat /\ Round(m) \in Int
      BY UlpBounds, RoundIsOdd
    <2> HIDE DEF u
    <2>3. q * u \in Int /\ (q + 1) * u \in Int
      BY <2>2, SMT
    <2>4. 2 * AbsInt(Round(m) - m) <= u
      BY <2>1, <2>2, <2>3, SMT DEF AbsInt
    <2>5. QED
      BY <2>4 DEF u
  <1>2. CASE n >= 0
    BY <1>1, <1>2, SMT
  <1>3. CASE n < 0
    <2>1. -n \in Nat
      BY <1>3, SMT
    <2>2. 2 * AbsInt(Round(-n) - (-n)) <= Ulp(-n)
      BY <1>1, <2>1
    <2>3. Round(-n) = -Round(n) /\ Round(n) \in Int /\ Ulp(-n) = Ulp(n)
      BY RoundIsOdd, UlpBounds
    <2>4. -Round(n) - (-n) = -(Round(n) - n) /\ Round(n) - n \in Int
      BY <2>3, SMT
    <2>5. AbsInt(-(Round(n) - n)) = AbsInt(Round(n) - n)
      BY <2>4, AbsType
    <2>6. QED
      BY <2>2, <2>3, <2>4, <2>5
  <1>4. QED
    BY <1>2, <1>3, SMT

\* No float lies strictly between two neighbouring multiples of a number's unit
\* that are around it.
LEMMA NoneBetween ==
    ASSUME NEW n \in Nat, NEW q \in Nat, q < Significands,
           Ulp(n) = 1 \/ Significands \div 2 <= q,
           NEW f, Float(f), q * Ulp(n) <= f, f <= (q + 1) * Ulp(n)
    PROVE  f = q * Ulp(n) \/ f = (q + 1) * Ulp(n)
  <1> DEFINE S == Significands
             H == Significands \div 2
             u == Ulp(n)
  <1>1. S \in Nat /\ H \in Nat /\ S = 2 * H /\ H >= 2
    BY SignificandsEven, SMT
  <1>2. u \in Nat /\ u >= 1 /\ u = Spacing[n]
    BY UlpBounds, SMT DEF Ulp, AbsInt
  <1>3. f \in Int /\ q * u <= f /\ f <= (q + 1) * u /\ q * u \in Int /\ (q + 1) * u = q * u + u
    <2>1. f \in Int
      BY DEF Float
    <2> HIDE DEF u
    <2>2. q * u \in Int /\ (q + 1) * u = q * u + u
      BY <1>2, SMT
    <2>3. QED
      BY <2>1, <2>2 DEF u
  <1>4. CASE u = 1
    BY <1>3, <1>4, SMT
  <1>5. CASE u # 1
    <2>1. SUFFICES ASSUME f < (q + 1) * u PROVE f = q * u
      <3> DEFINE low == q * u
                 high == (q + 1) * u
      <3>1. f \in Int /\ low \in Int /\ high = low + u /\ f <= high /\ u \in Nat
        BY <1>2, <1>3
      <3> HIDE DEF low, high, u
      <3>2. f < high \/ f = high
        BY <3>1, SMT
      <3>3. QED
        BY <3>2 DEF low, high, u
    <2>2. H <= q /\ q + 1 <= S
      BY <1>1, <1>5, SMT
    <2>3. H * u <= q * u /\ (q + 1) * u <= S * u /\ H * u \in Nat /\ S * u \in Nat
      <3> HIDE DEF u
      <3>1. H * u <= q * u /\ (q + 1) * u <= S * u
        BY <1>1, <1>2, <2>2, ProductGrows, SMT
      <3>2. QED
        BY <1>1, <1>2, <3>1, SMT
    <2>4. f \in Nat /\ H * u <= f /\ f < S * u
      <3> DEFINE hu == H * u
                 su == S * u
                 low == q * u
                 high == (q + 1) * u
      <3>1. hu \in Nat /\ su \in Nat /\ hu <= low /\ high <= su /\ low \in Int /\ high = low + u
            /\ f \in Int /\ low <= f /\ f < high /\ u \in Nat
        BY <1>2, <1>3, <2>1, <2>3
      <3> HIDE DEF hu, su, low, high, u
      <3>2. f \in Nat /\ hu <= f /\ f < su
        BY <3>1, SMT
      <3>3. QED
        BY <3>2 DEF hu, su
    <2>5. Spacing[f] = u /\ AbsInt(f) = f
      BY <1>2, <2>4, SpacingOf, AbsType
    <2>6. PICK i \in Int : f = i * u
      BY <2>5 DEF Float, Ulp
    <2> HIDE DEF u
    <2>7. q * u <= i * u /\ i * u < (q + 1) * u
      BY <1>3, <2>1, <2>6
    <2>8. i = q
      <3>1. ASSUME i < q PROVE FALSE
        <4>1. q - i >= 1 /\ q - i \in Nat
          BY <3>1, SMT
        <4>2. (q - i) * u >= 1
          BY <1>2, <4>1, SMT
        <4>3. (q - i) * u = q * u - i * u
          BY <1>2, SMT
        <4>4. QED
          BY <1>2, <2>7, <4>2, <4>3, SMT
      <3>2. ASSUME i > q PROVE FALSE
        <4>1. i - (q + 1) \in Nat
          BY <3>2, SMT
        <4>2. (i - (q + 1)) * u >= 0
          BY <1>2, <4>1, SMT
        <4>3. (i - (q + 1)) * u = i * u - (q + 1) * u
          <5> DEFINE r == q + 1
          <5>1. r \in Int
            BY SMT
          <5> HIDE DEF r
          <5>2. (i - r) * u = i * u - r * u
            BY <1>2, <5>1, SMT
          <5>3. QED
            BY <5>2 DEF r
        <4>4. QED
          BY <1>2, <2>7, <4>2, <4>3, SMT
      <3>3. QED
        BY <3>1, <3>2, SMT
    <2>9. QED
      BY <2>6, <2>8
  <1>6. QED
    BY <1>4, <1>5

\* No float is nearer to a number than the one it is rounded to.
LEMMA RoundIsNearest ==
    ASSUME NEW n \in Int, NEW f, Float(f)
    PROVE  AbsInt(Round(n) - n) <= AbsInt(f - n)
  <1>1. \A m \in Nat : \A g : Float(g) => AbsInt(Round(m) - m) <= AbsInt(g - m)
    <2> SUFFICES ASSUME NEW m \in Nat, NEW g, Float(g)
                 PROVE  AbsInt(Round(m) - m) <= AbsInt(g - m)
      OBVIOUS
    <2> DEFINE u == Ulp(m)
    <2>1. PICK q \in Nat :
              /\ q < Significands /\ q * u <= m /\ m < (q + 1) * u
              /\ u = 1 \/ Significands \div 2 <= q
              /\ \/ Round(m) = q * u /\ 2 * (m - q * u) <= u
                 \/ Round(m) = (q + 1) * u /\ 2 * ((q + 1) * u - m) <= u
      BY RoundedNatural
    <2>2. u \in Nat /\ Round(m) \in Int /\ g \in Int
      BY UlpBounds, RoundIsOdd DEF Float
    <2>3. q * u <= g /\ g <= (q + 1) * u => g = q * u \/ g = (q + 1) * u
      BY <2>1, NoneBetween
    <2> HIDE DEF u
    <2> DEFINE low == q * u
               high == (q + 1) * u
    <2>4. low \in Int /\ high = low + u
      BY <2>2, SMT
    <2>5. g <= low \/ high <= g
      BY <2>2, <2>3, <2>4, SMT
    <2>6. /\ low <= m /\ m < high
          /\ \/ Round(m) = low /\ 2 * (m - low) <= u
             \/ Round(m) = high /\ 2 * (high - m) <= u
      BY <2>1
    <2> HIDE DEF low, high
    <2>7. QED
      BY <2>2, <2>4, <2>5, <2>6, SMT DEF AbsInt
  <1>2. CASE n >= 0
    <2>1. n \in Nat
      BY <1>2, SMT
    <2>2. QED
      BY <1>1, <2>1
  <1>3. CASE n < 0
    <2>1. -n \in Nat /\ Float(-f) /\ f \in Int
      <3>1. -n \in Nat
        BY <1>3, SMT
      <3>2. QED
        BY <3>1, NegatedFloat DEF Float
    <2>2. AbsInt(Round(-n) - (-n)) <= AbsInt(-f - (-n))
      BY <1>1, <2>1
    <2>3. Round(-n) = -Round(n) /\ Round(n) \in Int
      BY RoundIsOdd
    <2>4. AbsInt(-Round(n) - (-n)) = AbsInt(Round(n) - n) /\ AbsInt(-f - (-n)) = AbsInt(f - n)
      BY <2>1, <2>3, SMT DEF AbsInt
    <2>5. QED
      BY <2>2, <2>3, <2>4
  <1>4. QED
    BY <1>2, <1>3, SMT

\* Rounding keeps floats.
LEMMA RoundOfFloat ==
    ASSUME NEW f, Float(f)
    PROVE  Round(f) = f
  <1>1. f \in Int /\ Round(f) \in Int
    BY RoundIsOdd DEF Float
  <1>2. AbsInt(Round(f) - f) <= AbsInt(f - f)
    BY <1>1, RoundIsNearest
  <1>3. QED
    BY <1>1, <1>2, SMT DEF AbsInt

\* Rounding passes no float.
LEMMA RoundPassesNone ==
    ASSUME NEW n \in Int, NEW f, Float(f)
    PROVE  (n <= f => Round(n) <= f) /\ (f <= n => f <= Round(n))
  <1>1. f \in Int /\ Round(n) \in Int
    BY RoundIsOdd DEF Float
  <1>2. AbsInt(Round(n) - n) <= AbsInt(f - n)
    BY RoundIsNearest
  <1>3. QED
    BY <1>1, <1>2, SMT DEF AbsInt

-------------------------------------------------------------------------------
(* The floats next to a number.                                                *)

\* next_up of a rounded natural leads above the natural.
LEMMA NextUpAboveNatural ==
    ASSUME NEW n \in Nat
    PROVE  NextUp(Round(n)) > n /\ NextUp(Round(n)) \in Int
  <1> DEFINE u == Ulp(n)
             r == Round(n)
  <1>1. PICK q \in Nat :
           /\ q < Significands /\ q * u <= n /\ n < (q + 1) * u
           /\ u = 1 \/ Significands \div 2 <= q
           /\ (r = q * u \/ r = (q + 1) * u)
    BY RoundedNatural
  <1>2. u \in Nat /\ u >= 1 /\ Significands \in Nat /\ Significands \div 2 \in Nat
    BY UlpBounds, SignificandsEven
  <1>3. r \in Int /\ r >= 0 /\ NextUp(r) = r + Ulp(r)
    <2>1. q * u \in Nat /\ (q + 1) * u \in Nat
      <3> HIDE DEF u
      <3>1. QED
        BY <1>2, SMT
    <2> HIDE DEF u, r
    <2>2. QED
      BY <1>1, <2>1, SMT DEF NextUp
  <1>4. Ulp(r) \in Nat /\ Ulp(r) >= 1
    BY <1>3, UlpBounds
  <1>5. CASE r = q * u
    <2>1. Ulp(r) = u
      <3>1. u = Spacing[n] /\ AbsInt(r) = r /\ r \in Nat /\ Ulp(r) = Spacing[r]
        BY <1>3, AbsType DEF Ulp
      <3>2. CASE u = 1
        <4>1. r = n
          <5> HIDE DEF u, r
          <5>1. QED
            BY <1>1, <1>5, <3>2, SMT
        <4>2. QED
          BY <3>1, <4>1
      <3>3. CASE u # 1
        <4>1. /\ (Significands \div 2) * u <= q * u
              /\ q * u < Significands * u
          <5> HIDE DEF u
          <5>1. (Significands \div 2) * u <= q * u /\ (q + 1) * u <= Significands * u
            BY <1>1, <1>2, <3>3, ProductGrows, SMT
          <5>2. (q + 1) * u = q * u + u /\ q * u \in Int /\ Significands * u \in Int
            BY <1>2, SMT
          <5>3. QED
            BY <1>2, <5>1, <5>2, SMT
        <4>2. QED
          BY <1>5, <3>1, <4>1, SpacingOf
      <3>4. QED
        BY <3>2, <3>3
    <2>2. (q + 1) * u = r + u
      <3> HIDE DEF u, r
      <3>1. QED
        BY <1>2, <1>5, SMT
    <2>3. QED
      BY <1>1, <1>2, <1>3, <2>1, <2>2
  <1>6. CASE r = (q + 1) * u
    <2> HIDE DEF r, u
    <2>1. n < r
      BY <1>1, <1>6
    <2>2. QED
      BY <1>3, <1>4, <2>1, SMT DEF r
  <1>7. QED
    BY <1>1, <1>5, <1>6

\* next_up leads above the number that was rounded.
LEMMA NextUpAbove ==
    ASSUME NEW n \in Int
    PROVE  NextUp(Round(n)) > n /\ NextUp(Round(n)) \in Int
  <1>1. CASE n >= 0
    BY <1>1, NextUpAboveNatural, SMT
  <1>2. CASE n < 0
    <2> DEFINE a == -n
               u == Ulp(a)
               r == Round(a)
    <2>1. a \in Nat /\ a >= 1 /\ n = -a
      BY <1>2, SMT
    <2> HIDE DEF a
    <2>2. PICK q \in Nat :
           /\ q * u <= a /\ a < (q + 1) * u
           /\ \/ r = q * u /\ 2 * (a - q * u) <= u
              \/ r = (q + 1) * u /\ 2 * ((q + 1) * u - a) <= u
      BY <2>1, RoundedNatural
    <2>3. u \in Nat /\ u >= 1 /\ Round(n) = -r /\ r \in Int
      BY <2>1, UlpBounds, RoundIsOdd
    <2> HIDE DEF u, r
    <2>4. q * u \in Nat /\ (q + 1) * u = q * u + u
      BY <2>3, SMT
    <2>5. CASE r = q * u
      <3>1. r >= 0 /\ r <= a
        BY <2>2, <2>4, <2>5
      <3>2. Ulp(-r) \in Nat /\ Ulp(-r) >= 1 /\ Ulp(-r + 1) \in Nat /\ Ulp(-r + 1) >= 1
        BY <2>3, UlpBounds
      <3>3. NextUp(-r) = IF -r >= 0 THEN -r + Ulp(-r) ELSE -r + Ulp(-r + 1)
        BY DEF NextUp
      <3>4. QED
        BY <2>1, <2>3, <3>1, <3>2, <3>3, SMT
    <2>6. CASE r # q * u
      <3>1. r = q * u + u /\ 2 * (r - a) <= u
        BY <2>2, <2>4, <2>6
      <3>2. r >= a + 1
        BY <2>2, <2>3, <2>4, <2>1, <2>6, SMT
      <3>3. -r + 1 \in Int /\ AbsInt(-r + 1) = r - 1 /\ AbsInt(a) = a /\ a <= r - 1 /\ -r < 0
        BY <2>1, <2>3, <3>2, SMT DEF AbsInt
      <3>4. PICK i \in Nat : i >= 1 /\ Ulp(-r + 1) = i * u
        BY <2>1, <3>3, UlpGrows, SMT DEF u
      <3>5. Ulp(-r + 1) >= u /\ Ulp(-r + 1) \in Int
        BY <2>3, <3>4, SMT
      <3>6. NextUp(-r) = -r + Ulp(-r + 1)
        BY <2>3, <3>3, SMT DEF NextUp
      <3>7. QED
        BY <2>1, <2>2, <2>3, <2>4, <3>1, <3>5, <3>6, SMT
    <2>7. QED
      BY <2>5, <2>6
  <1>3. QED
    BY <1>1, <1>2

\* next_down leads below it.
LEMMA NextDownBelow ==
    ASSUME NEW n \in Int
    PROVE  NextDown(Round(n)) < n /\ NextDown(Round(n)) \in Int
  <1>1. -n \in Int /\ Round(-n) = -Round(n)
    BY RoundIsOdd
  <1>2. NextUp(Round(-n)) > -n /\ NextUp(Round(-n)) \in Int
    BY <1>1, NextUpAbove
  <1>3. NextDown(Round(n)) = -NextUp(Round(-n))
    BY <1>1 DEF NextDown
  <1>4. QED
    BY <1>2, <1>3, SMT

\* Two multiples of a unit differ by a unit or not at all.
LEMMA UnitsApart ==
    ASSUME NEW u \in Nat, NEW j \in Int, NEW i \in Int, j * u < i * u
    PROVE  j * u + u <= i * u
  <1>1. u >= 1 /\ j < i
    <2>1. u # 0
      BY SMT
    <2>2. ASSUME i <= j PROVE FALSE
      <3>1. (j - i) \in Nat
        BY <2>2, SMT
      <3>2. (j - i) * u >= 0 /\ (j - i) * u = j * u - i * u
        BY <3>1, SMT
      <3>3. j * u \in Int /\ i * u \in Int
        BY SMT
      <3>4. QED
        BY <3>2, <3>3, SMT
    <2>3. QED
      BY <2>1, <2>2, SMT
  <1>2. i - j - 1 \in Nat
    BY <1>1, SMT
  <1>3. (i - j - 1) * u >= 0 /\ (i - j - 1) * u = i * u - j * u - u
    BY <1>2, SMT
  <1>4. j * u \in Int /\ i * u \in Int
    BY SMT
  <1>5. QED
    BY <1>3, <1>4, SMT

\* next_up of a float is the float after it.
LEMMA NextUpIsNext ==
    ASSUME NEW f, Float(f), NEW g, Float(g), f < g
    PROVE  NextUp(f) <= g
  <1> DEFINE S == Significands
             H == Significands \div 2
  <1>1. S \in Nat /\ H \in Nat /\ S = 2 * H /\ H >= 2
    BY SignificandsEven, SMT
  <1>2. f \in Int /\ g \in Int
    BY DEF Float
  <1>3. PICK i \in Int : f = i * Ulp(f)
    BY DEF Float
  <1>4. PICK j \in Int : g = j * Ulp(g)
    BY DEF Float
  <1>5. CASE f >= 0
    <2> DEFINE u == Ulp(f)
    <2>1. AbsInt(f) <= AbsInt(g)
      BY <1>2, <1>5, SMT DEF AbsInt
    <2>2. PICK t \in Nat : Ulp(g) = t * u
      BY <1>2, <2>1, UlpGrows
    <2>3. u \in Nat /\ f = i * u /\ NextUp(f) = f + u
      BY <1>2, <1>3, <1>5, UlpBounds DEF NextUp
    <2> HIDE DEF u
    <2>4. g = (j * t) * u /\ j * t \in Int
      BY <1>4, <2>2, <2>3, SMT
    <2>5. QED
      BY <2>3, <2>4, UnitsApart
  <1>6. CASE f < 0
    <2> DEFINE p == -f
               w == Ulp(f + 1)
    <2>1. p \in Nat /\ p >= 1 /\ f = -p /\ AbsInt(f) = p /\ AbsInt(f + 1) = p - 1 /\ p - 1 \in Nat
          /\ f + 1 \in Int
      BY <1>2, <1>6, SMT DEF AbsInt
    <2>2. w \in Nat /\ w >= 1 /\ p - 1 < S * w /\ (w = 1 \/ H * w <= p - 1) /\ w = Spacing[p - 1]
      BY <2>1, UlpBounds DEF Ulp
    <2>3. NextUp(f) = f + w
      BY <1>6, <1>2, SMT DEF NextUp
    <2>4. w <= p
      <3> HIDE DEF S, H, w, p
      <3>1. CASE w = 1
        BY <2>1, <3>1
      <3>2. CASE w # 1
        <4>1. 1 * w <= H * w /\ H * w \in Int
          BY <1>1, <2>2, ProductGrows, SMT
        <4>2. QED
          BY <2>1, <2>2, <3>2, <4>1, SMT
      <3>3. QED
        BY <3>1, <3>2
    <2>5. CASE g >= 0
      <3> HIDE DEF w, p
      <3>1. QED
        BY <1>2, <2>1, <2>2, <2>3, <2>4, <2>5, SMT
    <2>6. CASE g < 0
      <3> DEFINE r == -g
      <3>1. r \in Nat /\ r <= p - 1 /\ AbsInt(g) = r /\ g = -r
        BY <1>2, <2>1, <2>6, SMT DEF AbsInt
      <3>2. PICK c \in Nat : Ulp(f) = c * w
        <4>1. AbsInt(f + 1) <= AbsInt(f)
          BY <2>1, SMT
        <4>2. QED
          BY <1>2, <2>1, <4>1, UlpGrows
      <3>3. p = (-(i * c)) * w /\ -(i * c) \in Int
        <4> HIDE DEF w
        <4>1. f = i * (c * w)
          BY <1>3, <3>2
        <4>2. QED
          BY <2>2, <2>1, <4>1, SMT
      <3>4. SUFFICES ASSUME p < r + w PROVE FALSE
        <4> HIDE DEF w, p, r
        <4>1. QED
          BY <1>2, <2>1, <2>2, <2>3, <3>1, SMT
      <3>5. w # 1
        <4> HIDE DEF w, p, r
        <4>1. QED
          BY <2>1, <3>1, <3>4, SMT
      <3>6. H * w <= r /\ r < S * w
        <4> DEFINE d == -(i * c)
        <4>1. p = d * w /\ d \in Int
          BY <3>3
        <4> HIDE DEF d, w, p, r, S, H
        <4>2. H * w < d * w
          BY <2>1, <2>2, <3>5, <4>1, <1>1, SMT
        <4>3. H * w + w <= d * w
          BY <1>1, <2>2, <4>1, <4>2, UnitsApart
        <4>4. H * w \in Int /\ S * w \in Int
          BY <1>1, <2>2, SMT
        <4>5. QED
          BY <2>1, <2>2, <3>1, <3>4, <4>1, <4>3, <4>4, SMT
      <3>7. Spacing[r] = w /\ Ulp(g) = w
        BY <2>1, <2>2, <3>1, <3>6, SpacingOf DEF Ulp
      <3>8. r = (-j) * w /\ -j \in Int
        <4> HIDE DEF w
        <4>1. g = j * w
          BY <1>4, <3>7
        <4> HIDE DEF r
        <4>2. QED
          BY <2>2, <3>1, <4>1, SMT
      <3> DEFINE d == -(i * c)
                 e == -j
      <3>9. p = d * w /\ r = e * w /\ d \in Int /\ e \in Int /\ r < p
        <4>1. r < p
          BY <2>1, <3>1, SMT
        <4>2. QED
          BY <3>3, <3>8, <4>1
      <3> HIDE DEF d, e
      <3>10. e * w + w <= d * w
        BY <2>2, <3>9, UnitsApart
      <3> HIDE DEF w, p, r
      <3>11. r + w <= p
        BY <3>9, <3>10
      <3>12. QED
        BY <2>1, <2>2, <3>1, <3>4, <3>11, SMT
    <2>7. QED
      BY <1>2, <2>5, <2>6, SMT
  <1>7. QED
    BY <1>2, <1>5, <1>6, SMT

\* next_up leads above a float.
LEMMA NextUpOfFloat ==
    ASSUME NEW f, Float(f)
    PROVE  NextUp(f) > f /\ NextUp(f) \in Int
  <1>1. f \in Int /\ Round(f) = f
    BY RoundOfFloat DEF Float
  <1>2. QED
    BY <1>1, NextUpAbove

\* next_up and next_down keep the order of floats.
LEMMA NextUpGrows ==
    ASSUME NEW f, Float(f), NEW g, Float(g), f <= g
    PROVE  NextUp(f) <= NextUp(g)
  <1>1. f \in Int /\ g \in Int /\ NextUp(g) > g /\ NextUp(g) \in Int /\ NextUp(f) \in Int
    BY NextUpOfFloat DEF Float
  <1>2. CASE f = g
    BY <1>1, <1>2, SMT
  <1>3. CASE f < g
    <2>1. NextUp(f) <= g
      BY <1>3, NextUpIsNext
    <2>2. QED
      BY <1>1, <2>1, SMT
  <1>4. QED
    BY <1>1, <1>2, <1>3, SMT

\* The same downwards.
LEMMA NextDownGrows ==
    ASSUME NEW f, Float(f), NEW g, Float(g), f <= g
    PROVE  NextDown(f) <= NextDown(g)
  <1>1. Float(-f) /\ Float(-g) /\ f \in Int /\ g \in Int
    BY NegatedFloat DEF Float
  <1>2. -g <= -f
    BY <1>1, SMT
  <1>3. NextUp(-g) <= NextUp(-f) /\ NextUp(-g) \in Int /\ NextUp(-f) \in Int
    BY <1>1, <1>2, NextUpGrows, NextUpOfFloat
  <1>4. QED
    BY <1>3, SMT DEF NextDown

-------------------------------------------------------------------------------
(* Rounded sums: the error of a sum of floats is a float, and two_sum finds it.*)

\* A multiple of a unit is a float while the unit has significands for it.
LEMMA BoundedMultiple ==
    ASSUME NEW x \in Int, NEW i \in Int, AbsInt(i * Ulp(x)) <= Significands * Ulp(x)
    PROVE  Float(i * Ulp(x))
  <1> DEFINE u == Ulp(x)
             S == Significands
  <1>1. u \in Nat /\ u >= 1 /\ S \in Nat
    BY UlpBounds, SignificandsEven
  <1>2. AbsInt(i * u) <= S * u
    OBVIOUS
  <1> HIDE DEF u, S
  <1>3. AbsInt(i * u) = AbsInt(i) * u /\ AbsInt(i) \in Nat
    BY <1>1, SMT DEF AbsInt
  <1>4. AbsInt(i) <= S
    <2>1. SUFFICES ASSUME S + 1 <= AbsInt(i) PROVE FALSE
      BY <1>1, <1>3, SMT
    <2>2. (S + 1) * u <= AbsInt(i) * u
      BY <1>1, <1>3, <2>1, ProductGrows, SMT
    <2>3. (S + 1) * u = S * u + u /\ S * u \in Int
      BY <1>1, SMT
    <2>4. QED
      BY <1>1, <1>2, <1>3, <2>2, <2>3, SMT
  <1>5. QED
    BY <1>4, MultipleIsFloat DEF S, u

\* A rounded number is a multiple of the unit of the number.
LEMMA RoundIsMultiple ==
    ASSUME NEW n \in Int
    PROVE  \E q \in Int : Round(n) = q * Ulp(n)
  <1>1. \A m \in Nat : \E q \in Int : Round(m) = q * Ulp(m)
    <2> SUFFICES ASSUME NEW m \in Nat PROVE \E q \in Int : Round(m) = q * Ulp(m)
      OBVIOUS
    <2>1. PICK q \in Nat : Round(m) = q * Ulp(m) \/ Round(m) = (q + 1) * Ulp(m)
      BY RoundedNatural
    <2>2. q \in Int /\ q + 1 \in Int
      BY SMT
    <2>3. QED
      BY <2>1, <2>2
  <1>2. CASE n >= 0
    BY <1>1, <1>2, SMT
  <1>3. CASE n < 0
    <2>1. -n \in Nat
      BY <1>3, SMT
    <2>2. PICK q \in Int : Round(-n) = q * Ulp(-n)
      BY <1>1, <2>1
    <2>3. Ulp(n) \in Nat /\ Ulp(-n) = Ulp(n) /\ Round(-n) = -Round(n) /\ Round(n) \in Int
      BY UlpBounds, RoundIsOdd
    <2>4. Round(n) = (-q) * Ulp(n) /\ -q \in Int
      BY <2>2, <2>3, SMT
    <2>5. QED
      BY <2>4
  <1>4. QED
    BY <1>2, <1>3, SMT

\* Zero is a float.
LEMMA ZeroIsFloat == Float(0)
  <1>1. Ulp(0) \in Nat /\ 0 = 0 * Ulp(0)
    BY UlpBounds, SMT
  <1>2. QED
    BY <1>1 DEF Float

\* A float is a multiple of the unit of every smaller number.
LEMMA FloatMultiple ==
    ASSUME NEW f, Float(f), NEW n \in Int, AbsInt(n) <= AbsInt(f)
    PROVE  \E t \in Int : f = t * Ulp(n)
  <1>1. f \in Int
    BY DEF Float
  <1>2. PICK i \in Int : f = i * Ulp(f)
    BY DEF Float
  <1>3. PICK t \in Nat : Ulp(f) = t * Ulp(n)
    BY <1>1, UlpGrows
  <1>4. Ulp(n) \in Nat
    BY UlpBounds
  <1>5. f = (i * t) * Ulp(n) /\ i * t \in Int
    BY <1>2, <1>3, <1>4, SMT
  <1>6. QED
    BY <1>5

\* Multiples of a unit add up to a multiple.
LEMMA MultiplesAdd ==
    ASSUME NEW u \in Nat, NEW i \in Int, NEW j \in Int
    PROVE  /\ i * u + j * u = (i + j) * u /\ i * u - j * u = (i - j) * u
           /\ i + j \in Int /\ i - j \in Int /\ i * u \in Int /\ j * u \in Int
  BY SMT

\* A sum that is no longer than either term is exact.
LEMMA ShortSumIsFloat ==
    ASSUME NEW x, Float(x), NEW y, Float(y),
           AbsInt(x + y) <= AbsInt(x), AbsInt(x + y) <= AbsInt(y)
    PROVE  Float(x + y)
  <1>1. x \in Int /\ y \in Int /\ x + y \in Int
    BY SMT DEF Float
  <1>2. PICK i \in Int : x = i * Ulp(x + y)
    BY <1>1, FloatMultiple
  <1>3. PICK j \in Int : y = j * Ulp(x + y)
    BY <1>1, FloatMultiple
  <1> DEFINE u == Ulp(x + y)
  <1>4. u \in Nat
    BY <1>1, UlpBounds
  <1>5. x + y = (i + j) * u /\ i + j \in Int
    <2>1. x = i * u /\ y = j * u
      BY <1>2, <1>3
    <2> HIDE DEF u
    <2>2. QED
      BY <1>4, <2>1, MultiplesAdd
  <1>6. QED
    BY <1>1, <1>5 DEF Float

\* What a sum of floats loses to rounding is a float.
LEMMA ErrorIsFloat ==
    ASSUME NEW a, Float(a), NEW b, Float(b)
    PROVE  Float((a + b) - Round(a + b))
  <1>1. ASSUME NEW x, Float(x), NEW y, Float(y), AbsInt(x) <= AbsInt(y)
        PROVE  Float((x + y) - Round(x + y))
    <2> DEFINE z == x + y
               u == Ulp(x)
    <2>1. x \in Int /\ y \in Int /\ z \in Int /\ Round(z) \in Int
      <3>1. x \in Int /\ y \in Int
        BY <1>1 DEF Float
      <3>2. z \in Int
        BY <3>1, SMT
      <3>3. QED
        BY <3>1, <3>2, RoundIsOdd
    <2>2. CASE AbsInt(z) <= AbsInt(x)
      <3>1. AbsInt(z) <= AbsInt(y)
        <4>1. AbsInt(z) \in Nat /\ AbsInt(x) \in Nat /\ AbsInt(y) \in Nat
          BY <2>1, AbsType
        <4>2. QED
          BY <1>1, <2>2, <4>1, SMT
      <3>2. Round(z) = z
        BY <1>1, <2>2, <3>1, ShortSumIsFloat, RoundOfFloat
      <3>3. z - Round(z) = 0
        BY <2>1, <3>2, SMT
      <3>4. QED
        BY <3>3, ZeroIsFloat
    <2>3. CASE AbsInt(x) <= AbsInt(z)
      <3>1. PICK i \in Int : x = i * u
        BY <1>1 DEF Float
      <3>2. PICK j \in Int : y = j * u
        BY <1>1, <2>1, FloatMultiple
      <3>3. PICK t \in Int : Round(z) = t * u
        <4>1. PICK q \in Int : Round(z) = q * Ulp(z)
          BY <2>1, RoundIsMultiple
        <4>2. PICK c \in Nat : Ulp(z) = c * u
          BY <2>1, <2>3, UlpGrows
        <4>3. u \in Nat
          BY <2>1, UlpBounds
        <4> HIDE DEF u, z
        <4>4. Round(z) = (q * c) * u /\ q * c \in Int
          BY <4>1, <4>2, <4>3, SMT
        <4>5. QED
          BY <4>4
      <3>4. u \in Nat /\ AbsInt(x) < Significands * u
        BY <2>1, UlpBounds
      <3>5. z - Round(z) = ((i + j) - t) * u /\ (i + j) - t \in Int
        <4>1. x = i * u /\ y = j * u /\ Round(z) = t * u /\ z = x + y
          BY <3>1, <3>2, <3>3
        <4> HIDE DEF u, z
        <4>2. z = (i + j) * u /\ i + j \in Int
          BY <3>4, <4>1, MultiplesAdd
        <4>3. QED
          BY <3>4, <4>1, <4>2, MultiplesAdd
      <3>6. AbsInt(z - Round(z)) <= AbsInt(x)
        <4>1. AbsInt(Round(z) - z) <= AbsInt(y - z)
          BY <1>1, <2>1, RoundIsNearest
        <4> HIDE DEF z
        <4>2. z = x + y
          BY DEF z
        <4>3. QED
          BY <2>1, <4>1, <4>2, SMT DEF AbsInt
      <3>7. AbsInt(((i + j) - t) * u) <= Significands * u
        <4>1. AbsInt(((i + j) - t) * u) <= AbsInt(x)
          BY <3>5, <3>6
        <4>2. AbsInt(x) \in Nat /\ Significands * u \in Int
          BY <2>1, <3>4, AbsType, SignificandsEven, SMT
        <4>3. ((i + j) - t) * u \in Int
          BY <2>1, <3>5, SMT
        <4>4. AbsInt(((i + j) - t) * u) \in Nat
          BY <4>3, AbsType
        <4> HIDE DEF u
        <4>5. QED
          BY <3>4, <4>1, <4>2, <4>4, SMT
      <3>8. Float(((i + j) - t) * u)
        BY <2>1, <3>5, <3>7, BoundedMultiple
      <3>9. QED
        BY <3>5, <3>8
    <2>4. QED
      <3>1. AbsInt(z) \in Nat /\ AbsInt(x) \in Nat
        BY <2>1, AbsType
      <3>2. AbsInt(z) <= AbsInt(x) \/ AbsInt(x) <= AbsInt(z)
        BY <3>1, SMT
      <3>3. QED
        BY <2>2, <2>3, <3>2
  <1>2. a \in Int /\ b \in Int /\ a + b = b + a /\ AbsInt(a) \in Nat /\ AbsInt(b) \in Nat
    <2>1. a \in Int /\ b \in Int
      BY DEF Float
    <2>2. QED
      BY <2>1, AbsType, SMT
  <1>3. CASE AbsInt(a) <= AbsInt(b)
    BY <1>1, <1>3
  <1>4. CASE AbsInt(b) <= AbsInt(a)
    BY <1>1, <1>2, <1>4
  <1>5. QED
    BY <1>2, <1>3, <1>4, SMT

\* The rounded sum less its longer term is a float.
LEMMA LessLongerIsFloat ==
    ASSUME NEW x, Float(x), NEW y, Float(y), AbsInt(y) <= AbsInt(x)
    PROVE  Float(Round(x + y) - x)
  <1> DEFINE z == x + y
             u == Ulp(x)
             v == Ulp(z)
             w == Ulp(y)
             s == Round(z)
             S == Significands
  <1>1. x \in Int /\ y \in Int
    BY DEF Float
  <1>2. z \in Int
    BY <1>1, SMT
  <1>3. s \in Int /\ S \in Nat /\ S >= 4
    BY <1>2, RoundIsOdd, SignificandsEven
  <1>4. /\ u \in Nat /\ u >= 1 /\ v \in Nat /\ v >= 1 /\ w \in Nat /\ w >= 1
        /\ AbsInt(x) < S * u /\ AbsInt(y) < S * w
    BY <1>1, <1>2, UlpBounds
  <1>5. AbsInt(x) \in Nat /\ AbsInt(y) \in Nat /\ AbsInt(z) \in Nat
    BY <1>1, <1>2, AbsType
  <1>6. 2 * AbsInt(s - z) <= v
    BY <1>2, RoundingError
  <1>7. PICK q \in Int : s = q * v
    BY <1>2, RoundIsMultiple
  <1>8. PICK i \in Int : x = i * u
    BY DEF Float
  <1>9. ASSUME Float(z) PROVE Float(s - x)
    <2>1. s = z
      BY <1>9, RoundOfFloat
    <2>2. s - x = y
      <3>1. s = x + y
        BY <2>1
      <3> HIDE DEF s, z
      <3>2. QED
        BY <1>1, <3>1, SMT
    <2>3. QED
      BY <2>2
  <1>10. ASSUME NEW c \in Nat, u = c * v PROVE Float(s - x)
    <2>1. CASE AbsInt(z) <= AbsInt(y)
      <3>1. AbsInt(z) <= AbsInt(x)
        <4> HIDE DEF z
        <4>1. QED
          BY <1>5, <2>1, SMT
      <3>2. QED
        BY <1>9, <2>1, <3>1, ShortSumIsFloat
    <2>2. CASE AbsInt(y) <= AbsInt(z)
      <3>1. PICK d \in Nat : d >= 1 /\ v = d * w
        BY <1>1, <1>2, <2>2, UlpGrows
      <3>2. s - x = (q - i * c) * v /\ q - i * c \in Int
        <4> HIDE DEF s, u, v
        <4>1. x = (i * c) * v /\ i * c \in Int
          BY <1>4, <1>8, <1>10, SMT
        <4>2. QED
          BY <1>4, <1>7, <4>1, MultiplesAdd
      <3>3. CASE d = 1
        <4>1. v = w
          <5> HIDE DEF v, w
          <5>1. QED
            BY <1>4, <3>1, <3>3, SMT
        <4>2. PICK j \in Int : y = j * v
          BY <4>1 DEF Float
        <4>3. z = (i * c + j) * v /\ i * c + j \in Int
          <5>1. z = x + y
            OBVIOUS
          <5> HIDE DEF z, u, v
          <5>2. x = (i * c) * v /\ i * c \in Int
            BY <1>4, <1>8, <1>10, SMT
          <5>3. QED
            BY <1>4, <4>2, <5>1, <5>2, MultiplesAdd
        <4>4. Float(z)
          BY <1>2, <4>3 DEF Float
        <4>5. QED
          BY <1>9, <4>4
      <3>4. CASE d # 1
        <4>1. 2 * w <= v
          <5>1. d >= 2
            BY <3>1, <3>4, SMT
          <5> HIDE DEF v, w
          <5>2. 2 * w <= d * w
            BY <1>4, <5>1, ProductGrows, SMT
          <5>3. QED
            BY <3>1, <5>2
        <4>2. 2 * AbsInt(y) < S * v
          <5> HIDE DEF v, w, S
          <5>1. S * (2 * w) <= S * v
            BY <1>3, <1>4, <4>1, ProductGrows, SMT
          <5>2. S * (2 * w) = 2 * (S * w) /\ S * w \in Int /\ S * v \in Int
            BY <1>3, <1>4, SMT
          <5>3. QED
            BY <1>4, <1>5, <5>1, <5>2, SMT
        <4>3. AbsInt(s - x) <= AbsInt(y) + AbsInt(s - z)
          <5>1. z = x + y
            OBVIOUS
          <5> HIDE DEF s, z
          <5>2. QED
            BY <1>1, <1>3, <5>1, SMT DEF AbsInt
        <4>4. AbsInt(s - x) <= S * v
          <5> DEFINE e == AbsInt(s - z)
                     t == AbsInt(s - x)
          <5>1. e \in Nat /\ t \in Nat
            <6>1. s - z \in Int /\ s - x \in Int
              <7> HIDE DEF s, z
              <7>1. QED
                BY <1>1, <1>2, <1>3, SMT
            <6>2. QED
              BY <6>1, AbsType
          <5>2. 2 * e <= v /\ t <= AbsInt(y) + e
            BY <1>6, <4>3
          <5> HIDE DEF e, t, v, S
          <5>3. 1 * v <= S * v /\ S * v \in Int
            BY <1>3, <1>4, ProductGrows, SMT
          <5>4. t <= S * v
            BY <1>4, <1>5, <4>2, <5>1, <5>2, <5>3, SMT
          <5>5. QED
            BY <5>4 DEF t
        <4>5. AbsInt((q - i * c) * v) <= S * v
          BY <3>2, <4>4
        <4>6. Float((q - i * c) * v)
          BY <1>2, <3>2, <4>5, BoundedMultiple
        <4>7. QED
          BY <3>2, <4>6
      <3>5. QED
        BY <3>3, <3>4
    <2>3. AbsInt(z) <= AbsInt(y) \/ AbsInt(y) <= AbsInt(z)
      <3> HIDE DEF z
      <3>1. QED
        BY <1>5, SMT
    <2>4. QED
      BY <2>1, <2>2, <2>3
  <1>11. ASSUME v = 2 * u PROVE Float(s - x)
    <2>1. s - x = (2 * q - i) * u /\ 2 * q - i \in Int
      <3> HIDE DEF s, u, v
      <3>1. s = (2 * q) * u /\ 2 * q \in Int
        BY <1>4, <1>7, <1>11, SMT
      <3>2. QED
        BY <1>4, <1>8, <3>1, MultiplesAdd
    <2>2. AbsInt(s - x) <= AbsInt(x) + u
      <3>1. z = x + y
        OBVIOUS
      <3> HIDE DEF s, z, u, v
      <3>2. AbsInt(s - z) <= u
        <4>1. s - z \in Int
          BY <1>2, <1>3, SMT
        <4>2. AbsInt(s - z) \in Nat
          BY <4>1, AbsType
        <4>3. QED
          BY <1>4, <1>6, <1>11, <4>2, SMT
      <3>3. QED
        BY <1>1, <1>2, <1>3, <1>4, <3>1, <3>2, SMT DEF AbsInt
    <2>3. AbsInt(x) + u <= S * u
      <3> HIDE DEF u, S
      <3>1. AbsInt(x) = AbsInt(i) * u /\ AbsInt(i) \in Int
        BY <1>4, <1>8, SMT DEF AbsInt
      <3>2. QED
        BY <1>4, <3>1, <1>3, UnitsApart
    <2>4. AbsInt((2 * q - i) * u) <= S * u
      <3>1. s - x \in Int
        <4> HIDE DEF s
        <4>1. QED
          BY <1>1, <1>3, SMT
      <3>2. AbsInt(s - x) \in Nat
        BY <3>1, AbsType
      <3>3. AbsInt(s - x) <= S * u
        <4> DEFINE t == AbsInt(s - x)
        <4>1. t \in Nat /\ t <= AbsInt(x) + u
          BY <2>2, <3>2
        <4>2. S * u \in Int
          <5> HIDE DEF S, u
          <5>1. QED
            BY <1>3, <1>4, SMT
        <4> HIDE DEF t, S, u
        <4>3. t <= S * u
          BY <1>4, <1>5, <2>3, <4>1, <4>2, SMT
        <4>4. QED
          BY <4>3 DEF t
      <3>4. QED
        BY <2>1, <3>3
    <2>5. Float((2 * q - i) * u)
      BY <1>1, <2>1, <2>4, BoundedMultiple
    <2>6. QED
      BY <2>1, <2>5
  <1>12. CASE AbsInt(z) <= AbsInt(x)
    <2>1. PICK c \in Nat : u = c * v
      BY <1>1, <1>2, <1>12, UlpGrows
    <2>2. QED
      BY <1>10, <2>1
  <1>13. CASE AbsInt(x) <= AbsInt(z)
    <2>1. PICK c \in Nat : c >= 1 /\ v = c * u
      BY <1>1, <1>2, <1>13, UlpGrows
    <2>2. AbsInt(z) <= 2 * AbsInt(x) /\ 2 * AbsInt(x) \in Nat
      <3>1. z = x + y
        OBVIOUS
      <3> HIDE DEF z
      <3>2. QED
        BY <1>1, <1>2, <3>1, SMT DEF AbsInt
    <2>3. PICK d \in Nat : d >= 1 /\ Spacing[2 * AbsInt(x)] = d * v
      BY <1>5, <2>2, SpacingDivides DEF Ulp
    <2>4. Spacing[2 * AbsInt(x)] = 1 \/ Spacing[2 * AbsInt(x)] = 2 * u
      BY <1>5, SpacingOfTwice DEF Ulp
    <2>5. v = u \/ v = 2 * u
      <3> HIDE DEF u, v
      <3>1. c = 1 \/ c = 2
        <4>1. d * v = 1 \/ d * v = 2 * u
          BY <2>3, <2>4
        <4>2. d * v >= v /\ d * v \in Int
          BY <1>4, <2>3, SMT
        <4>3. v <= 2 * u
          BY <1>4, <4>1, <4>2, SMT
        <4>4. SUFFICES ASSUME c >= 3 PROVE FALSE
          BY <2>1, SMT
        <4>5. 3 * u <= c * u
          BY <1>4, <2>1, <4>4, ProductGrows, SMT
        <4>6. QED
          BY <1>4, <2>1, <4>3, <4>5, SMT
      <3>2. QED
        BY <1>4, <2>1, <3>1, SMT
    <2>6. CASE v = u
      <3>1. u = 1 * v
        <4> HIDE DEF u, v
        <4>1. QED
          BY <1>4, <2>6, SMT
      <3>2. QED
        BY <1>10, <3>1
    <2>7. CASE v = 2 * u
      BY <1>11, <2>7
    <2>8. QED
      BY <2>5, <2>6, <2>7
  <1>14. AbsInt(z) <= AbsInt(x) \/ AbsInt(x) <= AbsInt(z)
    <2> HIDE DEF z
    <2>1. QED
      BY <1>5, SMT
  <1>15. QED
    BY <1>12, <1>13, <1>14

\* two_sum is exact for any two floats of any precision: what it returns beside the
\* rounded sum is what rounding lost, as outward_absolute_difference relies on
\* (certificate.rs:764-777).
THEOREM TwoSumExact ==
    ASSUME NEW a, Float(a), NEW b, Float(b)
    PROVE  /\ TwoSum(a, b)[1] = Round(a + b)
           /\ TwoSum(a, b)[2] = (a + b) - Round(a + b)
           /\ Float(Round(a + b)) /\ (a + b) - Round(a + b) \in Int
  <1> DEFINE s == Round(a + b)
             bv == Round(s - a)
             av == Round(s - bv)
             lostA == Round(a - av)
             lostB == Round(b - bv)
             err == (a + b) - s
  <1>1. a \in Int /\ b \in Int /\ a + b \in Int
    BY SMT DEF Float
  <1>2. Float(s) /\ s \in Int /\ Float(err)
    BY <1>1, RoundIsFloat, RoundIsOdd, ErrorIsFloat
  <1>3. err \in Int
    BY <1>2 DEF Float
  <1>4. s - a \in Int
    <2> HIDE DEF s
    <2>1. QED
      BY <1>1, <1>2, SMT
  <1>5. bv \in Int /\ Float(bv)
    BY <1>4, RoundIsOdd, RoundIsFloat
  <1>6. /\ TwoSum(a, b)[1] = s
        /\ TwoSum(a, b)[2] = Round(lostA + lostB)
    BY DEF TwoSum
  <1>7. Round(0) = 0
    BY ZeroIsFloat, RoundOfFloat
  <1>8. SUFFICES Round(lostA + lostB) = err
    BY <1>2, <1>3, <1>6
  <1> DEFINE exact == a + b
  <1>9. exact \in Int /\ err = exact - s
    BY <1>1
  <1>10. CASE AbsInt(b) <= AbsInt(a)
    <2>1. bv = s - a
      BY <1>10, LessLongerIsFloat, RoundOfFloat
    <2>2. s - bv = a
      <3> HIDE DEF s, bv
      <3>1. QED
        BY <1>1, <1>2, <2>1, SMT
    <2>3. av = a
      BY <2>2, RoundOfFloat
    <2>4. lostA = 0
      <3>1. a - av = 0
        BY <1>1, <2>3, SMT
      <3>2. QED
        BY <3>1, <1>7
    <2>5. b - bv = err
      <3> HIDE DEF s, bv
      <3>1. QED
        BY <1>1, <1>2, <2>1, SMT
    <2>6. lostB = err
      BY <1>2, <2>5, RoundOfFloat
    <2>7. lostA + lostB = err
      <3> HIDE DEF lostA, lostB, err
      <3>1. QED
        BY <1>3, <2>4, <2>6, SMT
    <2>8. QED
      BY <1>2, <2>7, RoundOfFloat
  <1>11. CASE AbsInt(a) <= AbsInt(b) /\ AbsInt(a) <= AbsInt(s)
    <2>1. Float(-a) /\ AbsInt(-a) <= AbsInt(s) /\ s - a = s + (-a)
      <3>1. AbsInt(-a) = AbsInt(a)
        BY <1>1, AbsType
      <3>2. s - a = s + (-a)
        <4> HIDE DEF s
        <4>1. QED
          BY <1>1, <1>2, SMT
      <3>3. QED
        BY <1>11, <3>1, <3>2, NegatedFloat
    <2>2. Float(bv - s)
      BY <1>2, <2>1, LessLongerIsFloat
    <2>3. av = s - bv
      <3>1. -(bv - s) = s - bv
        <4> HIDE DEF s, bv
        <4>1. QED
          BY <1>2, <1>5, SMT
      <3>2. Float(s - bv)
        BY <2>2, <3>1, NegatedFloat
      <3>3. QED
        BY <3>2, RoundOfFloat
    <2>4. lostA = a - av
      <3>1. Float((s + (-a)) - Round(s + (-a)))
        BY <1>2, <2>1, ErrorIsFloat
      <3>2. Float((s - a) - bv)
        BY <2>1, <3>1
      <3>3. -((s - a) - bv) = a - (s - bv)
        <4> HIDE DEF s, bv
        <4>1. QED
          BY <1>1, <1>2, <1>5, SMT
      <3>4. Float(a - (s - bv))
        BY <3>2, <3>3, NegatedFloat
      <3>5. QED
        BY <2>3, <3>4, RoundOfFloat
    <2>5. lostB = b - bv
      <3>1. Float(-err) /\ s - a = b + (-err)
        <4>1. s - a = b + (-err)
          <5> HIDE DEF s
          <5>1. QED
            BY <1>1, <1>2, SMT
        <4>2. QED
          BY <1>2, <4>1, NegatedFloat
      <3>2. AbsInt(-err) <= AbsInt(b)
        <4>1. AbsInt(s - (a + b)) <= AbsInt(b - (a + b))
          BY <1>1, RoundIsNearest
        <4>2. AbsInt(-err) = AbsInt(s - (a + b)) /\ AbsInt(b - (a + b)) = AbsInt(a)
          <5> HIDE DEF s
          <5>1. -err = s - (a + b) /\ b - (a + b) = -a
            BY <1>1, <1>2, SMT
          <5>2. AbsInt(-a) = AbsInt(a)
            BY <1>1, AbsType
          <5>3. QED
            BY <5>1, <5>2
        <4>3. AbsInt(a) \in Nat /\ AbsInt(b) \in Nat /\ AbsInt(-err) \in Nat
          <5>1. -err \in Int
            <6> HIDE DEF err
            <6>1. QED
              BY <1>3, SMT
          <5>2. QED
            BY <1>1, <5>1, AbsType
        <4> DEFINE e == AbsInt(-err)
        <4>4. e \in Nat /\ e <= AbsInt(a)
          BY <4>1, <4>2, <4>3
        <4> HIDE DEF e
        <4>5. e <= AbsInt(b)
          BY <1>11, <4>3, <4>4, SMT
        <4>6. QED
          BY <4>5 DEF e
      <3>3. Float(Round(b + (-err)) - b)
        BY <3>1, <3>2, LessLongerIsFloat
      <3>4. Float(bv - b)
        BY <3>1, <3>3
      <3>5. -(bv - b) = b - bv
        <4> HIDE DEF bv
        <4>1. QED
          BY <1>1, <1>5, SMT
      <3>6. Float(b - bv)
        BY <3>4, <3>5, NegatedFloat
      <3>7. QED
        BY <3>6, RoundOfFloat
    <2>6. lostA + lostB = err
      <3>1. lostA = a - (s - bv) /\ lostB = b - bv
        BY <2>3, <2>4, <2>5
      <3> HIDE DEF s, bv, lostA, lostB
      <3>2. QED
        BY <1>1, <1>2, <1>5, <3>1, SMT
    <2>7. QED
      BY <1>2, <2>6, RoundOfFloat
  <1>12. CASE AbsInt(a) <= AbsInt(b) /\ AbsInt(s) < AbsInt(a)
    <2>1. Float(AbsInt(a)) /\ Float(-AbsInt(a)) /\ AbsInt(a) \in Nat
      <3>1. AbsInt(a) = a \/ AbsInt(a) = -a
        BY DEF AbsInt
      <3>2. Float(AbsInt(a))
        BY <3>1, NegatedFloat
      <3>3. QED
        BY <1>1, <3>2, NegatedFloat, AbsType
    <2>2. /\ exact <= AbsInt(a) \/ AbsInt(a) <= s
          /\ -AbsInt(a) <= exact \/ s <= -AbsInt(a)
      <3>1. (AbsInt(a) <= exact => AbsInt(a) <= s) /\ (exact <= -AbsInt(a) => s <= -AbsInt(a))
        BY <1>1, <2>1, RoundPassesNone
      <3> HIDE DEF exact, s
      <3>2. QED
        BY <1>9, <2>1, <3>1, SMT
    <2>3. AbsInt(exact) <= AbsInt(a)
      <3>1. -AbsInt(s) <= s /\ s <= AbsInt(s) /\ AbsInt(s) \in Nat
        <4> HIDE DEF s
        <4>1. QED
          BY <1>2, SMT DEF AbsInt
      <3> DEFINE r == AbsInt(s)
                 p == AbsInt(a)
      <3>2. -r <= s /\ s <= r /\ r \in Nat /\ p \in Nat /\ r < p
        BY <1>12, <2>1, <3>1
      <3>3. (exact <= p \/ p <= s) /\ (-p <= exact \/ s <= -p)
        BY <2>2
      <3> HIDE DEF r, p, exact, s
      <3>4. exact <= p /\ -p <= exact
        BY <1>2, <1>9, <3>2, <3>3, SMT
      <3>5. AbsInt(exact) <= p
        BY <1>9, <3>2, <3>4, SMT DEF AbsInt
      <3>6. QED
        BY <3>5 DEF p
    <2>4. AbsInt(exact) <= AbsInt(b)
      <3>1. AbsInt(exact) \in Nat /\ AbsInt(a) \in Nat /\ AbsInt(b) \in Nat
        BY <1>1, AbsType
      <3> HIDE DEF exact
      <3>2. QED
        BY <1>12, <2>3, <3>1, SMT
    <2>5. s = exact
      BY <2>3, <2>4, ShortSumIsFloat, RoundOfFloat
    <2>6. s - a = b /\ err = 0
      <3>1. s = a + b
        BY <2>5
      <3> HIDE DEF s
      <3>2. QED
        BY <1>1, <3>1, SMT
    <2>7. bv = b
      BY <2>6, RoundOfFloat
    <2>8. s - bv = a
      <3>1. s = a + b
        BY <2>5
      <3> HIDE DEF s, bv
      <3>2. QED
        BY <1>1, <2>7, <3>1, SMT
    <2>9. av = a
      BY <2>8, RoundOfFloat
    <2>10. a - av = 0 /\ b - bv = 0
      BY <1>1, <2>7, <2>9, SMT
    <2>11. lostA = 0 /\ lostB = 0
      BY <1>7, <2>10
    <2>12. lostA + lostB = 0
      BY <2>11, SMT
    <2>13. QED
      BY <1>7, <2>6, <2>12
  <1>13. AbsInt(a) \in Nat /\ AbsInt(b) \in Nat /\ AbsInt(s) \in Nat
    BY <1>1, <1>2, AbsType
  <1>14. \/ AbsInt(b) <= AbsInt(a)
         \/ AbsInt(a) <= AbsInt(b) /\ AbsInt(a) <= AbsInt(s)
         \/ AbsInt(a) <= AbsInt(b) /\ AbsInt(s) < AbsInt(a)
    <2> HIDE DEF s
    <2>1. QED
      BY <1>13, SMT
  <1>15. QED
    BY <1>10, <1>11, <1>12, <1>14

-------------------------------------------------------------------------------
(* Outward arithmetic: every operation leads above the exact result.           *)

\* upward_add leads above the sum.
LEMMA UpwardAddAbove ==
    ASSUME NEW a \in Int, NEW b \in Int
    PROVE  UpwardAdd(a, b) \in Int /\ a + b < UpwardAdd(a, b)
  <1>1. a + b \in Int
    BY SMT
  <1>2. QED
    BY <1>1, NextUpAbove, SMT DEF UpwardAdd

\* upward_mul leads above the product.
LEMMA UpwardMulAbove ==
    ASSUME NEW a \in Int, NEW b \in Int
    PROVE  UpwardMul(a, b) \in Int /\ a * b < UpwardMul(a, b)
  <1> DEFINE p == a * b
  <1>1. p \in Int
    BY SMT
  <1>2. UpwardMul(a, b) = NextUp(Round(p))
    BY DEF UpwardMul
  <1> HIDE DEF p
  <1>3. UpwardMul(a, b) \in Int /\ p < UpwardMul(a, b)
    BY <1>1, <1>2, NextUpAbove, SMT
  <1>4. QED
    BY <1>3 DEF p

\* The triangle inequality.
LEMMA AbsOfSum ==
    ASSUME NEW a \in Int, NEW b \in Int
    PROVE  AbsInt(a + b) <= AbsInt(a) + AbsInt(b)
  BY SMT DEF AbsInt

\* outward_absolute_difference is above the difference: nothing two_sum returns is
\* left out.
LEMMA OutwardDifferenceAbove ==
    ASSUME NEW a, Float(a), NEW b, Float(b)
    PROVE  OutwardDifference(a, b) \in Int /\ AbsInt(a - b) <= OutwardDifference(a, b)
  <1> DEFINE d == TwoSum(a, -b)
             x == d[1]
             y == d[2]
  <1>1. a \in Int /\ b \in Int /\ Float(-b) /\ -b \in Int
    BY NegatedFloat, SMT DEF Float
  <1>2. x \in Int /\ y \in Int /\ x + y = a - b
    <2>1. x = Round(a + (-b)) /\ y = (a + (-b)) - Round(a + (-b)) /\ y \in Int
      BY <1>1, TwoSumExact
    <2>2. Round(a + (-b)) \in Int
      BY <1>1, RoundIsOdd, SMT
    <2>3. x \in Int /\ y = (a + (-b)) - x /\ y \in Int
      BY <2>1, <2>2
    <2> HIDE DEF x, y
    <2>4. QED
      BY <1>1, <2>3, SMT
  <1>3. OutwardDifference(a, b) = UpwardAdd(AbsInt(x), AbsInt(y))
    BY DEF OutwardDifference
  <1> HIDE DEF x, y
  <1>4. AbsInt(x) \in Nat /\ AbsInt(y) \in Nat /\ AbsInt(a - b) \in Nat
    <2>1. a - b \in Int
      BY <1>1, SMT
    <2>2. QED
      BY <1>2, <2>1, AbsType
  <1>5. AbsInt(a - b) <= AbsInt(x) + AbsInt(y)
    BY <1>2, AbsOfSum
  <1>6. UpwardAdd(AbsInt(x), AbsInt(y)) \in Int
        /\ AbsInt(x) + AbsInt(y) < UpwardAdd(AbsInt(x), AbsInt(y))
    BY <1>4, UpwardAddAbove
  <1>7. QED
    BY <1>3, <1>4, <1>5, <1>6, SMT

\* The same for the difference from a sum of two decoded parts.
LEMMA OutwardRefinedDifferenceAbove ==
    ASSUME NEW a, Float(a), NEW p, Float(p), NEW e, Float(e)
    PROVE  /\ OutwardRefinedDifference(a, p, e) \in Int
           /\ AbsInt(a - (p + e)) <= OutwardRefinedDifference(a, p, e)
  <1> DEFINE r == TwoSum(p, e)
             d == TwoSum(a, -r[1])
             r1 == r[1]
             r2 == r[2]
             d1 == d[1]
             d2 == d[2]
  <1>1. a \in Int /\ p \in Int /\ e \in Int /\ p + e \in Int
    BY SMT DEF Float
  <1>2. Float(r1) /\ r1 \in Int /\ r2 \in Int /\ r1 + r2 = p + e
    <2>1. r1 = Round(p + e) /\ r2 = (p + e) - Round(p + e) /\ r2 \in Int /\ Float(Round(p + e))
      BY TwoSumExact
    <2>2. Float(r1) /\ r1 \in Int /\ r2 = (p + e) - r1 /\ r2 \in Int
      BY <2>1 DEF Float
    <2> HIDE DEF r1, r2
    <2>3. QED
      BY <1>1, <2>2, SMT
  <1>3. d1 \in Int /\ d2 \in Int /\ d1 + d2 = a - r1
    <2>1. Float(-r1) /\ -r1 \in Int
      BY <1>2, NegatedFloat DEF Float
    <2>2. d1 = Round(a + (-r1)) /\ d2 = (a + (-r1)) - Round(a + (-r1)) /\ d2 \in Int
          /\ Float(Round(a + (-r1)))
      BY <2>1, TwoSumExact
    <2>3. d1 \in Int /\ d2 = (a + (-r1)) - d1 /\ d2 \in Int
      BY <2>2 DEF Float
    <2> HIDE DEF r1, d1, d2
    <2>4. QED
      BY <1>1, <1>2, <2>3, SMT
  <1> DEFINE inner == UpwardAdd(AbsInt(d1), AbsInt(d2))
  <1>4. OutwardRefinedDifference(a, p, e) = UpwardAdd(inner, AbsInt(r2))
    BY DEF OutwardRefinedDifference
  <1> HIDE DEF r1, r2, d1, d2
  <1>5. AbsInt(d1) \in Nat /\ AbsInt(d2) \in Nat /\ AbsInt(r2) \in Nat
    BY <1>2, <1>3, AbsType
  <1>6. inner \in Int /\ AbsInt(d1) + AbsInt(d2) < inner
    BY <1>5, UpwardAddAbove
  <1> HIDE DEF inner
  <1>7. UpwardAdd(inner, AbsInt(r2)) \in Int /\ inner + AbsInt(r2) < UpwardAdd(inner, AbsInt(r2))
    BY <1>5, <1>6, UpwardAddAbove
  <1>8. a - (p + e) \in Int /\ AbsInt(a - (p + e)) <= AbsInt(d1) + AbsInt(d2) + AbsInt(r2)
    BY <1>1, <1>2, <1>3, SMT DEF AbsInt
  <1>9. AbsInt(a - (p + e)) \in Nat
    BY <1>8, AbsType
  <1> DEFINE t == AbsInt(a - (p + e))
  <1>10. t \in Nat /\ t <= AbsInt(d1) + AbsInt(d2) + AbsInt(r2)
    BY <1>8, <1>9
  <1> HIDE DEF t
  <1>11. t <= UpwardAdd(inner, AbsInt(r2))
    BY <1>5, <1>6, <1>7, <1>10, SMT
  <1>12. QED
    BY <1>4, <1>7, <1>11 DEF t

-------------------------------------------------------------------------------
(* Sums over the coordinates.                                                  *)

\* What holds before the first coordinate, and of each if of the one before, holds
\* of all.
LEMMA CoordinateInduction ==
    ASSUME NEW T, 0 \in T, \A c \in Coordinates : c - 1 \in T => c \in T
    PROVE  \A c \in 0..Dimension : c \in T
  <1> DEFINE Wrong == {i \in 0..Dimension : i \notin T}
  <1>1. SUFFICES ASSUME Wrong # {} PROVE FALSE
    OBVIOUS
  <1>2. Wrong \subseteq Nat
    BY SMT
  <1>3. PICK m \in Wrong : \A y \in Wrong : ~ (y < m)
    BY <1>1, <1>2, FirstNatural
  <1>4. m \in 0..Dimension /\ m \notin T /\ Dimension \in Nat
    BY <1>3, CertificateAssumption
  <1>5. m # 0
    BY <1>4
  <1>6. m \in Coordinates /\ m - 1 \in 0..Dimension /\ m - 1 < m
    BY <1>4, <1>5, SMT DEF Coordinates
  <1>7. m - 1 \in T
    BY <1>3, <1>6
  <1>8. QED
    BY <1>4, <1>6, <1>7

\* A recursion that counts to n has a solution.
LEMMA CountedRecursion ==
    ASSUME NEW n \in Nat, NEW step \in [Int \X (1..n) -> Int]
    PROVE  \E g \in [0..n -> Int] : \A c \in 0..n : g[c] = IF c = 0 THEN 0 ELSE step[<<g[c - 1], c>>]
  <1> DEFINE Solves(g, i) == /\ g \in [0..i -> Int]
                             /\ \A c \in 0..i : g[c] = IF c = 0 THEN 0 ELSE step[<<g[c - 1], c>>]
             Wrong == {i \in 0..n : ~ \E g : Solves(g, i)}
  <1>1. Wrong = {}
    <2>1. SUFFICES ASSUME Wrong # {} PROVE FALSE
      OBVIOUS
    <2>2. Wrong \subseteq Nat
      BY SMT
    <2>3. PICK m \in Wrong : \A y \in Wrong : ~ (y < m)
      BY <2>1, <2>2, FirstNatural
    <2>4. m \in 0..n /\ m \in Nat /\ ~ \E g : Solves(g, m)
      BY <2>2, <2>3
    <2>5. CASE m = 0
      <3>1. Solves([c \in 0..0 |-> 0], 0)
        BY SMT
      <3>2. QED
        BY <2>4, <2>5, <3>1
    <2>6. CASE m # 0
      <3>1. m - 1 \in 0..n /\ m - 1 < m /\ m - 1 \in 0..(m - 1) /\ m \in 1..n /\ m \in 0..m
        BY <2>4, <2>6, SMT
      <3>2. PICK g : Solves(g, m - 1)
        BY <2>3, <3>1
      <3>3. g[m - 1] \in Int
        BY <3>1, <3>2
      <3> DEFINE last == step[<<g[m - 1], m>>]
                 h == [c \in 0..m |-> IF c = m THEN last ELSE g[c]]
      <3>4. last \in Int
        BY <3>1, <3>3
      <3>5. \A c \in 0..m : c # m => c \in 0..(m - 1)
        BY <2>4, SMT
      <3>6. h \in [0..m -> Int]
        BY <3>2, <3>4, <3>5
      <3>7. \A c \in 0..(m - 1) : h[c] = g[c]
        BY <2>4, SMT
      <3>8. ASSUME NEW c \in 0..m
            PROVE  h[c] = IF c = 0 THEN 0 ELSE step[<<h[c - 1], c>>]
        <4>1. CASE c = m
          <5>1. h[c] = last /\ h[c - 1] = g[c - 1]
            BY <3>1, <3>7, <4>1
          <5>2. QED
            BY <2>6, <4>1, <5>1
        <4>2. CASE c # m
          <5>1. c \in 0..(m - 1) /\ (c = 0 \/ c - 1 \in 0..(m - 1))
            BY <2>4, <4>2, SMT
          <5>2. h[c] = g[c] /\ (c = 0 \/ h[c - 1] = g[c - 1])
            BY <3>7, <5>1
          <5>3. g[c] = IF c = 0 THEN 0 ELSE step[<<g[c - 1], c>>]
            BY <3>2, <5>1
          <5>4. QED
            BY <5>2, <5>3
        <4>3. QED
          BY <4>1, <4>2
      <3> HIDE DEF h
      <3>9. Solves(h, m)
        BY <3>6, <3>8
      <3>10. QED
        BY <2>4, <3>9
    <2>7. QED
      BY <2>5, <2>6
  <1>2. n \in 0..n
    BY SMT
  <1>3. PICK g : Solves(g, n)
    BY <1>1, <1>2
  <1>4. QED
    BY <1>3

\* The partial sums of numbers that the coordinates have.
PartialSums(g, values) ==
    /\ g \in [0..Dimension -> Int]
    /\ g[0] = 0
    /\ \A c \in Coordinates : c - 1 \in 0..Dimension /\ c \in 0..Dimension
                              /\ g[c] = g[c - 1] + values[c]

Summing(g, values) == g = [c \in 0..Dimension |-> IF c = 0 THEN 0 ELSE g[c - 1] + values[c]]

\* The coordinates are the numbers from 1 to the dimension.
LEMMA CoordinatesAre ==
    /\ Dimension \in Nat /\ 0 \in 0..Dimension /\ Dimension \in 0..Dimension
    /\ \A c \in Coordinates : /\ c \in 1..Dimension /\ c \in Nat /\ c # 0
                              /\ c - 1 \in 0..Dimension /\ c \in 0..Dimension
    /\ \A c \in 0..Dimension : c = 0 \/ c \in Coordinates
  <1>1. Dimension \in Nat
    BY CertificateAssumption
  <1>2. QED
    BY <1>1, SMT DEF Coordinates

\* The total of integers is the last of their partial sums.
LEMMA TotalIs ==
    ASSUME NEW values, \A c \in Coordinates : values[c] \in Int
    PROVE  \E g : PartialSums(g, values) /\ Total(values) = g[Dimension]
  <1> DEFINE step == [pair \in Int \X (1..Dimension) |-> pair[1] + values[pair[2]]]
  <1>1. Dimension \in Nat /\ Coordinates = 1..Dimension
    BY CoordinatesAre DEF Coordinates
  <1>2. step \in [Int \X (1..Dimension) -> Int]
    <2>1. ASSUME NEW pair \in Int \X (1..Dimension) PROVE pair[1] + values[pair[2]] \in Int
      <3>1. pair[1] \in Int /\ values[pair[2]] \in Int
        BY <1>1
      <3>2. QED
        BY <3>1, SMT
    <2>2. QED
      BY <2>1
  <1>3. \A a \in Int, c \in 1..Dimension : step[<<a, c>>] = a + values[c]
    OBVIOUS
  <1> HIDE DEF step
  <1>4. PICK g \in [0..Dimension -> Int] :
           \A c \in 0..Dimension : g[c] = IF c = 0 THEN 0 ELSE step[<<g[c - 1], c>>]
    BY <1>1, <1>2, CountedRecursion
  <1>5. \A c \in 0..Dimension : g[c] = IF c = 0 THEN 0 ELSE g[c - 1] + values[c]
    <2> SUFFICES ASSUME NEW c \in 0..Dimension
                 PROVE  g[c] = IF c = 0 THEN 0 ELSE g[c - 1] + values[c]
      OBVIOUS
    <2>1. CASE c = 0
      BY <1>4, <2>1
    <2>2. CASE c # 0
      <3>1. c \in 1..Dimension /\ g[c - 1] \in Int
        BY <1>1, <2>2, CoordinatesAre
      <3>2. QED
        BY <1>3, <1>4, <2>2, <3>1
    <2>3. QED
      BY <2>1, <2>2
  <1>6. Summing(g, values)
    BY <1>5 DEF Summing
  <1>7. Total(values) = (CHOOSE f : Summing(f, values))[Dimension]
    BY Zenon DEF Total, Summing
  <1> DEFINE f == CHOOSE h : Summing(h, values)
  <1>8. Summing(f, values)
    BY <1>6
  <1>9. Total(values) = f[Dimension]
    BY <1>7
  <1> HIDE DEF f
  <1>10. \A c \in 0..Dimension : f[c] = IF c = 0 THEN 0 ELSE f[c - 1] + values[c]
    BY <1>8 DEF Summing
  <1>11. \A c \in 0..Dimension : f[c] \in Int
    <2> DEFINE T == {c \in 0..Dimension : f[c] \in Int}
    <2>1. 0 \in T
      BY <1>10, CoordinatesAre
    <2>2. ASSUME NEW c \in Coordinates, c - 1 \in T PROVE c \in T
      <3>1. f[c] = f[c - 1] + values[c] /\ f[c - 1] \in Int /\ values[c] \in Int
        BY <1>10, <2>2, CoordinatesAre
      <3>2. f[c] \in Int
        BY <3>1, SMT
      <3>3. QED
        BY <3>2, CoordinatesAre
    <2> HIDE DEF T
    <2>3. \A c \in 0..Dimension : c \in T
      BY <2>1, <2>2, CoordinateInduction
    <2>4. QED
      BY <2>3 DEF T
  <1>12. f \in [0..Dimension -> Int]
    BY <1>8, <1>11 DEF Summing
  <1>13. PartialSums(f, values)
    BY <1>10, <1>12, CoordinatesAre DEF PartialSums
  <1>14. QED
    BY <1>9, <1>13

\* And an integer.
LEMMA TotalType ==
    ASSUME NEW values, \A c \in Coordinates : values[c] \in Int
    PROVE  Total(values) \in Int
  <1>1. PICK g : PartialSums(g, values) /\ Total(values) = g[Dimension]
    BY TotalIs
  <1>2. QED
    BY <1>1, CoordinatesAre DEF PartialSums

\* Sums add up.
LEMMA TotalAdds ==
    ASSUME NEW u, \A c \in Coordinates : u[c] \in Int,
           NEW v, \A c \in Coordinates : v[c] \in Int,
           NEW w, \A c \in Coordinates : w[c] = u[c] + v[c]
    PROVE  Total(w) = Total(u) + Total(v)
  <1>1. PICK f : PartialSums(f, u) /\ Total(u) = f[Dimension]
    BY TotalIs
  <1>2. PICK g : PartialSums(g, v) /\ Total(v) = g[Dimension]
    BY TotalIs
  <1>3. \A c \in Coordinates : w[c] \in Int
    BY SMT
  <1>4. PICK h : PartialSums(h, w) /\ Total(w) = h[Dimension]
    BY <1>3, TotalIs
  <1> DEFINE T == {c \in 0..Dimension : h[c] = f[c] + g[c]}
  <1>5. 0 \in T
    BY <1>1, <1>2, <1>4, CoordinatesAre DEF PartialSums
  <1>6. ASSUME NEW c \in Coordinates, c - 1 \in T PROVE c \in T
    <2>1. /\ h[c] = h[c - 1] + w[c] /\ f[c] = f[c - 1] + u[c] /\ g[c] = g[c - 1] + v[c]
          /\ h[c - 1] = f[c - 1] + g[c - 1]
          /\ f[c - 1] \in Int /\ g[c - 1] \in Int /\ c \in 0..Dimension
      BY <1>1, <1>2, <1>4, <1>6 DEF PartialSums
    <2>2. w[c] = u[c] + v[c] /\ u[c] \in Int /\ v[c] \in Int
      OBVIOUS
    <2>3. h[c] = f[c] + g[c]
      BY <2>1, <2>2, SMT
    <2>4. QED
      BY <2>1, <2>3
  <1> HIDE DEF T
  <1>7. Dimension \in T
    BY <1>5, <1>6, CoordinateInduction, CoordinatesAre
  <1>8. QED
    BY <1>1, <1>2, <1>4, <1>7 DEF T

\* A sum of numbers that are e apart at most differs by e for every coordinate.
LEMMA TotalsApart ==
    ASSUME NEW i \in Int, NEW e \in Nat,
           NEW u, \A c \in Coordinates : u[c] \in Int,
           NEW v, \A c \in Coordinates : v[c] \in Int,
           \A c \in Coordinates : AbsInt(u[c] * i - v[c]) <= e
    PROVE  AbsInt(Total(u) * i - Total(v)) <= Dimension * e
  <1>1. PICK f : PartialSums(f, u) /\ Total(u) = f[Dimension]
    BY TotalIs
  <1>2. PICK g : PartialSums(g, v) /\ Total(v) = g[Dimension]
    BY TotalIs
  <1> DEFINE T == {c \in 0..Dimension : AbsInt(f[c] * i - g[c]) <= c * e}
  <1>3. 0 \in T
    <2>1. f[0] = 0 /\ g[0] = 0
      BY <1>1, <1>2 DEF PartialSums
    <2>2. AbsInt(f[0] * i - g[0]) <= 0 * e
      BY <2>1, SMT DEF AbsInt
    <2>3. QED
      BY <2>2, CoordinatesAre
  <1>4. ASSUME NEW c \in Coordinates, c - 1 \in T PROVE c \in T
    <2>1. /\ f[c] = f[c - 1] + u[c] /\ g[c] = g[c - 1] + v[c]
          /\ f[c - 1] \in Int /\ g[c - 1] \in Int /\ c \in 0..Dimension
      BY <1>1, <1>2 DEF PartialSums
    <2>2. AbsInt(f[c - 1] * i - g[c - 1]) <= (c - 1) * e
      BY <1>4
    <2>3. AbsInt(u[c] * i - v[c]) <= e /\ u[c] \in Int /\ v[c] \in Int /\ c \in Nat
      BY CoordinatesAre
    <2> DEFINE x == f[c - 1] * i - g[c - 1]
               y == u[c] * i - v[c]
    <2>4. x \in Int /\ y \in Int
      BY <2>1, <2>3, SMT
    <2>5. f[c] * i - g[c] = x + y
      BY <2>1, <2>3, SMT
    <2>6. c * e = (c - 1) * e + e /\ (c - 1) * e \in Int
      BY <2>3, SMT
    <2> HIDE DEF x, y
    <2>7. AbsInt(x) \in Nat /\ AbsInt(y) \in Nat /\ x + y \in Int
      BY <2>4, AbsType, SMT
    <2>8. AbsInt(x + y) <= AbsInt(x) + AbsInt(y) /\ AbsInt(x + y) \in Nat
      BY <2>4, <2>7, AbsOfSum, AbsType
    <2>9. AbsInt(x) <= (c - 1) * e /\ AbsInt(y) <= e
      BY <2>2, <2>3 DEF x, y
    <2>10. AbsInt(x + y) <= c * e
      BY <2>6, <2>7, <2>8, <2>9, SMT
    <2>11. QED
      BY <2>1, <2>5, <2>10
  <1> HIDE DEF T
  <1>5. Dimension \in T
    BY <1>3, <1>4, CoordinateInduction, CoordinatesAre
  <1>6. QED
    BY <1>1, <1>2, <1>5 DEF T

\* A sum of numbers that are at most m long is at most m for every coordinate.
LEMMA TotalBounded ==
    ASSUME NEW m \in Nat, NEW u, \A c \in Coordinates : u[c] \in Int /\ AbsInt(u[c]) <= m
    PROVE  AbsInt(Total(u)) <= Dimension * m
  <1> DEFINE zero == [c \in Coordinates |-> 0]
  <1>1. \A c \in Coordinates : zero[c] \in Int /\ AbsInt(u[c] * 1 - zero[c]) <= m
    BY SMT
  <1>2. \A c \in Coordinates : zero[c] + zero[c] = zero[c]
    BY SMT
  <1>3. Total(zero) \in Int /\ Total(zero) = Total(zero) + Total(zero)
    BY <1>1, <1>2, TotalType, TotalAdds
  <1>4. Total(zero) = 0
    <2>1. \A z \in Int : z = z + z => z = 0
      BY SMT
    <2> HIDE DEF zero
    <2>2. QED
      BY <1>3, <2>1
  <1>5. AbsInt(Total(u) * 1 - Total(zero)) <= Dimension * m
    BY <1>1, TotalsApart
  <1>6. Total(u) * 1 - Total(zero) = Total(u)
    BY <1>4, TotalType, SMT
  <1>7. QED
    BY <1>5, <1>6

-------------------------------------------------------------------------------
(* Vectors and their products.                                                 *)

Plus(a, b) == [c \in Coordinates |-> a[c] + b[c]]
Minus(a, b) == [c \in Coordinates |-> a[c] - b[c]]

\* A vector that is no longer than m.
NoLonger(a, m) == a \in Vector /\ m \in Nat /\ Dot(a, a) <= m * m

\* Sums, differences and products of vectors of integers.
LEMMA VectorTypes ==
    ASSUME NEW a \in Vector, NEW b \in Vector
    PROVE  /\ Plus(a, b) \in Vector /\ Minus(a, b) \in Vector /\ Dot(a, b) \in Int
           /\ \A c \in Coordinates : a[c] \in Int /\ b[c] \in Int /\ a[c] * b[c] \in Int
  <1>1. \A c \in Coordinates : a[c] \in Int /\ b[c] \in Int
    BY DEF Vector
  <1>2. \A c \in Coordinates : a[c] + b[c] \in Int /\ a[c] - b[c] \in Int /\ a[c] * b[c] \in Int
    BY <1>1, SMT
  <1>3. Plus(a, b) \in Vector /\ Minus(a, b) \in Vector
    BY <1>2 DEF Plus, Minus, Vector
  <1> DEFINE products == [c \in Coordinates |-> a[c] * b[c]]
  <1>4. \A c \in Coordinates : products[c] \in Int
    BY <1>2
  <1>5. Dot(a, b) = Total(products)
    BY DEF Dot
  <1> HIDE DEF products
  <1>6. Dot(a, b) \in Int
    BY <1>4, <1>5, TotalType
  <1>7. QED
    BY <1>1, <1>2, <1>3, <1>6

\* The product of two vectors is symmetric,
LEMMA DotCommutes ==
    ASSUME NEW a \in Vector, NEW b \in Vector
    PROVE  Dot(a, b) = Dot(b, a)
  <1>1. \A c \in Coordinates : a[c] \in Int /\ b[c] \in Int
    BY DEF Vector
  <1>2. \A c \in Coordinates : a[c] * b[c] = b[c] * a[c]
    BY <1>1, SMT
  <1>3. [c \in Coordinates |-> a[c] * b[c]] = [c \in Coordinates |-> b[c] * a[c]]
    BY <1>2
  <1>4. QED
    BY <1>3 DEF Dot

\* and linear,
LEMMA DotAdds ==
    ASSUME NEW a \in Vector, NEW b \in Vector, NEW d \in Vector
    PROVE  Dot(a, Plus(b, d)) = Dot(a, b) + Dot(a, d)
  <1> DEFINE u == [c \in Coordinates |-> a[c] * b[c]]
             v == [c \in Coordinates |-> a[c] * d[c]]
             w == [c \in Coordinates |-> a[c] * Plus(b, d)[c]]
  <1>1. \A c \in Coordinates : a[c] \in Int /\ b[c] \in Int /\ d[c] \in Int
    BY DEF Vector
  <1>2. ASSUME NEW c \in Coordinates
        PROVE  u[c] \in Int /\ v[c] \in Int /\ w[c] = u[c] + v[c]
    <2>1. Plus(b, d)[c] = b[c] + d[c]
      BY DEF Plus
    <2>2. u[c] = a[c] * b[c] /\ v[c] = a[c] * d[c] /\ w[c] = a[c] * (b[c] + d[c])
      BY <2>1
    <2> HIDE DEF u, v, w
    <2>3. QED
      BY <1>1, <2>2, SMT
  <1>3. Dot(a, b) = Total(u) /\ Dot(a, d) = Total(v) /\ Dot(a, Plus(b, d)) = Total(w)
    BY DEF Dot
  <1> HIDE DEF u, v, w
  <1>4. QED
    BY <1>2, <1>3, TotalAdds

\* also in differences.
LEMMA DotSubtracts ==
    ASSUME NEW a \in Vector, NEW b \in Vector, NEW d \in Vector
    PROVE  Dot(a, Minus(b, d)) = Dot(a, b) - Dot(a, d)
  <1> DEFINE m == Minus(b, d)
  <1>1. m \in Vector
    BY VectorTypes
  <1>2. Plus(m, d) = b
    <2>1. \A c \in Coordinates : b[c] \in Int /\ d[c] \in Int
      BY DEF Vector
    <2>2. \A c \in Coordinates : (b[c] - d[c]) + d[c] = b[c]
      BY <2>1, SMT
    <2>3. \A c \in Coordinates : Plus(m, d)[c] = b[c]
      BY <2>2 DEF Plus, Minus
    <2>4. QED
      BY <2>3 DEF Plus, Vector
  <1> HIDE DEF m
  <1>3. Dot(a, b) = Dot(a, m) + Dot(a, d)
    BY <1>1, <1>2, DotAdds
  <1>4. Dot(a, b) \in Int /\ Dot(a, m) \in Int /\ Dot(a, d) \in Int
    BY <1>1, VectorTypes
  <1>5. Dot(a, m) = Dot(a, b) - Dot(a, d)
    BY <1>3, <1>4, SMT
  <1>6. QED
    BY <1>5 DEF m

\* One term more: p * p <= q * r is kept when x * y joins p.
LEMMA SquaresJoin ==
    ASSUME NEW p \in Int, NEW q \in Nat, NEW r \in Nat, NEW x \in Int, NEW y \in Int,
           p * p <= q * r
    PROVE  (p + x * y) * (p + x * y) <= (q + x * x) * (r + y * y)
  <1> DEFINE xx == x * x
             yy == y * y
             xy == x * y
             left == 2 * (p * xy)
             right == q * yy + r * xx
  <1>1. xx \in Nat /\ yy \in Nat /\ xy \in Int /\ xy * xy = xx * yy
    BY SMT
  <1>2. left \in Int /\ right \in Nat
    <2> HIDE DEF xx, yy, xy
    <2>1. QED
      BY <1>1, SMT
  <1>3. left * left <= right * right
    <2> HIDE DEF xx, yy, xy
    <2>1. left * left = 4 * ((p * p) * (xx * yy))
      <3>1. left * left = 4 * ((p * p) * (xy * xy))
        BY <1>1, SMT
      <3>2. QED
        BY <1>1, <3>1
    <2>2. (p * p) * (xx * yy) <= (q * r) * (xx * yy)
      <3>1. p * p \in Nat /\ q * r \in Nat /\ xx * yy \in Nat
        BY <1>1, SMT
      <3>2. QED
        BY <3>1, ProductGrows, SMT
    <2>3. 4 * ((q * r) * (xx * yy)) <= right * right
      <3> DEFINE a == q * yy
                 b == r * xx
      <3>1. a \in Int /\ b \in Int /\ (q * r) * (xx * yy) = a * b
        BY <1>1, SMT
      <3> HIDE DEF a, b
      <3>2. 4 * (a * b) <= (a + b) * (a + b)
        <4>1. (a + b) * (a + b) = 4 * (a * b) + (a - b) * (a - b)
          BY <3>1, SMT
        <4>2. (a - b) * (a - b) >= 0 /\ (a - b) * (a - b) \in Int /\ a * b \in Int
          BY <3>1, SMT
        <4>3. QED
          BY <4>1, <4>2, SMT
      <3>3. QED
        BY <3>1, <3>2 DEF a, b
    <2>4. (p * p) * (xx * yy) \in Int /\ (q * r) * (xx * yy) \in Int /\ right * right \in Int
      BY <1>1, <1>2, SMT
    <2>5. QED
      BY <2>1, <2>2, <2>3, <2>4, SMT
  <1>4. left <= right
    <2> HIDE DEF left, right
    <2>1. SUFFICES ASSUME right < left PROVE FALSE
      BY <1>2, SMT
    <2>2. left \in Nat /\ right + 1 <= left
      BY <1>2, <2>1, SMT
    <2>3. (right + 1) * (right + 1) <= left * left
      BY <1>2, <2>2, ProductGrows, SMT
    <2>4. (right + 1) * (right + 1) = right * right + 2 * right + 1
      BY <1>2, SMT
    <2>5. right * right \in Int /\ left * left \in Int
      BY <1>2, SMT
    <2>6. QED
      BY <1>2, <1>3, <2>3, <2>4, <2>5, SMT
  <1>5. (p + xy) * (p + xy) = p * p + left + xy * xy
    <2> HIDE DEF xy, xx, yy
    <2>1. QED
      BY <1>1, SMT
  <1>6. (q + xx) * (r + yy) = q * r + right + xx * yy
    <2> HIDE DEF xy, xx, yy
    <2>1. QED
      BY <1>1, SMT
  <1>7. p * p \in Int /\ q * r \in Int /\ xx * yy \in Int
    <2> HIDE DEF xy, xx, yy
    <2>1. QED
      BY <1>1, SMT
  <1>8. (p + xy) * (p + xy) <= (q + xx) * (r + yy)
    <2> HIDE DEF left, right, xy, xx, yy
    <2>1. QED
      BY <1>1, <1>2, <1>4, <1>5, <1>6, <1>7, SMT
  <1>9. QED
    BY <1>8

\* The inequality of Cauchy and Schwarz.
LEMMA DotSquared ==
    ASSUME NEW a \in Vector, NEW b \in Vector
    PROVE  /\ Dot(a, b) * Dot(a, b) <= Dot(a, a) * Dot(b, b)
           /\ Dot(a, a) \in Nat /\ Dot(b, b) \in Nat /\ Dot(a, b) \in Int
  <1> DEFINE ab == [c \in Coordinates |-> a[c] * b[c]]
             aa == [c \in Coordinates |-> a[c] * a[c]]
             bb == [c \in Coordinates |-> b[c] * b[c]]
  <1>1. \A c \in Coordinates : ab[c] \in Int /\ aa[c] \in Int /\ bb[c] \in Int
    BY VectorTypes
  <1>2. Dot(a, b) = Total(ab) /\ Dot(a, a) = Total(aa) /\ Dot(b, b) = Total(bb)
    BY DEF Dot
  <1>3. \A c \in Coordinates : /\ ab[c] = a[c] * b[c] /\ aa[c] = a[c] * a[c] /\ bb[c] = b[c] * b[c]
                               /\ a[c] \in Int /\ b[c] \in Int
    BY VectorTypes
  <1> HIDE DEF ab, aa, bb
  <1>4. PICK f : PartialSums(f, ab) /\ Total(ab) = f[Dimension]
    BY <1>1, TotalIs
  <1>5. PICK g : PartialSums(g, aa) /\ Total(aa) = g[Dimension]
    BY <1>1, TotalIs
  <1>6. PICK h : PartialSums(h, bb) /\ Total(bb) = h[Dimension]
    BY <1>1, TotalIs
  <1> DEFINE T == {c \in 0..Dimension : g[c] >= 0 /\ h[c] >= 0 /\ f[c] * f[c] <= g[c] * h[c]}
  <1>7. 0 \in T
    <2>1. f[0] = 0 /\ g[0] = 0 /\ h[0] = 0
      BY <1>4, <1>5, <1>6 DEF PartialSums
    <2>2. QED
      BY <2>1, CoordinatesAre, SMT
  <1>8. ASSUME NEW c \in Coordinates, c - 1 \in T PROVE c \in T
    <2>1. /\ f[c] = f[c - 1] + a[c] * b[c]
          /\ g[c] = g[c - 1] + a[c] * a[c]
          /\ h[c] = h[c - 1] + b[c] * b[c]
          /\ f[c - 1] \in Int /\ g[c - 1] \in Int /\ h[c - 1] \in Int
          /\ a[c] \in Int /\ b[c] \in Int /\ c \in 0..Dimension
      BY <1>3, <1>4, <1>5, <1>6 DEF PartialSums
    <2>2. g[c - 1] >= 0 /\ h[c - 1] >= 0 /\ f[c - 1] * f[c - 1] <= g[c - 1] * h[c - 1]
      BY <1>8
    <2> DEFINE p == f[c - 1]
               q == g[c - 1]
               r == h[c - 1]
               x == a[c]
               y == b[c]
    <2>3. p \in Int /\ q \in Nat /\ r \in Nat /\ x \in Int /\ y \in Int /\ p * p <= q * r
      BY <2>1, <2>2, SMT
    <2>4. f[c] = p + x * y /\ g[c] = q + x * x /\ h[c] = r + y * y
      BY <2>1
    <2> HIDE DEF p, q, r, x, y
    <2>5. (p + x * y) * (p + x * y) <= (q + x * x) * (r + y * y)
      BY <2>3, SquaresJoin
    <2>6. q + x * x >= 0 /\ r + y * y >= 0
      BY <2>3, SMT
    <2>7. g[c] >= 0 /\ h[c] >= 0 /\ f[c] * f[c] <= g[c] * h[c]
      BY <2>4, <2>5, <2>6
    <2>8. QED
      BY <2>1, <2>7
  <1> HIDE DEF T
  <1>9. Dimension \in T
    BY <1>7, <1>8, CoordinateInduction, CoordinatesAre
  <1>10. g[Dimension] >= 0 /\ h[Dimension] >= 0
         /\ f[Dimension] * f[Dimension] <= g[Dimension] * h[Dimension]
    BY <1>9 DEF T
  <1>11. f[Dimension] \in Int /\ g[Dimension] \in Int /\ h[Dimension] \in Int
    BY <1>4, <1>5, <1>6, CoordinatesAre DEF PartialSums
  <1>12. g[Dimension] \in Nat /\ h[Dimension] \in Nat
    BY <1>10, <1>11, SMT
  <1>13. QED
    BY <1>2, <1>4, <1>5, <1>6, <1>10, <1>11, <1>12

\* A number whose square is no larger is no longer.
LEMMA RootsCompare ==
    ASSUME NEW p \in Int, NEW m \in Nat, p * p <= m * m
    PROVE  AbsInt(p) <= m
  <1>1. AbsInt(p) \in Nat /\ AbsInt(p) * AbsInt(p) = p * p
    BY SMT DEF AbsInt
  <1> DEFINE a == AbsInt(p)
  <1>2. a \in Nat /\ a * a <= m * m
    BY <1>1
  <1> HIDE DEF a
  <1>3. a <= m
    <2>1. SUFFICES ASSUME m + 1 <= a PROVE FALSE
      BY <1>2, SMT
    <2>2. (m + 1) * (m + 1) <= a * a
      BY <1>2, <2>1, ProductGrows, SMT
    <2>3. (m + 1) * (m + 1) = m * m + 2 * m + 1 /\ m * m \in Int /\ a * a \in Int
      BY <1>2, SMT
    <2>4. QED
      BY <1>2, <2>2, <2>3, SMT
  <1>4. QED
    BY <1>3 DEF a

\* The product of two vectors is no longer than the product of their lengths.
LEMMA DotWithin ==
    ASSUME NEW a, NEW m, NoLonger(a, m), NEW b, NEW n, NoLonger(b, n)
    PROVE  AbsInt(Dot(a, b)) <= m * n /\ Dot(a, b) \in Int /\ m * n \in Nat
  <1>1. a \in Vector /\ b \in Vector /\ m \in Nat /\ n \in Nat
        /\ Dot(a, a) <= m * m /\ Dot(b, b) <= n * n
    BY DEF NoLonger
  <1>2. Dot(a, b) * Dot(a, b) <= Dot(a, a) * Dot(b, b)
        /\ Dot(a, a) \in Nat /\ Dot(b, b) \in Nat /\ Dot(a, b) \in Int
    BY <1>1, DotSquared
  <1> DEFINE p == Dot(a, b)
             q == Dot(a, a)
             r == Dot(b, b)
  <1>3. p \in Int /\ q \in Nat /\ r \in Nat /\ p * p <= q * r /\ q <= m * m /\ r <= n * n
    BY <1>1, <1>2
  <1> HIDE DEF p, q, r
  <1>4. m * m \in Nat /\ n * n \in Nat /\ m * n \in Nat /\ (m * n) * (m * n) = (m * m) * (n * n)
    BY <1>1, SMT
  <1>5. q * r <= (m * m) * (n * n)
    BY <1>3, <1>4, ProductGrows
  <1>6. p * p <= (m * n) * (m * n)
    <2>1. p * p \in Int /\ q * r \in Int /\ (m * n) * (m * n) \in Int
      BY <1>3, <1>4, SMT
    <2>2. q * r <= (m * n) * (m * n)
      BY <1>4, <1>5
    <2> DEFINE s == (m * n) * (m * n)
               pp == p * p
               qr == q * r
    <2>3. pp \in Int /\ qr \in Int /\ s \in Int /\ pp <= qr /\ qr <= s
      BY <1>3, <2>1, <2>2
    <2> HIDE DEF s, pp, qr
    <2>4. pp <= s
      BY <2>3, SMT
    <2>5. QED
      BY <2>4 DEF s, pp
  <1>7. AbsInt(p) <= m * n
    BY <1>3, <1>4, <1>6, RootsCompare
  <1>8. QED
    BY <1>2, <1>4, <1>7 DEF p

\* The sum of two vectors is no longer than both together.
LEMMA PlusWithin ==
    ASSUME NEW a, NEW m, NoLonger(a, m), NEW b, NEW n, NoLonger(b, n)
    PROVE  NoLonger(Plus(a, b), m + n)
  <1>1. a \in Vector /\ b \in Vector /\ m \in Nat /\ n \in Nat
        /\ Dot(a, a) <= m * m /\ Dot(b, b) <= n * n
    BY DEF NoLonger
  <1> DEFINE s == Plus(a, b)
  <1>2. s \in Vector
    BY <1>1, VectorTypes
  <1>3. Dot(s, s) = Dot(s, a) + Dot(s, b) /\ Dot(s, a) = Dot(a, s) /\ Dot(s, b) = Dot(b, s)
    BY <1>1, <1>2, DotAdds, DotCommutes
  <1>4. Dot(a, s) = Dot(a, a) + Dot(a, b) /\ Dot(b, s) = Dot(b, a) + Dot(b, b)
        /\ Dot(b, a) = Dot(a, b)
    BY <1>1, DotAdds, DotCommutes
  <1>5. Dot(a, b) \in Int /\ AbsInt(Dot(a, b)) <= m * n /\ m * n \in Nat
    BY DotWithin
  <1>6. Dot(a, a) \in Int /\ Dot(b, b) \in Int
    BY <1>1, VectorTypes
  <1>7. (m + n) * (m + n) = m * m + 2 * (m * n) + n * n /\ m * m \in Int /\ n * n \in Int
        /\ m + n \in Nat
    BY <1>1, SMT
  <1> DEFINE x == Dot(a, b)
  <1>8. x \in Int /\ x <= m * n
    <2>1. x <= AbsInt(x) /\ AbsInt(x) \in Nat
      BY <1>5, AbsType
    <2> DEFINE y == AbsInt(x)
    <2>2. x \in Int /\ y \in Nat /\ x <= y /\ y <= m * n
      BY <1>5, <2>1
    <2> HIDE DEF x, y
    <2>3. QED
      BY <1>5, <2>2, SMT
  <1>9. Dot(s, s) = (Dot(a, a) + x) + (x + Dot(b, b))
    BY <1>3, <1>4
  <1> HIDE DEF x, s
  <1>10. Dot(s, s) <= (m + n) * (m + n)
    BY <1>1, <1>5, <1>6, <1>7, <1>8, <1>9, SMT
  <1>11. QED
    BY <1>2, <1>7, <1>10 DEF NoLonger, s

-------------------------------------------------------------------------------
(* Square roots and lengths.                                                   *)

\* The nearest integer to a square root, halves rounded up.
IsRoot(r, n) ==
    /\ (2 * r - 1) * AbsInt(2 * r - 1) <= 4 * n
    /\ 4 * n < (2 * r + 1) * (2 * r + 1)

\* The rounded square root exists and is the nearest integer.
LEMMA RootIs ==
    ASSUME NEW n \in Nat
    PROVE  RoundedSqrt(n) \in 0..n /\ IsRoot(RoundedSqrt(n), n)
  <1>1. \E r \in 0..n : IsRoot(r, n)
    <2> DEFINE Above == {s \in Nat : n < (s + 1) * (s + 1)}
    <2>1. n \in Above
      <3>1. n < (n + 1) * (n + 1)
        BY SMT
      <3>2. QED
        BY <3>1
    <2>2. PICK s \in Above : \A y \in Above : ~ (y < s)
      BY <2>1, FirstNatural
    <2>3. s \in Nat /\ n < (s + 1) * (s + 1)
      BY <2>2
    <2>4. s * s <= n
      <3>1. CASE s = 0
        BY <3>1, SMT
      <3>2. CASE s # 0
        <4>1. s - 1 \in Nat /\ s - 1 < s /\ (s - 1) + 1 = s
          BY <2>3, <3>2, SMT
        <4>2. s - 1 \notin Above
          BY <2>2, <4>1
        <4>3. ~ (n < s * s)
          BY <4>1, <4>2
        <4>4. QED
          BY <2>3, <4>3, SMT
      <3>3. QED
        BY <3>1, <3>2
    <2> HIDE DEF Above
    <2> DEFINE q == s * s
    <2>5. q \in Nat /\ s <= q /\ (s + 1) * (s + 1) = q + 2 * s + 1
          /\ (2 * s + 1) * (2 * s + 1) = 4 * q + 4 * s + 1
          /\ (2 * s - 1) * (2 * s - 1) = 4 * q - 4 * s + 1
          /\ (2 * s + 3) * (2 * s + 3) = 4 * q + 12 * s + 9
      BY <2>3, SMT
    <2>6. q <= n /\ n < q + 2 * s + 1
      BY <2>3, <2>4, <2>5
    <2>7. CASE n <= q + s
      <3>1. s \in 0..n
        <4> HIDE DEF q
        <4>1. QED
          BY <2>3, <2>5, <2>6, SMT
      <3>2. 4 * n < (2 * s + 1) * (2 * s + 1)
        <4> HIDE DEF q
        <4>1. QED
          BY <2>3, <2>5, <2>7, SMT
      <3>3. (2 * s - 1) * AbsInt(2 * s - 1) <= 4 * n
        <4>1. CASE s = 0
          BY <4>1, SMT DEF AbsInt
        <4>2. CASE s # 0
          <5>1. AbsInt(2 * s - 1) = 2 * s - 1
            BY <2>3, <4>2, SMT DEF AbsInt
          <5>2. 4 * q - 4 * s + 1 <= 4 * n
            <6> HIDE DEF q
            <6>1. QED
              BY <2>3, <2>5, <2>6, <4>2, SMT
          <5>3. QED
            BY <2>5, <5>1, <5>2
        <4>3. QED
          BY <4>1, <4>2
      <3>4. QED
        BY <3>1, <3>2, <3>3 DEF IsRoot
    <2>8. CASE q + s < n
      <3> DEFINE r == s + 1
      <3>1. r \in 0..n /\ r \in Nat
        <4> HIDE DEF q
        <4>1. QED
          BY <2>3, <2>5, <2>8, SMT
      <3>2. 2 * r + 1 = 2 * s + 3 /\ 2 * r - 1 = 2 * s + 1 /\ AbsInt(2 * s + 1) = 2 * s + 1
        BY <2>3, SMT DEF AbsInt
      <3>3. 4 * n < 4 * q + 12 * s + 9 /\ 4 * q + 4 * s + 1 <= 4 * n
        <4> HIDE DEF q
        <4>1. QED
          BY <2>3, <2>5, <2>6, <2>8, SMT
      <3>4. (2 * r - 1) * AbsInt(2 * r - 1) <= 4 * n /\ 4 * n < (2 * r + 1) * (2 * r + 1)
        BY <2>5, <3>2, <3>3
      <3>5. IsRoot(r, n)
        BY <3>4 DEF IsRoot
      <3>6. QED
        BY <3>1, <3>5
    <2>9. QED
      <3> HIDE DEF q
      <3>1. n <= q + s \/ q + s < n
        BY <2>3, <2>5, SMT
      <3>2. QED
        BY <2>7, <2>8, <3>1
  <1>2. RoundedSqrt(n) = CHOOSE r \in 0..n : IsRoot(r, n)
    BY DEF RoundedSqrt, IsRoot
  <1>3. QED
    BY <1>1, <1>2

\* next_up of a root is at least as long as what has no larger square.
LEMMA RootAbove ==
    ASSUME NEW n \in Nat
    PROVE  /\ NextUp(Round(RoundedSqrt(n))) \in Nat
           /\ \A x \in Nat : x * x <= n => x <= NextUp(Round(RoundedSqrt(n)))
           /\ n <= NextUp(Round(RoundedSqrt(n))) * NextUp(Round(RoundedSqrt(n)))
  <1> DEFINE r == RoundedSqrt(n)
             top == NextUp(Round(r))
  <1>1. r \in 0..n /\ IsRoot(r, n)
    BY RootIs
  <1>2. r \in Nat /\ 4 * n < (2 * r + 1) * (2 * r + 1)
    BY <1>1, SMT DEF IsRoot
  <1>3. top \in Int /\ top > r
    BY <1>2, NextUpAbove, SMT
  <1> HIDE DEF r, top
  <1>4. top \in Nat /\ r + 1 <= top
    BY <1>2, <1>3, SMT
  <1>5. ASSUME NEW x \in Nat, x * x <= n PROVE x <= top
    <2>1. SUFFICES ASSUME r + 1 <= x PROVE FALSE
      BY <1>2, <1>4, SMT
    <2>2. (r + 1) * (r + 1) <= x * x
      BY <1>2, <2>1, ProductGrows, SMT
    <2> DEFINE q == r * r
    <2>3. q \in Nat /\ (r + 1) * (r + 1) = q + 2 * r + 1
          /\ (2 * r + 1) * (2 * r + 1) = 4 * q + 4 * r + 1 /\ x * x \in Int
      BY <1>2, SMT
    <2> HIDE DEF q
    <2>4. QED
      BY <1>2, <1>5, <2>2, <2>3, SMT
  <1>6. n <= top * top
    <2>1. (r + 1) * (r + 1) <= top * top
      BY <1>2, <1>4, ProductGrows, SMT
    <2> DEFINE q == r * r
    <2>2. q \in Nat /\ (r + 1) * (r + 1) = q + 2 * r + 1
          /\ (2 * r + 1) * (2 * r + 1) = 4 * q + 4 * r + 1
      BY <1>2, SMT
    <2>3. top * top \in Int
      BY <1>4, SMT
    <2> HIDE DEF q
    <2>4. QED
      BY <1>2, <2>1, <2>2, <2>3, SMT
  <1>7. QED
    BY <1>4, <1>5, <1>6 DEF top, r

\* next_down of a root is no longer than what has no smaller square.
LEMMA RootBelow ==
    ASSUME NEW n \in Nat, NEW x \in Nat, n <= x * x
    PROVE  /\ NextDown(Round(RoundedSqrt(n))) \in Int
           /\ NextDown(Round(RoundedSqrt(n))) <= x
  <1> DEFINE r == RoundedSqrt(n)
             low == NextDown(Round(r))
  <1>1. r \in 0..n /\ IsRoot(r, n)
    BY RootIs
  <1>2. r \in Nat /\ (2 * r - 1) * AbsInt(2 * r - 1) <= 4 * n
    BY <1>1, SMT DEF IsRoot
  <1>3. low \in Int /\ low < r
    BY <1>2, NextDownBelow, SMT
  <1> HIDE DEF r, low
  <1>4. r <= x
    <2>1. SUFFICES ASSUME x + 1 <= r PROVE FALSE
      BY <1>2, SMT
    <2>2. AbsInt(2 * r - 1) = 2 * r - 1 /\ 2 * r - 1 \in Nat /\ 2 * x + 1 <= 2 * r - 1 /\ 2 * x + 1 \in Nat
      BY <1>2, <2>1, SMT DEF AbsInt
    <2>3. (2 * x + 1) * (2 * x + 1) <= (2 * r - 1) * (2 * r - 1)
      BY <2>2, ProductGrows
    <2> DEFINE q == x * x
               t == (2 * r - 1) * (2 * r - 1)
    <2>4. q \in Nat /\ (2 * x + 1) * (2 * x + 1) = 4 * q + 4 * x + 1 /\ t \in Int
      BY <2>2, SMT
    <2>5. t <= 4 * n /\ n <= q /\ 4 * q + 4 * x + 1 <= t
      BY <1>2, <2>2, <2>3, <2>4
    <2> HIDE DEF q, t
    <2>6. QED
      BY <2>4, <2>5, SMT
  <1>5. low <= x
    BY <1>2, <1>3, <1>4, SMT
  <1>6. QED
    BY <1>3, <1>5 DEF low, r

Squaring(g, d) ==
    g = [c \in 0..Dimension |->
            IF c = 0 THEN 0 ELSE UpwardAdd(g[c - 1], UpwardMul(d[c], d[c]))]

\* outward_l2 of upper bounds on the coordinates is an upper bound on the length.
LEMMA OutwardL2Above ==
    ASSUME NEW d, NEW v \in Vector,
           \A c \in Coordinates : d[c] \in Int /\ AbsInt(v[c]) <= d[c]
    PROVE  NoLonger(v, OutwardL2(d))
  <1> DEFINE step == [pair \in Int \X (1..Dimension) |->
                         UpwardAdd(pair[1], UpwardMul(d[pair[2]], d[pair[2]]))]
  <1>1. Dimension \in Nat /\ Coordinates = 1..Dimension
    BY CoordinatesAre DEF Coordinates
  <1>2. step \in [Int \X (1..Dimension) -> Int]
    <2>1. ASSUME NEW pair \in Int \X (1..Dimension)
          PROVE  UpwardAdd(pair[1], UpwardMul(d[pair[2]], d[pair[2]])) \in Int
      <3>1. pair[1] \in Int /\ d[pair[2]] \in Int
        BY <1>1
      <3>2. UpwardMul(d[pair[2]], d[pair[2]]) \in Int
        BY <3>1, UpwardMulAbove
      <3>3. QED
        BY <3>1, <3>2, UpwardAddAbove
    <2>2. QED
      BY <2>1
  <1>3. \A a \in Int, c \in 1..Dimension : step[<<a, c>>] = UpwardAdd(a, UpwardMul(d[c], d[c]))
    OBVIOUS
  <1> HIDE DEF step
  <1>4. PICK g \in [0..Dimension -> Int] :
           \A c \in 0..Dimension : g[c] = IF c = 0 THEN 0 ELSE step[<<g[c - 1], c>>]
    BY <1>1, <1>2, CountedRecursion
  <1>5. \A c \in 0..Dimension :
           g[c] = IF c = 0 THEN 0 ELSE UpwardAdd(g[c - 1], UpwardMul(d[c], d[c]))
    <2> SUFFICES ASSUME NEW c \in 0..Dimension
                 PROVE  g[c] = IF c = 0 THEN 0 ELSE UpwardAdd(g[c - 1], UpwardMul(d[c], d[c]))
      OBVIOUS
    <2>1. CASE c = 0
      BY <1>4, <2>1
    <2>2. CASE c # 0
      <3>1. c \in 1..Dimension /\ g[c - 1] \in Int
        BY <1>1, <2>2, CoordinatesAre
      <3>2. QED
        BY <1>3, <1>4, <2>2, <3>1
    <2>3. QED
      BY <2>1, <2>2
  <1>6. Squaring(g, d)
    BY <1>5 DEF Squaring
  <1>7. OutwardL2(d) = UpwardSqrt((CHOOSE f : Squaring(f, d))[Dimension])
    BY Zenon DEF OutwardL2, Squaring
  <1> DEFINE f == CHOOSE h : Squaring(h, d)
  <1>8. Squaring(f, d)
    BY <1>6
  <1>9. OutwardL2(d) = UpwardSqrt(f[Dimension])
    BY <1>7
  <1> HIDE DEF f
  <1>10. \A c \in 0..Dimension :
            f[c] = IF c = 0 THEN 0 ELSE UpwardAdd(f[c - 1], UpwardMul(d[c], d[c]))
    BY <1>8 DEF Squaring
  <1> DEFINE vv == [c \in Coordinates |-> v[c] * v[c]]
  <1>11. \A c \in Coordinates : vv[c] \in Int /\ vv[c] = v[c] * v[c] /\ v[c] \in Int
    BY VectorTypes
  <1>12. Dot(v, v) = Total(vv)
    BY DEF Dot
  <1> HIDE DEF vv
  <1>13. PICK h : PartialSums(h, vv) /\ Total(vv) = h[Dimension]
    BY <1>11, TotalIs
  <1> DEFINE T == {c \in 0..Dimension : f[c] \in Int /\ h[c] <= f[c]}
  <1>14. 0 \in T
    <2>1. f[0] = 0 /\ h[0] = 0
      BY <1>10, <1>13, CoordinatesAre DEF PartialSums
    <2>2. QED
      BY <2>1, CoordinatesAre, SMT
  <1>15. ASSUME NEW c \in Coordinates, c - 1 \in T PROVE c \in T
    <2>1. /\ f[c] = UpwardAdd(f[c - 1], UpwardMul(d[c], d[c]))
          /\ h[c] = h[c - 1] + v[c] * v[c] /\ h[c - 1] \in Int
          /\ f[c - 1] \in Int /\ h[c - 1] <= f[c - 1] /\ c \in 0..Dimension
      BY <1>10, <1>11, <1>13, <1>15, CoordinatesAre DEF PartialSums
    <2>2. d[c] \in Int /\ v[c] \in Int /\ AbsInt(v[c]) <= d[c]
      BY <1>11
    <2>3. v[c] * v[c] <= d[c] * d[c] /\ v[c] * v[c] \in Int /\ d[c] * d[c] \in Int
      <3>1. AbsInt(v[c]) \in Nat /\ AbsInt(v[c]) * AbsInt(v[c]) = v[c] * v[c]
        BY <2>2, SMT DEF AbsInt
      <3>2. d[c] \in Nat
        <4> DEFINE a == AbsInt(v[c])
                   b == d[c]
        <4>1. a \in Nat /\ b \in Int /\ a <= b
          BY <2>2, <3>1
        <4> HIDE DEF a, b
        <4>2. b \in Nat
          BY <4>1, SMT
        <4>3. QED
          BY <4>2 DEF b
      <3>3. AbsInt(v[c]) * AbsInt(v[c]) <= d[c] * d[c]
        BY <2>2, <3>1, <3>2, ProductGrows
      <3>4. QED
        BY <2>2, <3>1, <3>3, SMT
    <2>4. UpwardMul(d[c], d[c]) \in Int /\ d[c] * d[c] < UpwardMul(d[c], d[c])
      BY <2>2, UpwardMulAbove
    <2> DEFINE square == UpwardMul(d[c], d[c])
    <2>5. UpwardAdd(f[c - 1], square) \in Int /\ f[c - 1] + square < UpwardAdd(f[c - 1], square)
      BY <2>1, <2>4, UpwardAddAbove
    <2>6. f[c] \in Int /\ f[c - 1] + square < f[c] /\ square \in Int /\ d[c] * d[c] < square
      BY <2>1, <2>4, <2>5
    <2> HIDE DEF square
    <2>7. h[c] <= f[c]
      <3> DEFINE x == v[c] * v[c]
                 y == d[c] * d[c]
      <3>1. h[c] = h[c - 1] + x /\ x <= y /\ x \in Int /\ y \in Int /\ y < square
        BY <2>1, <2>3, <2>6
      <3> HIDE DEF x, y
      <3>2. QED
        BY <2>1, <2>6, <3>1, SMT
    <2>8. QED
      BY <2>1, <2>6, <2>7
  <1> HIDE DEF T
  <1>16. Dimension \in T
    BY <1>14, <1>15, CoordinateInduction, CoordinatesAre
  <1> DEFINE n == f[Dimension]
             top == OutwardL2(d)
  <1>17. n \in Int /\ Dot(v, v) <= n
    BY <1>12, <1>13, <1>16 DEF T
  <1>18. Dot(v, v) \in Nat
    BY DotSquared
  <1>19. n \in Nat
    <2> DEFINE x == Dot(v, v)
    <2>1. x \in Nat /\ x <= n
      BY <1>17, <1>18
    <2> HIDE DEF n, x
    <2>2. QED
      BY <1>17, <2>1, SMT
  <1>20. top = NextUp(Round(RoundedSqrt(n)))
    BY <1>9 DEF UpwardSqrt
  <1> HIDE DEF n, top
  <1>21. top \in Nat /\ n <= top * top
    BY <1>19, <1>20, RootAbove
  <1>22. Dot(v, v) <= top * top
    <2> DEFINE x == Dot(v, v)
               y == top * top
    <2>1. x \in Nat /\ x <= n /\ n <= y /\ y \in Int
      <3>1. top * top \in Int
        BY <1>21, SMT
      <3>2. QED
        BY <1>17, <1>18, <1>21, <3>1
    <2> HIDE DEF x, y
    <2>2. x <= y
      BY <1>19, <2>1, SMT
    <2>3. QED
      BY <2>2 DEF x, y
  <1>23. QED
    BY <1>21, <1>22 DEF NoLonger, top

-------------------------------------------------------------------------------
(* The error of a score: of its steps, its conversion and its certificate.     *)

\* A quantized product is half a step from the product at most.
LEMMA StepNear ==
    ASSUME NEW v \in Int
    PROVE  Step(v) \in Int /\ AbsInt(Step(v) * Quantum - v) <= Quantum \div 2
  <1> DEFINE q == Quantum
             a == AbsInt(v)
             s == (2 * a + q) \div (2 * q)
             p == s * q
  <1>1. q \in Nat /\ q >= 1 /\ a \in Nat
    BY CertificateAssumption, AbsType, SMT
  <1>2. Step(v) = IF v < 0 THEN -s ELSE s
    BY DEF Step
  <1> HIDE DEF q, a
  <1>3. s \in Nat /\ (2 * q) * s <= 2 * a + q /\ 2 * a + q < (2 * q) * s + 2 * q
    <2> DEFINE d == 2 * q
               n == 2 * a + q
    <2>1. d \in Nat /\ d >= 1 /\ n \in Nat
      BY <1>1, SMT
    <2> HIDE DEF d, n
    <2>2. n \div d \in Nat /\ d * (n \div d) <= n /\ n < d * (n \div d) + d
      BY <2>1, SMT
    <2>3. QED
      BY <2>2 DEF d, n
  <1>4. (2 * q) * s = 2 * p /\ p \in Nat /\ (-s) * q = -p
    <2> HIDE DEF s
    <2>1. QED
      BY <1>1, <1>3, SMT
  <1>5. 2 * p <= 2 * a + q /\ 2 * a < 2 * p + q
    <2> DEFINE t == (2 * q) * s
    <2>1. t <= 2 * a + q /\ 2 * a + q < t + 2 * q /\ t = 2 * p
      BY <1>3, <1>4
    <2> HIDE DEF t, p, s
    <2>2. QED
      BY <1>1, <1>4, <2>1, SMT
  <1>6. Step(v) * q = (IF v < 0 THEN -p ELSE p) /\ Step(v) \in Int
    <2> HIDE DEF s
    <2>1. CASE v < 0
      BY <1>2, <1>3, <1>4, <2>1, SMT
    <2>2. CASE ~ (v < 0)
      BY <1>2, <1>3, <2>2, SMT
    <2>3. QED
      BY <2>1, <2>2
  <1> HIDE DEF s, p
  <1>7. AbsInt((IF v < 0 THEN -p ELSE p) - v) <= q \div 2
    BY <1>1, <1>4, <1>5, SMT DEF AbsInt, a
  <1>8. QED
    BY <1>6, <1>7 DEF q

\* A primary score is within half a step per coordinate of the product.
LEMMA PrimaryRawNear ==
    ASSUME NEW q \in Vector, NEW p \in Vector
    PROVE  /\ PrimaryRaw(q, p) \in Int /\ Dot(q, p) \in Int
           /\ AbsInt(PrimaryRaw(q, p) * Quantum - Dot(q, p)) <= PrimaryTerms * (Quantum \div 2)
  <1> DEFINE u == [c \in Coordinates |-> Step(q[c] * p[c])]
             v == [c \in Coordinates |-> q[c] * p[c]]
             e == Quantum \div 2
  <1>1. \A c \in Coordinates : q[c] * p[c] \in Int
    BY VectorTypes
  <1>2. \A c \in Coordinates : u[c] \in Int /\ v[c] \in Int /\ AbsInt(u[c] * Quantum - v[c]) <= e
    BY <1>1, StepNear
  <1>3. Quantum \in Int /\ e \in Nat
    BY CertificateAssumption, SMT
  <1>4. PrimaryRaw(q, p) = Total(u) /\ Dot(q, p) = Total(v)
    BY DEF PrimaryRaw, Dot
  <1> HIDE DEF u, v, e
  <1>5. AbsInt(Total(u) * Quantum - Total(v)) <= Dimension * e
    BY <1>2, <1>3, TotalsApart
  <1>6. Total(u) \in Int /\ Total(v) \in Int
    BY <1>2, TotalType
  <1>7. QED
    BY <1>4, <1>5, <1>6 DEF PrimaryTerms, e

\* A refined score, within half a step more.
LEMMA RefinedRawNear ==
    ASSUME NEW q \in Vector, NEW p \in Vector, NEW e \in Vector
    PROVE  /\ RefinedRaw(q, p, e) \in Int /\ Dot(q, Plus(p, e)) \in Int
           /\ AbsInt(RefinedRaw(q, p, e) * Quantum - Dot(q, Plus(p, e)))
                  <= RefinedTerms * (Quantum \div 2)
  <1> DEFINE raw == PrimaryRaw(q, p)
             step == Step(Dot(q, e))
             half == Quantum \div 2
             dp == Dot(q, p)
             de == Dot(q, e)
  <1>1. Quantum \in Nat /\ half \in Nat /\ PrimaryTerms \in Nat /\ RefinedTerms = PrimaryTerms + 1
    BY CertificateAssumption, SMT DEF PrimaryTerms, RefinedTerms
  <1>2. raw \in Int /\ dp \in Int /\ AbsInt(raw * Quantum - dp) <= PrimaryTerms * half
    BY PrimaryRawNear
  <1>3. de \in Int /\ step \in Int /\ AbsInt(step * Quantum - de) <= half
    BY VectorTypes, StepNear
  <1>4. RefinedRaw(q, p, e) = raw + step /\ Dot(q, Plus(p, e)) = dp + de
    BY DotAdds DEF RefinedRaw
  <1> HIDE DEF raw, step, half, dp, de
  <1> DEFINE x == raw * Quantum - dp
             y == step * Quantum - de
             m == PrimaryTerms * half
  <1>5. x \in Int /\ y \in Int /\ m \in Nat /\ AbsInt(x) <= m /\ AbsInt(y) <= half
    BY <1>1, <1>2, <1>3, SMT
  <1>6. (raw + step) * Quantum - (dp + de) = x + y /\ RefinedTerms * half = m + half
    BY <1>1, <1>2, <1>3, SMT
  <1> HIDE DEF x, y, m
  <1>7. AbsInt(x + y) <= m + half
    BY <1>1, <1>5, SMT DEF AbsInt
  <1>8. raw + step \in Int /\ dp + de \in Int
    BY <1>2, <1>3, SMT
  <1>9. QED
    BY <1>4, <1>6, <1>7, <1>8 DEF half

\* What a term of serving_error allows for covers a score within the tables' limit.
LEMMA ServingAbove ==
    ASSUME NEW terms \in Nat, NEW raw \in Int, AbsInt(raw) <= RefinedTerms * LargestEntry,
           NEW x \in Int, AbsInt(raw * Quantum - x) <= terms * (Quantum \div 2)
    PROVE  /\ AsFloat(raw) \in Int
           /\ AbsInt(AsFloat(raw) - x) <= ServingError(terms)
  <1> DEFINE n == raw * Quantum
             half == Quantum \div 2
             m == terms * half
             up == UpwardMul(terms, half)
             u == Ulp(LargestScore)
             h == u \div 2
             limit == RefinedTerms * LargestEntry
             f == Round(n)
             l == LargestScore
  <1>1. /\ Quantum \in Nat /\ half \in Nat /\ RefinedTerms \in Nat /\ LargestEntry \in Nat
        /\ Dimension \in Nat
    BY CertificateAssumption, SMT DEF PrimaryTerms, RefinedTerms
  <1>2. n \in Int /\ limit \in Nat /\ m \in Nat
    <2> HIDE DEF half
    <2>1. QED
      BY <1>1, SMT
  <1>3. l \in Nat /\ AbsInt(n) \in Nat /\ AbsInt(n) <= l
    <2> DEFINE a == AbsInt(raw)
    <2>1. a \in Nat /\ a <= limit
      BY AbsType
    <2>2. AbsInt(n) = a * Quantum
      BY <1>1, SMT DEF AbsInt
    <2>3. l = limit * Quantum
      BY DEF LargestScore
    <2> HIDE DEF a, n, l, limit
    <2>4. a * Quantum <= limit * Quantum /\ a * Quantum \in Nat /\ limit * Quantum \in Nat
      BY <1>1, <1>2, <2>1, ProductGrows, SMT
    <2>5. QED
      BY <2>2, <2>3, <2>4
  <1>4. u \in Nat /\ Ulp(n) <= u /\ Ulp(n) \in Nat
    <2>1. AbsInt(l) = l
      BY <1>3, SMT DEF AbsInt
    <2>2. Spacing[AbsInt(n)] <= Spacing[l] /\ Spacing[l] \in Nat /\ Spacing[AbsInt(n)] \in Nat
      BY <1>3, SpacingGrows, SpacingBounds
    <2>3. u = Spacing[l] /\ Ulp(n) = Spacing[AbsInt(n)]
      BY <2>1 DEF Ulp
    <2>4. QED
      BY <2>2, <2>3
  <1>5. f \in Int /\ 2 * AbsInt(f - n) <= Ulp(n)
    BY <1>2, RoundIsOdd, RoundingError
  <1>6. up \in Int /\ m < up
    <2>1. half \in Int /\ terms \in Int
      BY <1>1, SMT
    <2> HIDE DEF half
    <2>2. QED
      BY <2>1, UpwardMulAbove
  <1>7. h \in Nat
    <2> HIDE DEF u
    <2>1. QED
      BY <1>4, SMT
  <1>8. ServingError(terms) = UpwardAdd(up, h)
    BY DEF ServingError
  <1>9. AsFloat(raw) = f
    BY DEF AsFloat
  <1>10. AbsInt(n - x) <= m
    OBVIOUS
  <1> HIDE DEF up, f, m, n, l
  <1>11. UpwardAdd(up, h) \in Int /\ up + h < UpwardAdd(up, h)
    <2>1. h \in Int
      BY <1>7, SMT
    <2> HIDE DEF h
    <2>2. QED
      BY <1>6, <2>1, UpwardAddAbove
  <1>12. AbsInt(f - n) <= h
    <2> DEFINE d == AbsInt(f - n)
    <2>1. f - n \in Int
      BY <1>2, <1>5, SMT
    <2>2. d \in Nat /\ 2 * d <= Ulp(n)
      BY <1>5, <2>1, AbsType
    <2> HIDE DEF d, u
    <2>3. d <= h
      BY <1>4, <2>2, SMT
    <2>4. QED
      BY <2>3 DEF d
  <1> HIDE DEF h
  <1>13. AbsInt(f - x) <= AbsInt(f - n) + AbsInt(n - x)
    BY <1>2, <1>5, SMT DEF AbsInt
  <1>14. AbsInt(f - x) \in Nat /\ AbsInt(f - n) \in Nat /\ AbsInt(n - x) \in Nat
    <2>1. f - x \in Int /\ f - n \in Int /\ n - x \in Int
      BY <1>2, <1>5, SMT
    <2>2. QED
      BY <2>1, AbsType
  <1>15. AbsInt(f - x) <= UpwardAdd(up, h)
    BY <1>2, <1>6, <1>7, <1>10, <1>11, <1>12, <1>13, <1>14, SMT
  <1>16. QED
    BY <1>5, <1>8, <1>9, <1>15

\* The serving error is a natural number.
LEMMA ServingNatural ==
    ASSUME NEW terms \in Nat
    PROVE  ServingError(terms) \in Nat
  <1> DEFINE half == Quantum \div 2
             m == terms * half
             up == UpwardMul(terms, half)
             h == Ulp(LargestScore) \div 2
  <1>1. half \in Nat /\ m \in Nat
    BY CertificateAssumption, SMT
  <1>2. up \in Int /\ m < up
    BY <1>1, UpwardMulAbove
  <1>3. LargestScore \in Int
    BY CertificateAssumption, SMT DEF LargestScore, RefinedTerms, PrimaryTerms
  <1>4. h \in Nat
    <2> DEFINE u == Ulp(LargestScore)
    <2>1. u \in Nat
      BY <1>3, UlpBounds
    <2> HIDE DEF u
    <2>2. u \div 2 \in Nat
      BY <2>1, SMT
    <2>3. QED
      BY <2>2 DEF u
  <1>5. ServingError(terms) = UpwardAdd(up, h)
    BY DEF ServingError
  <1> HIDE DEF half, m, up, h
  <1>6. UpwardAdd(up, h) \in Int /\ up + h < UpwardAdd(up, h)
    <2>1. h \in Int
      BY <1>4, SMT
    <2>2. QED
      BY <1>2, <2>1, UpwardAddAbove
  <1>7. QED
    BY <1>1, <1>2, <1>4, <1>5, <1>6, SMT

\* epsilon covers its parts in exact arithmetic.
LEMMA EpsilonAbove ==
    ASSUME NEW error \in Nat, NEW serving \in Nat
    PROVE  /\ Epsilon(error, serving) \in Nat
           /\ ((2 * One) * Delta + Delta * Delta) + (One + Delta) * error + serving
                  <= Epsilon(error, serving)
           /\ EtaTransformDot \in Nat /\ QueryNormUpper \in Nat
  <1> DEFINE a == UpwardMul(2 * One, Delta)
             b == UpwardMul(Delta, Delta)
             eta == UpwardAdd(a, b)
             norm == UpwardAdd(One, Delta)
             c == UpwardMul(norm, error)
             d == UpwardAdd(eta, c)
             w == UpwardAdd(d, serving)
             od == (2 * One) * Delta
             dd == Delta * Delta
             n == One + Delta
  <1>1. One \in Nat /\ Delta \in Nat /\ 2 * One \in Int /\ od \in Nat /\ dd \in Nat /\ n \in Nat
    BY CertificateAssumption, SMT
  <1>2. a \in Int /\ od < a /\ b \in Int /\ dd < b /\ norm \in Int /\ n < norm
    BY <1>1, UpwardMulAbove, UpwardAddAbove
  <1>3. EtaTransformDot = eta /\ QueryNormUpper = norm /\ Epsilon(error, serving) = w
    BY DEF Epsilon, EtaTransformDot, QueryNormUpper
  <1> HIDE DEF a, b, norm, od, dd, n
  <1>4. eta \in Int /\ a + b < eta /\ c \in Int /\ norm * error < c
    <2>1. error \in Int
      BY SMT
    <2>2. QED
      BY <1>2, <2>1, UpwardMulAbove, UpwardAddAbove
  <1>5. norm \in Nat /\ n <= norm
    BY <1>1, <1>2, SMT
  <1>6. n * error <= norm * error /\ n * error \in Nat /\ norm * error \in Nat
    BY <1>1, <1>5, ProductGrows, SMT
  <1> HIDE DEF eta, c
  <1>7. d \in Int /\ eta + c < d
    BY <1>4, UpwardAddAbove
  <1> HIDE DEF d
  <1>8. w \in Int /\ d + serving < w
    <2>1. serving \in Int
      BY SMT
    <2>2. QED
      BY <1>7, <2>1, UpwardAddAbove
  <1> HIDE DEF w
  <1> DEFINE x == n * error
             y == norm * error
  <1>9. x \in Nat /\ y \in Nat /\ x <= y /\ y < c
    BY <1>4, <1>6
  <1> HIDE DEF x, y
  <1>10. (od + dd) + x + serving <= w /\ w \in Nat /\ eta \in Nat
    BY <1>1, <1>2, <1>4, <1>7, <1>8, <1>9, SMT
  <1>11. QED
    BY <1>3, <1>5, <1>10 DEF x, n, od, dd
-------------------------------------------------------------------------------
(* The distance between the score of what was stored and the true score.       *)
Directed(d) == Carried(d) /\ ~ NoDirection(d.original)

\* A vector of floats is a vector.
LEMMA FloatVectorIs ==
    ASSUME NEW v \in FloatVector
    PROVE  v \in Vector /\ \A c \in Coordinates : Float(v[c]) /\ v[c] \in Int
  <1>1. v \in Vector /\ \A c \in Coordinates : Round(v[c]) = v[c]
    BY DEF FloatVector
  <1>2. \A c \in Coordinates : v[c] \in Int
    BY <1>1 DEF Vector
  <1>3. \A c \in Coordinates : Float(Round(v[c]))
    BY <1>2, RoundIsFloat
  <1>4. QED
    BY <1>1, <1>2, <1>3

\* A direction has length One, and its transform is at most Delta away.
LEMMA DirectionWithin ==
    ASSUME NEW d, Directed(d)
    PROVE  /\ NoLonger(d.original, One)
           /\ NoLonger(Minus(d.transformed, d.original), Delta)
           /\ NoLonger(d.transformed, One + Delta)
           /\ d.transformed \in FloatVector
  <1> DEFINE o == d.original
             t == d.transformed
             m == Minus(t, o)
  <1>1. /\ o \in Vector /\ t \in FloatVector
        /\ (\A c \in Coordinates : o[c] = 0) \/ Dot(o, o) = One * One
        /\ Dot(m, m) <= Delta * Delta
    BY DEF Directed, Carried, Minus
  <1>2. ~ \A c \in Coordinates : o[c] = 0
    BY DEF Directed, NoDirection
  <1>3. One \in Nat /\ Delta \in Nat /\ One * One \in Int /\ One * One <= One * One
    BY CertificateAssumption, SMT
  <1>4. t \in Vector
    BY <1>1, FloatVectorIs
  <1>5. NoLonger(o, One)
    BY <1>1, <1>2, <1>3 DEF NoLonger
  <1>6. m \in Vector
    BY <1>1, <1>4, VectorTypes
  <1>7. NoLonger(m, Delta)
    BY <1>1, <1>3, <1>6 DEF NoLonger
  <1>8. Plus(o, m) = t
    <2>1. \A c \in Coordinates : o[c] \in Int /\ t[c] \in Int
      BY <1>1, <1>4 DEF Vector
    <2>2. \A c \in Coordinates : o[c] + (t[c] - o[c]) = t[c]
      BY <2>1, SMT
    <2>3. \A c \in Coordinates : Plus(o, m)[c] = t[c]
      BY <2>2 DEF Plus, Minus
    <2>4. QED
      BY <1>4, <2>3 DEF Plus, Vector
  <1>9. NoLonger(Plus(o, m), One + Delta)
    BY <1>5, <1>7, PlusWithin
  <1>10. QED
    BY <1>1, <1>5, <1>7, <1>8, <1>9

\* The product of a transformed query with what a row is decoded to is near the
\* true score when the row is decoded to something near its transformed vector.
LEMMA TruthNear ==
    ASSUME NEW q, Directed(q), NEW r, Directed(r), NEW v \in Vector, NEW e \in Nat,
           NoLonger(Minus(r.transformed, v), e)
    PROVE  /\ Truth(q, r) \in Int /\ Dot(q.transformed, v) \in Int
           /\ AbsInt(Dot(q.transformed, v) - Truth(q, r))
                  <= ((2 * One) * Delta + Delta * Delta) + (One + Delta) * e
  <1> DEFINE qo == q.original
             qt == q.transformed
             ro == r.original
             rt == r.transformed
             dq == Minus(qt, qo)
             dr == Minus(rt, ro)
             m == Minus(rt, v)
  <1>1. /\ NoLonger(qo, One) /\ NoLonger(ro, One) /\ NoLonger(dq, Delta) /\ NoLonger(dr, Delta)
        /\ NoLonger(qt, One + Delta) /\ NoLonger(rt, One + Delta) /\ NoLonger(m, e)
    BY DirectionWithin
  <1>2. /\ qo \in Vector /\ ro \in Vector /\ dq \in Vector /\ dr \in Vector
        /\ qt \in Vector /\ rt \in Vector /\ m \in Vector
    BY <1>1 DEF NoLonger
  <1>3. /\ Dot(qt, m) = Dot(qt, rt) - Dot(qt, v)
        /\ Dot(qt, dr) = Dot(qt, rt) - Dot(qt, ro)
        /\ Dot(ro, dq) = Dot(ro, qt) - Dot(ro, qo)
        /\ Dot(ro, qt) = Dot(qt, ro) /\ Dot(ro, qo) = Dot(qo, ro)
    BY <1>2, DotSubtracts, DotCommutes
  <1>4. /\ AbsInt(Dot(qt, m)) <= (One + Delta) * e /\ (One + Delta) * e \in Nat
        /\ AbsInt(Dot(qt, dr)) <= (One + Delta) * Delta /\ (One + Delta) * Delta \in Nat
        /\ AbsInt(Dot(ro, dq)) <= One * Delta /\ One * Delta \in Nat
    BY <1>1, DotWithin
  <1>5. /\ Dot(qt, m) \in Int /\ Dot(qt, dr) \in Int /\ Dot(ro, dq) \in Int
        /\ Dot(qt, rt) \in Int /\ Dot(qt, v) \in Int /\ Dot(qt, ro) \in Int /\ Dot(qo, ro) \in Int
    BY <1>2, VectorTypes
  <1> DEFINE x == Dot(qt, m)
             y == Dot(qt, dr)
             z == Dot(ro, dq)
             truth == Dot(qo, ro)
             score == Dot(qt, v)
             a == (One + Delta) * e
             b == (One + Delta) * Delta
             c == One * Delta
  <1>6. (2 * One) * Delta + Delta * Delta = b + c
    BY CertificateAssumption, SMT
  <1>7. score - truth = (y + z) - x
    <2> DEFINE s == Dot(qt, rt)
               t == Dot(qt, ro)
    <2>1. x = s - score /\ y = s - t /\ z = t - truth
      BY <1>3
    <2>2. s \in Int /\ t \in Int /\ truth \in Int /\ score \in Int
      BY <1>5
    <2> HIDE DEF s, t, x, y, z, truth, score
    <2>3. QED
      BY <2>1, <2>2, SMT
  <1>8. /\ x \in Int /\ y \in Int /\ z \in Int /\ truth \in Int /\ score \in Int
        /\ a \in Nat /\ b \in Nat /\ c \in Nat
        /\ AbsInt(x) <= a /\ AbsInt(y) <= b /\ AbsInt(z) <= c
    BY <1>4, <1>5
  <1>9. Truth(q, r) = truth /\ Dot(q.transformed, v) = score
    BY DEF Truth
  <1> HIDE DEF x, y, z, truth, score, a, b, c
  <1>10. AbsInt((y + z) - x) <= (b + c) + a
    BY <1>8, SMT DEF AbsInt
  <1>11. QED
    BY <1>6, <1>7, <1>8, <1>9, <1>10 DEF a

\* An error certificate of a row is above the distance of what it is decoded to.
LEMMA PrimaryErrorAbove ==
    ASSUME NEW model, NEW row, row.transformed \in FloatVector,
           PrimaryVector[model][row.primary] \in FloatVector
    PROVE  /\ PrimaryError(model, row) \in Nat
           /\ \E e \in Nat : /\ e <= PrimaryError(model, row)
                             /\ NoLonger(Minus(row.transformed, PrimaryVector[model][row.primary]), e)
  <1> DEFINE t == row.transformed
             p == PrimaryVector[model][row.primary]
             d == [c \in Coordinates |-> OutwardDifference(t[c], p[c])]
             m == Minus(t, p)
             l == OutwardL2(d)
  <1>1. t \in Vector /\ p \in Vector /\ \A c \in Coordinates : Float(t[c]) /\ Float(p[c])
    BY FloatVectorIs
  <1>2. \A c \in Coordinates : d[c] \in Int /\ AbsInt(t[c] - p[c]) <= d[c]
    BY <1>1, OutwardDifferenceAbove
  <1>3. PrimaryError(model, row) = UpwardAdd(l, Delta)
    BY DEF PrimaryError, Decode
  <1>4. m \in Vector /\ \A c \in Coordinates : m[c] = t[c] - p[c]
    BY <1>1, VectorTypes DEF Minus
  <1> HIDE DEF d, m
  <1>5. NoLonger(m, l)
    BY <1>2, <1>4, OutwardL2Above
  <1>6. l \in Nat /\ Delta \in Nat
    BY <1>5, CertificateAssumption DEF NoLonger
  <1> HIDE DEF l
  <1>7. l \in Int /\ Delta \in Int
    BY <1>6, SMT
  <1>8. UpwardAdd(l, Delta) \in Int /\ l + Delta < UpwardAdd(l, Delta)
    BY <1>7, UpwardAddAbove
  <1>9. UpwardAdd(l, Delta) \in Nat /\ l <= UpwardAdd(l, Delta)
    BY <1>6, <1>8, SMT
  <1>10. QED
    BY <1>3, <1>5, <1>6, <1>9 DEF m

\* The same for the sum of both decoded parts.
LEMMA RefinedErrorAbove ==
    ASSUME NEW model, NEW row, row.transformed \in FloatVector,
           PrimaryVector[model][row.primary] \in FloatVector,
           ResidualVector[model][row.residual] \in FloatVector
    PROVE  /\ RefinedError(model, row) \in Nat
           /\ \E e \in Nat :
                  /\ e <= RefinedError(model, row)
                  /\ NoLonger(Minus(row.transformed, Plus(PrimaryVector[model][row.primary],
                                                        ResidualVector[model][row.residual])), e)
  <1> DEFINE t == row.transformed
             p == PrimaryVector[model][row.primary]
             r == ResidualVector[model][row.residual]
             d == [c \in Coordinates |-> OutwardRefinedDifference(t[c], p[c], r[c])]
             s == Plus(p, r)
             m == Minus(t, s)
             l == OutwardL2(d)
  <1>1. /\ t \in Vector /\ p \in Vector /\ r \in Vector
        /\ \A c \in Coordinates : Float(t[c]) /\ Float(p[c]) /\ Float(r[c])
    BY FloatVectorIs
  <1>2. \A c \in Coordinates : d[c] \in Int /\ AbsInt(t[c] - (p[c] + r[c])) <= d[c]
    BY <1>1, OutwardRefinedDifferenceAbove
  <1>3. RefinedError(model, row) = UpwardAdd(l, Delta)
    BY DEF RefinedError, Decode
  <1>4. s \in Vector /\ \A c \in Coordinates : s[c] = p[c] + r[c]
    BY <1>1, VectorTypes DEF Plus
  <1>5. m \in Vector /\ \A c \in Coordinates : m[c] = t[c] - s[c]
    BY <1>1, <1>4, VectorTypes DEF Minus
  <1> HIDE DEF d, m, s
  <1>6. NoLonger(m, l)
    BY <1>2, <1>4, <1>5, OutwardL2Above
  <1>7. l \in Nat /\ Delta \in Nat
    BY <1>6, CertificateAssumption DEF NoLonger
  <1> HIDE DEF l
  <1>8. l \in Int /\ Delta \in Int
    BY <1>7, SMT
  <1>9. UpwardAdd(l, Delta) \in Int /\ l + Delta < UpwardAdd(l, Delta)
    BY <1>8, UpwardAddAbove
  <1>10. UpwardAdd(l, Delta) \in Nat /\ l <= UpwardAdd(l, Delta)
    BY <1>7, <1>9, SMT
  <1>11. QED
    BY <1>3, <1>6, <1>7, <1>10 DEF m, s
-------------------------------------------------------------------------------
(* The bounds of a score hold the true score.                                  *)
Holds(bounds, x) == /\ bounds.lower \in Int /\ bounds.upper \in Int /\ x \in Int
                    /\ bounds.lower <= x /\ x <= bounds.upper

\* The bounds of a score around a decoded vector hold the true score of a row whose
\* error is covered.
LEMMA BoundsHold ==
    ASSUME NEW q, Directed(q), NEW r, Directed(r), NEW v \in Vector, NEW e \in Nat,
           NoLonger(Minus(r.transformed, v), e), NEW error \in Nat, e <= error,
           NEW terms \in Nat, NEW raw \in Int, AbsInt(raw) <= RefinedTerms * LargestEntry,
           AbsInt(raw * Quantum - Dot(q.transformed, v)) <= terms * (Quantum \div 2)
    PROVE  Holds(Bounds(Terms(error, ServingError(terms)), raw), Truth(q, r))
  <1> DEFINE x == Dot(q.transformed, v)
             truth == Truth(q, r)
             serving == ServingError(terms)
             epsilon == Epsilon(error, serving)
             f == AsFloat(raw)
             n == One + Delta
             fixed == (2 * One) * Delta + Delta * Delta
             b == Bounds(Terms(error, serving), raw)
  <1>1. truth \in Int /\ x \in Int /\ AbsInt(x - truth) <= fixed + n * e
    BY TruthNear
  <1>2. f \in Int /\ AbsInt(f - x) <= serving
    BY <1>1, ServingAbove
  <1>3. serving \in Nat
    BY ServingNatural
  <1>4. epsilon \in Nat /\ fixed + n * error + serving <= epsilon
    BY <1>3, EpsilonAbove
  <1>5. n \in Nat /\ fixed \in Nat
    BY CertificateAssumption, SMT
  <1>6. /\ b.lower = NextDown(Round(f - epsilon))
        /\ b.upper = NextUp(Round(f + epsilon))
    BY DEF Bounds, Terms
  <1> HIDE DEF x, truth, serving, epsilon, f, n, fixed, b
  <1>7. n * e <= n * error /\ n * e \in Nat /\ n * error \in Nat
    BY <1>5, ProductGrows, SMT
  <1> DEFINE ne == n * e
             nn == n * error
  <1>8. ne \in Nat /\ nn \in Nat /\ ne <= nn /\ AbsInt(x - truth) <= fixed + ne
        /\ fixed + nn + serving <= epsilon
    BY <1>1, <1>4, <1>7
  <1> HIDE DEF ne, nn
  <1>9. f - epsilon <= truth /\ truth <= f + epsilon
    BY <1>1, <1>2, <1>3, <1>4, <1>5, <1>8, SMT DEF AbsInt
  <1>10. f - epsilon \in Int /\ f + epsilon \in Int
    BY <1>2, <1>4, SMT
  <1>11. b.lower \in Int /\ b.lower < f - epsilon /\ b.upper \in Int /\ f + epsilon < b.upper
    BY <1>6, <1>10, NextUpAbove, NextDownBelow, SMT
  <1>12. b.lower <= truth /\ truth <= b.upper
    BY <1>1, <1>9, <1>10, <1>11, SMT
  <1>13. QED
    BY <1>1, <1>11, <1>12 DEF Holds, b, serving, truth

\* A row that a certificate can be built for, and a query that can be prepared.
Usable(row) ==
    /\ Directed(row)
    /\ \A model \in Models : /\ row.primary \in DOMAIN PrimaryVector[model]
                             /\ row.residual \in DOMAIN ResidualVector[model]
Ready(q, model) == Directed(q) /\ model \in Models /\ TablesFit(q.transformed, model)

\* The decoded vectors of a usable row are vectors of floats.
LEMMA DecodedVectors ==
    ASSUME NEW row, Usable(row), NEW model \in Models
    PROVE  /\ row.primary \in DOMAIN PrimaryVector[model]
           /\ row.residual \in DOMAIN ResidualVector[model]
           /\ PrimaryVector[model][row.primary] \in FloatVector
           /\ ResidualVector[model][row.residual] \in FloatVector
           /\ PrimaryVector[model][row.primary] \in Vector
           /\ ResidualVector[model][row.residual] \in Vector
           /\ row.transformed \in FloatVector
  <1>1. /\ row.primary \in DOMAIN PrimaryVector[model]
        /\ row.residual \in DOMAIN ResidualVector[model]
        /\ Directed(row)
    BY DEF Usable
  <1>2. /\ PrimaryVector[model][row.primary] \in FloatVector
        /\ ResidualVector[model][row.residual] \in FloatVector
    BY <1>1, VectorsAssumption
  <1>3. QED
    BY <1>1, <1>2, FloatVectorIs, DirectionWithin

\* A score of table entries within the limit.
LEMMA RawsWithin ==
    ASSUME NEW q, NEW model, Ready(q, model), NEW row, Usable(row)
    PROVE  /\ AbsInt(PrimaryRaw(q.transformed, PrimaryVector[model][row.primary]))
                  <= RefinedTerms * LargestEntry
           /\ AbsInt(RefinedRaw(q.transformed, PrimaryVector[model][row.primary],
                                ResidualVector[model][row.residual]))
                  <= RefinedTerms * LargestEntry
  <1> DEFINE t == q.transformed
             p == PrimaryVector[model][row.primary]
             r == ResidualVector[model][row.residual]
             u == [c \in Coordinates |-> Step(t[c] * p[c])]
             step == Step(Dot(t, r))
             l == LargestEntry
  <1>1. model \in Models /\ Directed(q) /\ TablesFit(t, model)
    BY DEF Ready
  <1>2. /\ row.primary \in DOMAIN PrimaryVector[model] /\ p \in Vector
        /\ row.residual \in DOMAIN ResidualVector[model] /\ r \in Vector
    BY <1>1, DecodedVectors
  <1>3. t \in Vector
    BY <1>1, DirectionWithin, FloatVectorIs
  <1>4. \A c \in Coordinates : AbsInt(Step(t[c] * p[c])) <= l
    BY <1>1, <1>2 DEF TablesFit
  <1>5. AbsInt(step) <= l
    BY <1>1, <1>2 DEF TablesFit
  <1>6. \A c \in Coordinates : u[c] \in Int /\ AbsInt(u[c]) <= l
    <2>1. \A c \in Coordinates : t[c] * p[c] \in Int
      BY <1>2, <1>3, VectorTypes
    <2>2. \A c \in Coordinates : Step(t[c] * p[c]) \in Int
      BY <2>1, StepNear
    <2>3. QED
      BY <1>4, <2>2
  <1>7. step \in Int
    BY <1>2, <1>3, VectorTypes, StepNear
  <1>8. l \in Nat /\ PrimaryTerms \in Nat /\ Dimension = PrimaryTerms
        /\ RefinedTerms = PrimaryTerms + 1
    BY CertificateAssumption, SMT DEF PrimaryTerms, RefinedTerms
  <1>9. PrimaryRaw(t, p) = Total(u) /\ RefinedRaw(t, p, r) = Total(u) + step
    BY DEF PrimaryRaw, RefinedRaw
  <1> HIDE DEF u, step, l
  <1>10. Total(u) \in Int /\ AbsInt(Total(u)) <= Dimension * l
    BY <1>6, <1>8, TotalType, TotalBounded
  <1> DEFINE s == Total(u)
             m == PrimaryTerms * l
  <1>11. s \in Int /\ AbsInt(s) <= m /\ m \in Nat /\ RefinedTerms * l = m + l
    BY <1>8, <1>10, SMT
  <1>12. PrimaryRaw(t, p) = s /\ RefinedRaw(t, p, r) = s + step
    BY <1>9
  <1> HIDE DEF s, m
  <1>13. AbsInt(s) <= m + l /\ AbsInt(s + step) <= m + l
    BY <1>5, <1>7, <1>8, <1>11, SMT DEF AbsInt
  <1>14. QED
    BY <1>11, <1>12, <1>13 DEF l

\* The bounds of a primary score hold the true score,
LEMMA PrimaryHolds ==
    ASSUME NEW q, NEW model, Ready(q, model), NEW row, Usable(row),
           NEW error \in Nat, PrimaryError(model, row) <= error
    PROVE  Holds(Bounds(Terms(error, ServingError(PrimaryTerms)),
                        PrimaryRaw(q.transformed, PrimaryVector[model][row.primary])),
                 Truth(q, row))
  <1> DEFINE p == PrimaryVector[model][row.primary]
  <1>1. model \in Models /\ Directed(q) /\ Directed(row) /\ PrimaryTerms \in Nat
    BY CertificateAssumption DEF Ready, Usable, PrimaryTerms
  <1>2. p \in FloatVector /\ p \in Vector /\ row.transformed \in FloatVector
    BY <1>1, DecodedVectors
  <1>3. q.transformed \in Vector
    BY <1>1, DirectionWithin, FloatVectorIs
  <1>4. PICK e \in Nat : e <= PrimaryError(model, row) /\ NoLonger(Minus(row.transformed, p), e)
    BY <1>2, PrimaryErrorAbove
  <1>5. e <= error
    BY <1>2, <1>4, PrimaryErrorAbove, SMT
  <1>6. /\ PrimaryRaw(q.transformed, p) \in Int
        /\ AbsInt(PrimaryRaw(q.transformed, p) * Quantum - Dot(q.transformed, p))
               <= PrimaryTerms * (Quantum \div 2)
    BY <1>2, <1>3, PrimaryRawNear
  <1>7. AbsInt(PrimaryRaw(q.transformed, p)) <= RefinedTerms * LargestEntry
    BY RawsWithin
  <1> HIDE DEF p
  <1>8. Holds(Bounds(Terms(error, ServingError(PrimaryTerms)), PrimaryRaw(q.transformed, p)),
              Truth(q, row))
    BY <1>1, <1>2, <1>4, <1>5, <1>6, <1>7, BoundsHold
  <1>9. QED
    BY <1>8 DEF p

\* and so do those of a refined one.
LEMMA RefinedHolds ==
    ASSUME NEW q, NEW model, Ready(q, model), NEW row, Usable(row),
           NEW error \in Nat, RefinedError(model, row) <= error
    PROVE  Holds(Bounds(Terms(error, ServingError(RefinedTerms)),
                        RefinedRaw(q.transformed, PrimaryVector[model][row.primary],
                                   ResidualVector[model][row.residual])),
                 Truth(q, row))
  <1> DEFINE p == PrimaryVector[model][row.primary]
             r == ResidualVector[model][row.residual]
             s == Plus(p, r)
  <1>1. model \in Models /\ Directed(q) /\ Directed(row) /\ RefinedTerms \in Nat
    <2>1. RefinedTerms \in Nat
      BY CertificateAssumption, SMT DEF RefinedTerms, PrimaryTerms
    <2>2. QED
      BY <2>1 DEF Ready, Usable
  <1>2. /\ p \in FloatVector /\ p \in Vector /\ r \in FloatVector /\ r \in Vector
        /\ row.transformed \in FloatVector
    BY <1>1, DecodedVectors
  <1>3. q.transformed \in Vector /\ s \in Vector
    BY <1>1, <1>2, DirectionWithin, FloatVectorIs, VectorTypes
  <1>4. PICK e \in Nat : e <= RefinedError(model, row) /\ NoLonger(Minus(row.transformed, s), e)
    BY <1>2, RefinedErrorAbove
  <1>5. e <= error
    BY <1>2, <1>4, RefinedErrorAbove, SMT
  <1> DEFINE raw == RefinedRaw(q.transformed, p, r)
  <1>6. /\ raw \in Int
        /\ AbsInt(raw * Quantum - Dot(q.transformed, s)) <= RefinedTerms * (Quantum \div 2)
    BY <1>2, <1>3, RefinedRawNear
  <1>7. AbsInt(raw) <= RefinedTerms * LargestEntry
    BY RawsWithin
  <1> HIDE DEF s, raw
  <1>8. Holds(Bounds(Terms(error, ServingError(RefinedTerms)), raw), Truth(q, row))
    BY <1>1, <1>3, <1>4, <1>5, <1>6, <1>7, BoundsHold
  <1>9. QED
    BY <1>8 DEF raw
-------------------------------------------------------------------------------
(* The largest error of a block, and the tighter of two intervals.             *)
LEMMA ListBounded ==
    ASSUME NEW n \in Nat, NEW f, \A i \in 1..n : f[i] \in Nat
    PROVE  \E b \in Nat : \A i \in 1..n : f[i] <= b
  <1> DEFINE Wrong == {t \in 0..n : ~ \E b \in Nat : \A i \in 1..t : f[i] <= b}
  <1>1. Wrong = {}
    <2>1. SUFFICES ASSUME Wrong # {} PROVE FALSE
      OBVIOUS
    <2>2. Wrong \subseteq Nat
      BY SMT
    <2>3. PICK m \in Wrong : \A y \in Wrong : ~ (y < m)
      BY <2>1, <2>2, FirstNatural
    <2>4. m \in Nat /\ m \in 0..n /\ ~ \E b \in Nat : \A i \in 1..m : f[i] <= b
      BY <2>2, <2>3
    <2>5. m # 0
      <3>1. \A i \in 1..0 : f[i] <= 0
        BY SMT
      <3>2. QED
        BY <2>4, <3>1
    <2>6. m - 1 \in 0..n /\ m - 1 < m /\ m \in 1..n
          /\ \A i \in 1..m : i = m \/ i \in 1..(m - 1)
      BY <2>4, <2>5, SMT
    <2>7. PICK b \in Nat : \A i \in 1..(m - 1) : f[i] <= b
      BY <2>3, <2>6
    <2>8. f[m] \in Nat
      BY <2>6
    <2> DEFINE sum == b + f[m]
    <2>9. sum \in Nat /\ f[m] <= sum /\ b <= sum
      BY <2>8, SMT
    <2> HIDE DEF sum
    <2>10. ASSUME NEW i \in 1..m PROVE f[i] <= sum
      <3>1. CASE i = m
        BY <2>9, <3>1
      <3>2. CASE i \in 1..(m - 1)
        <4>1. f[i] <= b /\ f[i] \in Nat
          <5>1. i \in 1..n
            BY <2>4, <3>2, SMT
          <5>2. QED
            BY <2>7, <3>2, <5>1
        <4>2. QED
          BY <2>9, <4>1, SMT
      <3>3. QED
        BY <2>6, <3>1, <3>2
    <2>11. QED
      BY <2>4, <2>9, <2>10
  <1>2. n \in 0..n
    BY SMT
  <1>3. QED
    BY <1>1, <1>2

\* The largest of the values of a list is one of them and no value is larger.
LEMMA MaxOfList ==
    ASSUME NEW n \in Nat, n >= 1, NEW f, \A i \in 1..n : f[i] \in Nat
    PROVE  /\ Max({f[i] : i \in 1..n}) \in Nat
           /\ \A i \in 1..n : f[i] <= Max({f[i0] : i0 \in 1..n})
  <1> DEFINE S == {f[i] : i \in 1..n}
  <1>1. PICK b \in Nat : \A i \in 1..n : f[i] <= b
    BY ListBounded
  <1>2. S # {} /\ \A x \in S : x \in Nat /\ x \in Int /\ x <= b
    <2>1. 1 \in 1..n
      BY SMT
    <2>2. f[1] \in S
      BY <2>1
    <2>3. \A x \in S : x \in Nat /\ x <= b
      BY <1>1
    <2>4. QED
      BY <2>2, <2>3, SMT
  <1> HIDE DEF S
  <1>3. b \in Int
    BY SMT
  <1>4. PICK m \in S : \A x \in S : x <= m
    BY <1>2, <1>3, LargestExists
  <1>5. \A x \in S : m >= x
    BY <1>2, <1>4, SMT
  <1>6. Max(S) \in S /\ \A x \in S : Max(S) >= x
    BY <1>5 DEF Max
  <1>7. Max(S) \in Nat /\ \A x \in S : x <= Max(S)
    BY <1>2, <1>6, SMT
  <1>8. \A i \in 1..n : f[i] \in S
    BY DEF S
  <1>9. \A i \in 1..n : f[i] <= Max(S)
    BY <1>7, <1>8
  <1>10. QED
    BY <1>7, <1>9 DEF S

\* The larger and the smaller of two integers.
LEMMA MaxOfTwo ==
    ASSUME NEW a \in Int, NEW b \in Int
    PROVE  /\ Max({a, b}) \in {a, b} /\ a <= Max({a, b}) /\ b <= Max({a, b})
           /\ Min({a, b}) \in {a, b} /\ Min({a, b}) <= a /\ Min({a, b}) <= b
  <1> DEFINE S == {a, b}
  <1>1. \E m \in S : \A x \in S : m >= x
    <2>1. a >= b \/ b >= a
      BY SMT
    <2>2. a >= a /\ b >= b
      BY SMT
    <2>3. QED
      BY <2>1, <2>2
  <1>2. \E m \in S : \A x \in S : m =< x
    <2>1. a <= b \/ b <= a
      BY SMT
    <2>2. a <= a /\ b <= b
      BY SMT
    <2>3. QED
      BY <2>1, <2>2
  <1>3. Max(S) \in S /\ (\A x \in S : Max(S) >= x) /\ Min(S) \in S /\ \A x \in S : Min(S) <= x
    BY <1>1, <1>2 DEF Max, Min
  <1>4. Max(S) \in {a, b} /\ Min(S) \in {a, b} /\ Max(S) >= a /\ Max(S) >= b
        /\ Min(S) <= a /\ Min(S) <= b
    BY <1>3
  <1> HIDE DEF S
  <1>5. QED
    BY <1>4, SMT DEF S

\* Two intervals that hold the same number meet, and their intersection holds it.
LEMMA HoldsBoth ==
    ASSUME NEW a, NEW b, NEW x, Holds(a, x), Holds(b, x), NEW both,
           both.lower = Max({a.lower, b.lower}), both.upper = Min({a.upper, b.upper})
    PROVE  Holds(both, x) /\ ~ (both.lower > both.upper)
  <1>1. /\ a.lower \in Int /\ a.upper \in Int /\ b.lower \in Int /\ b.upper \in Int /\ x \in Int
        /\ a.lower <= x /\ x <= a.upper /\ b.lower <= x /\ x <= b.upper
    BY DEF Holds
  <1>2. both.lower \in {a.lower, b.lower} /\ both.upper \in {a.upper, b.upper}
    BY <1>1, MaxOfTwo
  <1>3. both.lower \in Int /\ both.upper \in Int /\ both.lower <= x /\ x <= both.upper
    BY <1>1, <1>2
  <1>4. ~ (both.lower > both.upper)
    BY <1>1, <1>3, SMT
  <1>5. QED
    BY <1>1, <1>3, <1>4 DEF Holds

-------------------------------------------------------------------------------
(* The rows of a block, numbered by their places.                              *)
Declared(row) ==
    /\ Carried(row)
    /\ \A model \in Models : /\ row.primary \in DOMAIN PrimaryVector[model]
                             /\ row.residual \in DOMAIN ResidualVector[model]

Numbered(rows) ==
    \E n \in Nat : /\ n >= 1 /\ DOMAIN rows = 1..n
                   /\ \A i \in 1..n : rows[i].row = i - 1 /\ Declared(rows[i])

\* A sorted list has the rows of the list.
LEMMA SortedIs ==
    ASSUME NEW list \in RowLists, NEW rows \in Sortings(list)
    PROVE  /\ DOMAIN rows = 1..Len(list) /\ Len(rows) = Len(list) /\ Len(list) \in Nat
           /\ \A i \in 1..Len(list) : Declared(rows[i]) /\ rows[i].row \in Nat
  <1>1. /\ Len(list) \in Nat /\ DOMAIN list = 1..Len(list)
        /\ \A i \in DOMAIN list : list[i].row \in Nat /\ Declared(list[i])
    BY VectorsAssumption DEF Declared
  <1>2. PICK p \in Bijection(DOMAIN list, DOMAIN list) : rows = [i \in DOMAIN list |-> list[p[i]]]
    BY DEF Sortings
  <1>3. \A i \in DOMAIN list : p[i] \in DOMAIN list
    BY DEF Bijection, Injection, Surjection
  <1> DEFINE n == Len(list)
  <1>4. n \in Nat /\ DOMAIN rows = 1..n
    BY <1>1, <1>2
  <1>5. \A i \in 1..n : Declared(rows[i]) /\ rows[i].row \in Nat
    BY <1>1, <1>2, <1>3
  <1> DEFINE T == {list[i] : i \in 1..n}
  <1>6. rows \in [1..n -> T]
    BY <1>1, <1>2, <1>3
  <1> HIDE DEF n, T
  <1>7. rows \in Seq(T)
    BY <1>4, <1>6, SMT
  <1>8. Len(rows) \in Nat /\ DOMAIN rows = 1..Len(rows)
    BY <1>7, LenProperties
  <1>9. Len(rows) = n
    <2> DEFINE m == Len(rows)
    <2>1. m \in Nat /\ n \in Nat /\ 1..m = 1..n
      BY <1>4, <1>8
    <2> HIDE DEF m
    <2>2. m = n
      BY <2>1, SMT
    <2>3. QED
      BY <2>2 DEF m
  <1>10. QED
    BY <1>4, <1>5, <1>9 DEF n

\* A list of rows that from_rows accepts has them numbered by their places.
LEMMA AcceptedRows ==
    ASSUME NEW list \in RowLists, NEW rows \in Sortings(list), NEW declared \in 0..2,
           RowsError(declared, rows) = "ok"
    PROVE  Numbered(rows)
  <1> DEFINE wrong == {i \in 1..declared : rows[i].row >= declared \/ rows[i].row # i - 1}
             first == rows[Min(wrong)].row
             low == Min(wrong) - 1
  <1>1. RowsError(declared, rows) =
            IF declared = 0 THEN "EmptyBlock"
            ELSE IF Len(rows) # declared THEN "RowCountMismatch"
            ELSE IF wrong = {} THEN "ok"
            ELSE IF first >= declared THEN "RowOutOfRange"
            ELSE IF first < low THEN "DuplicateRow" ELSE "MissingRow"
    BY DEF RowsError
  <1> HIDE DEF wrong, first, low
  <1>2. declared # 0 /\ Len(rows) = declared /\ wrong = {}
    BY <1>1
  <1>3. declared \in Nat /\ declared >= 1
    BY <1>2, SMT
  <1>4. \A i \in 1..declared : rows[i].row = i - 1
    BY <1>2 DEF wrong
  <1>5. DOMAIN rows = 1..declared /\ \A i \in 1..declared : Declared(rows[i])
    BY <1>2, SortedIs
  <1>6. QED
    BY <1>3, <1>4, <1>5 DEF Numbered

\* The certificate of a block covers the error of each of its rows.
LEMMA WorstErrors ==
    ASSUME NEW rows, Numbered(rows), \A i \in DOMAIN rows : ~ NoDirection(rows[i].original),
           NEW model \in Models
    PROVE  \E primary, refined \in Nat :
              /\ ErrorCertificates(model, rows) =
                     [primary |-> Terms(primary, ServingError(PrimaryTerms)),
                      refined |-> Terms(refined, ServingError(RefinedTerms))]
              /\ \A i \in DOMAIN rows : /\ Usable(rows[i])
                                        /\ PrimaryError(model, rows[i]) <= primary
                                        /\ RefinedError(model, rows[i]) <= refined
  <1>1. PICK n \in Nat : /\ n >= 1 /\ DOMAIN rows = 1..n
                         /\ \A i \in 1..n : rows[i].row = i - 1 /\ Declared(rows[i])
    BY DEF Numbered
  <1>2. \A i \in 1..n : Usable(rows[i])
    BY <1>1 DEF Declared, Usable, Directed
  <1>3. ASSUME NEW i \in 1..n
        PROVE  PrimaryError(model, rows[i]) \in Nat /\ RefinedError(model, rows[i]) \in Nat
    <2>1. Usable(rows[i])
      BY <1>2
    <2>2. /\ PrimaryVector[model][rows[i].primary] \in FloatVector
          /\ ResidualVector[model][rows[i].residual] \in FloatVector
          /\ rows[i].transformed \in FloatVector
      BY <2>1, DecodedVectors
    <2>3. QED
      BY <2>2, PrimaryErrorAbove, RefinedErrorAbove
  <1> DEFINE f == [i \in 1..n |-> PrimaryError(model, rows[i])]
             g == [i \in 1..n |-> RefinedError(model, rows[i])]
             primary == Max({f[i] : i \in 1..n})
             refined == Max({g[i] : i \in 1..n})
  <1>4. \A i \in 1..n : f[i] \in Nat /\ g[i] \in Nat
    BY <1>3
  <1>5. /\ {PrimaryError(model, rows[i]) : i \in DOMAIN rows} = {f[i] : i \in 1..n}
        /\ {RefinedError(model, rows[i]) : i \in DOMAIN rows} = {g[i] : i \in 1..n}
    BY <1>1
  <1>6. ErrorCertificates(model, rows) =
            [primary |-> Terms(primary, ServingError(PrimaryTerms)),
             refined |-> Terms(refined, ServingError(RefinedTerms))]
    BY <1>5, Zenon DEF ErrorCertificates
  <1>7. \A i \in 1..n : f[i] = PrimaryError(model, rows[i]) /\ g[i] = RefinedError(model, rows[i])
    OBVIOUS
  <1> HIDE DEF f, g
  <1>8. /\ primary \in Nat /\ \A i \in 1..n : f[i] <= primary
        /\ refined \in Nat /\ \A i \in 1..n : g[i] <= refined
    BY <1>1, <1>4, MaxOfList
  <1> HIDE DEF primary, refined
  <1>9. \A i \in DOMAIN rows : /\ Usable(rows[i])
                               /\ PrimaryError(model, rows[i]) <= primary
                               /\ RefinedError(model, rows[i]) <= refined
    BY <1>1, <1>2, <1>7, <1>8
  <1>10. QED
    BY <1>6, <1>8, <1>9
-------------------------------------------------------------------------------
(* What the states of Certificate keep: a certificate is the one of its block, *)
(* a query fits the tables, a certified score is the score of a row of the     *)
(* block it names, by the model of that block, and an interval holds the true  *)
(* score of the one row of its number.                                         *)
BlocksKept ==
    /\ blocks = [b \in Blocks |-> blocks[b]]
    /\ \A b \in Blocks : blocks[b] = None \/ Numbered(blocks[b].rows)

Attests(block, certificate) ==
    /\ block # None /\ certificate.model \in Models
    /\ certificate.errors = ErrorCertificates(certificate.model, block.rows)
    /\ \A i \in DOMAIN block.rows : ~ NoDirection(block.rows[i].original)

CertificatesKept ==
    /\ certificates = [b \in Blocks |-> certificates[b]]
    /\ \A b \in Blocks : certificates[b] = None \/ Attests(blocks[b], certificates[b])

QueryKept == query = None \/ Ready(query, query.model)

RawOf(kind, row) ==
    IF kind = "Primary"
    THEN PrimaryRaw(query.transformed, PrimaryVector[query.model][row.primary])
    ELSE RefinedRaw(query.transformed, PrimaryVector[query.model][row.primary],
                    ResidualVector[query.model][row.residual])

ScoreKept ==
    certified = None \/
        /\ query # None /\ certified.block \in Blocks /\ blocks[certified.block] # None
        /\ certified.capability = certified.block
        /\ certificates[certified.block] # None
        /\ query.model = certificates[certified.block].model
        /\ certified.kind \in {"Primary", "Refined"}
        /\ \E row \in ToSet(blocks[certified.block].rows) :
               certified.row = row.row /\ certified.raw = RawOf(certified.kind, row)

IntervalKept ==
    interval = None \/
        /\ query # None /\ interval.block \in Blocks /\ blocks[interval.block] # None
        /\ \E row \in ToSet(blocks[interval.block].rows) :
               /\ row.row = interval.row /\ Holds(interval.bounds, Truth(query, row))
               /\ \A other \in ToSet(blocks[interval.block].rows) :
                      other.row = interval.row => other = row

OutcomeKept == outcome \notin {"EmptyIntersection", "InvalidTerms", "CertificateInvalid"}

CertificateInv ==
    BlocksKept /\ CertificatesKept /\ QueryKept /\ ScoreKept /\ IntervalKept /\ OutcomeKept

\* No block, certificate, query, score or interval exists at first.
LEMMA InitKeeps ==
    ASSUME CertificateInit
    PROVE  CertificateInv
  <1>1. /\ blocks = [b \in Blocks |-> None] /\ certificates = [b \in Blocks |-> None]
        /\ query = None /\ certified = None /\ interval = None /\ outcome = "ok"
    BY DEF CertificateInit
  <1>2. BlocksKept /\ CertificatesKept
    BY <1>1 DEF BlocksKept, CertificatesKept
  <1>3. QED
    BY <1>1, <1>2 DEF CertificateInv, QueryKept, ScoreKept, IntervalKept, OutcomeKept

\* An enumeration changes no block that a certificate or an interval is about.
LEMMA EnumerateKeeps ==
    ASSUME CertificateInv, NEW b \in Blocks, NEW label, NEW declared \in 0..2,
           NEW list \in RowLists, Enumerate(b, label, declared, list)
    PROVE  CertificateInv'
  <1>1. PICK rows \in Sortings(list) :
           /\ outcome' = RowsError(declared, rows)
           /\ blocks' = IF outcome' = "ok"
                        THEN [blocks EXCEPT ![b] = [label |-> label, rows |-> rows]]
                        ELSE blocks
    BY DEF Enumerate
  <1>2. /\ blocks[b] = None /\ certificates' = certificates /\ query' = query
        /\ certified' = certified /\ interval' = interval
    BY DEF Enumerate
  <1>3. /\ blocks = [x \in Blocks |-> blocks[x]]
        /\ \A x \in Blocks : blocks[x] = None \/ Numbered(blocks[x].rows)
    BY DEF CertificateInv, BlocksKept
  <1>4. BlocksKept' /\ \A x \in Blocks : blocks[x] # None => blocks'[x] = blocks[x]
    <2>1. CASE outcome' = "ok"
      <3> DEFINE new == [label |-> label, rows |-> rows]
      <3>1. blocks' = [blocks EXCEPT ![b] = new]
        BY <1>1, <2>1
      <3>2. new.rows = rows
        OBVIOUS
      <3>3. Numbered(rows)
        BY <1>1, <2>1, AcceptedRows
      <3>4. Numbered(new.rows)
        BY <3>2, <3>3
      <3> HIDE DEF new
      <3>5. blocks' = [x \in Blocks |-> IF x = b THEN new ELSE blocks[x]]
        BY <1>3, <3>1
      <3>6. \A x \in Blocks : blocks'[x] = IF x = b THEN new ELSE blocks[x]
        BY <3>5
      <3>7. blocks' = [x \in Blocks |-> blocks'[x]]
        BY <3>5
      <3>8. \A x \in Blocks : blocks'[x] = None \/ Numbered(blocks'[x].rows)
        BY <1>3, <3>4, <3>6
      <3>9. \A x \in Blocks : blocks[x] # None => blocks'[x] = blocks[x]
        BY <1>2, <3>6
      <3>10. QED
        BY <3>7, <3>8, <3>9 DEF BlocksKept
    <2>2. CASE outcome' # "ok"
      <3>1. blocks' = blocks
        BY <1>1, <2>2
      <3>2. QED
        BY <1>3, <3>1 DEF BlocksKept
    <2>3. QED
      BY <2>1, <2>2
  <1>5. CertificatesKept'
    <2>1. /\ certificates = [x \in Blocks |-> certificates[x]]
          /\ \A x \in Blocks : certificates[x] = None \/ Attests(blocks[x], certificates[x])
      BY DEF CertificateInv, CertificatesKept
    <2>2. \A x \in Blocks : certificates[x] = None \/ Attests(blocks'[x], certificates[x])
      BY <1>4, <2>1 DEF Attests
    <2>3. QED
      BY <1>2, <2>1, <2>2 DEF CertificatesKept
  <1>6. QueryKept'
    BY <1>2 DEF CertificateInv, QueryKept
  <1>7. ScoreKept'
    <2>1. ScoreKept
      BY DEF CertificateInv
    <2>2. CASE certified = None
      BY <1>2, <2>2 DEF ScoreKept
    <2>3. CASE certified # None
      <3>1. blocks'[certified.block] = blocks[certified.block]
        BY <1>4, <2>1, <2>3 DEF ScoreKept
      <3>2. QED
        BY <1>2, <2>1, <2>3, <3>1 DEF ScoreKept, RawOf
    <2>4. QED
      BY <2>2, <2>3
  <1>8. IntervalKept'
    <2>1. IntervalKept
      BY DEF CertificateInv
    <2>2. CASE interval = None
      BY <1>2, <2>2 DEF IntervalKept
    <2>3. CASE interval # None
      <3>1. blocks'[interval.block] = blocks[interval.block]
        BY <1>4, <2>1, <2>3 DEF IntervalKept
      <3>2. QED
        BY <1>2, <2>1, <2>3, <3>1 DEF IntervalKept
    <2>4. QED
      BY <2>2, <2>3
  <1>9. OutcomeKept'
    <2>1. outcome' \in {"EmptyBlock", "RowCountMismatch", "RowOutOfRange", "DuplicateRow",
                        "MissingRow", "ok"}
      BY <1>1 DEF RowsError
    <2>2. QED
      BY <2>1 DEF OutcomeKept
  <1>10. QED
    BY <1>4, <1>5, <1>6, <1>7, <1>8, <1>9 DEF CertificateInv

\* A certificate is built for rows that all have a direction.
LEMMA BuildKeeps ==
    ASSUME CertificateInv, NEW b \in Blocks, NEW model \in Models, Build(b, model)
    PROVE  CertificateInv'
  <1> DEFINE unusable == \E row \in ToSet(blocks[b].rows) : NoDirection(row.original)
             new == [model |-> model, errors |-> ErrorCertificates(model, blocks[b].rows)]
  <1>1. /\ blocks[b] # None /\ certificates[b] = None
        /\ outcome' = IF unusable THEN "InvalidOriginal" ELSE "ok"
        /\ certificates' = IF unusable THEN certificates ELSE [certificates EXCEPT ![b] = new]
        /\ blocks' = blocks /\ query' = query /\ certified' = certified /\ interval' = interval
    BY DEF Build
  <1>2. /\ certificates = [x \in Blocks |-> certificates[x]]
        /\ \A x \in Blocks : certificates[x] = None \/ Attests(blocks[x], certificates[x])
    BY DEF CertificateInv, CertificatesKept
  <1>3. ~ unusable => Attests(blocks[b], new)
    <2>1. new.model = model /\ new.errors = ErrorCertificates(model, blocks[b].rows)
      OBVIOUS
    <2> HIDE DEF new
    <2>2. ~ unusable => \A i \in DOMAIN blocks[b].rows : ~ NoDirection(blocks[b].rows[i].original)
      BY DEF ToSet
    <2>3. QED
      BY <1>1, <2>1, <2>2 DEF Attests
  <1> HIDE DEF new
  <1>4. CertificatesKept' /\ \A x \in Blocks : certificates[x] # None => certificates'[x] = certificates[x]
    <2>1. CASE unusable
      BY <1>1, <1>2, <2>1 DEF CertificatesKept
    <2>2. CASE ~ unusable
      <3>1. certificates' = [x \in Blocks |-> IF x = b THEN new ELSE certificates[x]]
        BY <1>1, <1>2, <2>2
      <3> HIDE DEF unusable
      <3>2. \A x \in Blocks : certificates'[x] = IF x = b THEN new ELSE certificates[x]
        BY <3>1
      <3>3. certificates' = [x \in Blocks |-> certificates'[x]]
        BY <3>1
      <3>4. \A x \in Blocks : certificates'[x] = None \/ Attests(blocks'[x], certificates'[x])
        BY <1>1, <1>2, <1>3, <2>2, <3>2
      <3>5. QED
        BY <1>1, <3>2, <3>3, <3>4 DEF CertificatesKept
    <2>3. QED
      BY <2>1, <2>2
  <1>5. outcome' \in {"InvalidOriginal", "ok"}
    BY <1>1
  <1> HIDE DEF unusable
  <1>6. BlocksKept' /\ QueryKept' /\ IntervalKept' /\ OutcomeKept'
    BY <1>1, <1>5 DEF CertificateInv, BlocksKept, QueryKept, IntervalKept, OutcomeKept
  <1>7. ScoreKept'
    <2>1. ScoreKept
      BY DEF CertificateInv
    <2>2. CASE certified = None
      BY <1>1, <2>2 DEF ScoreKept
    <2>3. CASE certified # None
      <3>1. certificates'[certified.block] = certificates[certified.block]
        BY <1>4, <2>1, <2>3 DEF ScoreKept
      <3>2. QED
        BY <1>1, <2>1, <2>3, <3>1 DEF ScoreKept, RawOf
    <2>4. QED
      BY <2>2, <2>3
  <1>8. QED
    BY <1>4, <1>6, <1>7 DEF CertificateInv

\* A prepared query has a direction, and its tables fit.
LEMMA PrepareQueryKeeps ==
    ASSUME CertificateInv, NEW q \in Queries, NEW model \in Models, PrepareQuery(q, model)
    PROVE  CertificateInv'
  <1> DEFINE new == [original |-> q.original, transformed |-> q.transformed, model |-> model]
  <1>1. /\ query = None
        /\ outcome' = IF NoDirection(q.original) THEN "ZeroNorm"
                      ELSE IF ~TablesFit(q.transformed, model) THEN "LookupOutOfRange" ELSE "ok"
        /\ query' = IF outcome' # "ok" THEN query ELSE new
        /\ blocks' = blocks /\ certificates' = certificates /\ certified' = certified
        /\ interval' = interval
    BY DEF PrepareQuery
  <1>2. certified = None /\ interval = None
    BY <1>1 DEF CertificateInv, ScoreKept, IntervalKept
  <1>3. new.original = q.original /\ new.transformed = q.transformed /\ new.model = model
    OBVIOUS
  <1> HIDE DEF new
  <1>4. QueryKept'
    <2>1. CASE outcome' # "ok"
      BY <1>1, <2>1 DEF QueryKept
    <2>2. CASE outcome' = "ok"
      <3>1. ~ NoDirection(q.original) /\ TablesFit(q.transformed, model) /\ query' = new
        BY <1>1, <2>2
      <3>2. Carried(q)
        BY VectorsAssumption
      <3>3. Carried(new)
        BY <1>3, <3>2 DEF Carried
      <3>4. Ready(new, new.model)
        BY <1>3, <3>1, <3>3 DEF Ready, Directed
      <3>5. QED
        BY <3>1, <3>4 DEF QueryKept
    <2>3. QED
      BY <2>1, <2>2
  <1>5. outcome' \in {"ZeroNorm", "LookupOutOfRange", "ok"}
    BY <1>1
  <1>6. OutcomeKept' /\ ScoreKept' /\ IntervalKept'
    BY <1>1, <1>2, <1>5 DEF OutcomeKept, ScoreKept, IntervalKept
  <1>7. BlocksKept' /\ CertificatesKept'
    BY <1>1 DEF CertificateInv, BlocksKept, CertificatesKept
  <1>8. QED
    BY <1>4, <1>6, <1>7 DEF CertificateInv
LEMMA TermsValid ==
    ASSUME NEW error \in Nat, NEW serving \in Nat
    PROVE  ValidTerms(Terms(error, serving))
  <1> DEFINE eta == EtaTransformDot
             norm == QueryNormUpper
             epsilon == Epsilon(error, serving)
             terms == Terms(error, serving)
  <1>1. eta \in Nat /\ norm \in Nat /\ epsilon \in Nat
    BY EpsilonAbove
  <1>2. terms = [error |-> error, eta_transform_dot |-> eta, query_norm_upper |-> norm,
                 serving |-> serving, epsilon |-> epsilon]
    BY DEF Terms
  <1>3. /\ DOMAIN terms = {"error", "eta_transform_dot", "query_norm_upper", "serving", "epsilon"}
        /\ terms.error = error /\ terms.eta_transform_dot = eta /\ terms.query_norm_upper = norm
        /\ terms.serving = serving /\ terms.epsilon = epsilon
    <2> HIDE DEF eta, norm, epsilon, terms
    <2>1. QED
      BY <1>2
  <1> HIDE DEF terms
  <1>4. \A field \in DOMAIN terms : terms[field] >= 0
    <2> HIDE DEF eta, norm, epsilon
    <2>1. error >= 0 /\ serving >= 0 /\ eta >= 0 /\ norm >= 0 /\ epsilon >= 0
      BY <1>1, SMT
    <2>2. ASSUME NEW field \in DOMAIN terms PROVE terms[field] >= 0
      BY <1>3, <2>1
    <2>3. QED
      BY <2>2
  <1>5. ValidTerms(terms)
    BY <1>3, <1>4 DEF ValidTerms
  <1>6. QED
    BY <1>5 DEF terms

\* What the certificate of a block says of each of its rows is true.
LEMMA RowHolds ==
    ASSUME CertificateInv, NEW b \in Blocks, certificates[b] # None, query # None,
           query.model = certificates[b].model, NEW row \in ToSet(blocks[b].rows)
    PROVE  /\ blocks[b] # None
           /\ \A kind \in {"Primary", "Refined"} :
                  /\ Holds(Bounds(TermsOf(b, kind), RawOf(kind, row)), Truth(query, row))
                  /\ ValidTerms(TermsOf(b, kind))
           /\ \A other \in ToSet(blocks[b].rows) : other.row = row.row => other = row
  <1> DEFINE rows == blocks[b].rows
             model == query.model
  <1>1. Attests(blocks[b], certificates[b]) /\ Ready(query, model)
    BY DEF CertificateInv, CertificatesKept, QueryKept
  <1>2. /\ blocks[b] # None /\ model \in Models
        /\ certificates[b].errors = ErrorCertificates(model, rows)
        /\ \A i \in DOMAIN rows : ~ NoDirection(rows[i].original)
    BY <1>1 DEF Attests
  <1>3. Numbered(rows)
    BY <1>2 DEF CertificateInv, BlocksKept
  <1>4. PICK n \in Nat : n >= 1 /\ DOMAIN rows = 1..n /\ \A i \in 1..n : rows[i].row = i - 1
    BY <1>3 DEF Numbered
  <1>5. PICK i \in 1..n : row = rows[i]
    BY <1>4 DEF ToSet
  <1>6. ASSUME NEW other \in ToSet(rows), other.row = row.row PROVE other = row
    <2>1. PICK j \in 1..n : other = rows[j]
      BY <1>4 DEF ToSet
    <2>2. i - 1 = j - 1
      BY <1>4, <1>5, <1>6, <2>1
    <2>3. i = j
      BY <2>2, SMT
    <2>4. QED
      BY <1>5, <2>1, <2>3
  <1> HIDE DEF rows, model
  <1>7. PICK primary, refined \in Nat :
           /\ ErrorCertificates(model, rows) =
                  [primary |-> Terms(primary, ServingError(PrimaryTerms)),
                   refined |-> Terms(refined, ServingError(RefinedTerms))]
           /\ \A t \in DOMAIN rows : /\ Usable(rows[t])
                                     /\ PrimaryError(model, rows[t]) <= primary
                                     /\ RefinedError(model, rows[t]) <= refined
    BY <1>2, <1>3, WorstErrors
  <1>8. /\ TermsOf(b, "Primary") = Terms(primary, ServingError(PrimaryTerms))
        /\ TermsOf(b, "Refined") = Terms(refined, ServingError(RefinedTerms))
    BY <1>2, <1>7 DEF TermsOf
  <1>9. /\ Usable(row) /\ PrimaryError(model, row) <= primary /\ RefinedError(model, row) <= refined
    BY <1>4, <1>5, <1>7
  <1>10. /\ RawOf("Primary", row) = PrimaryRaw(query.transformed, PrimaryVector[model][row.primary])
         /\ RawOf("Refined", row) = RefinedRaw(query.transformed, PrimaryVector[model][row.primary],
                                               ResidualVector[model][row.residual])
    BY DEF RawOf, model
  <1>11. Holds(Bounds(TermsOf(b, "Primary"), RawOf("Primary", row)), Truth(query, row))
    BY <1>1, <1>8, <1>9, <1>10, PrimaryHolds
  <1>12. Holds(Bounds(TermsOf(b, "Refined"), RawOf("Refined", row)), Truth(query, row))
    BY <1>1, <1>8, <1>9, <1>10, RefinedHolds
  <1>13. ServingError(PrimaryTerms) \in Nat /\ ServingError(RefinedTerms) \in Nat
    <2>1. PrimaryTerms \in Nat /\ RefinedTerms \in Nat
      BY CertificateAssumption, SMT DEF PrimaryTerms, RefinedTerms
    <2>2. QED
      BY <2>1, ServingNatural
  <1>14. ValidTerms(TermsOf(b, "Primary")) /\ ValidTerms(TermsOf(b, "Refined"))
    BY <1>8, <1>13, TermsValid
  <1>15. QED
    BY <1>2, <1>6, <1>11, <1>12, <1>14 DEF rows

\* A primary score is certified for a row of the block of the certificate,
LEMMA ScorePrimaryKeeps ==
    ASSUME CertificateInv, NEW cert \in Blocks, NEW b \in Blocks, NEW row \in RowsOf(b),
           ScorePrimary(cert, b, row)
    PROVE  CertificateInv'
  <1> DEFINE raw == PrimaryRaw(query.transformed, Decode(query.model, row).primary)
             new == Certified(cert, b, row, "Primary", raw)
  <1>1. /\ certificates[cert] # None /\ query # None
        /\ outcome' = CandidateError(cert, b)
        /\ certified' = IF outcome' = "ok" THEN new ELSE certified
        /\ blocks' = blocks /\ certificates' = certificates /\ query' = query /\ interval' = interval
    BY DEF ScorePrimary
  <1>2. blocks[b] # None /\ row \in ToSet(blocks[b].rows)
    BY DEF RowsOf
  <1>3. raw = RawOf("Primary", row)
    BY DEF RawOf, Decode
  <1>4. new = [capability |-> cert, block |-> b, row |-> row.row, kind |-> "Primary",
               raw |-> raw, provenance |-> query.model]
    BY DEF Certified
  <1>5. /\ new.capability = cert /\ new.block = b /\ new.row = row.row /\ new.kind = "Primary"
        /\ new.raw = raw /\ new.provenance = query.model
    <2> HIDE DEF new, raw
    <2>1. QED
      BY <1>4
  <1> HIDE DEF new, raw
  <1>6. ScoreKept'
    <2>1. CASE outcome' = "ok"
      <3>1. cert = b /\ query.model = certificates[cert].model
        BY <1>1, <2>1 DEF CandidateError, SameCapability
      <3>2. certified' = new
        BY <1>1, <2>1
      <3>3. new.raw = RawOf("Primary", row)' /\ row \in ToSet(blocks'[b].rows)
        BY <1>1, <1>2, <1>3, <1>5 DEF RawOf
      <3>4. QED
        BY <1>1, <1>2, <1>5, <3>1, <3>2, <3>3 DEF ScoreKept
    <2>2. CASE outcome' # "ok"
      BY <1>1, <2>2 DEF CertificateInv, ScoreKept, RawOf
    <2>3. QED
      BY <2>1, <2>2
  <1>7. outcome' \in {"BlockCapabilityMismatch", "ScoreProvenanceMismatch", "ok"}
    BY <1>1 DEF CandidateError
  <1>8. BlocksKept' /\ CertificatesKept' /\ QueryKept' /\ IntervalKept' /\ OutcomeKept'
    BY <1>1, <1>7
       DEF CertificateInv, BlocksKept, CertificatesKept, QueryKept, IntervalKept, OutcomeKept
  <1>9. QED
    BY <1>6, <1>8 DEF CertificateInv

\* and a refined one from the residual code of that row, by the model of the query.
LEMMA ScoreRefinedKeeps ==
    ASSUME CertificateInv, NEW cert \in Blocks, NEW b \in Blocks, NEW row \in RowsOf(b),
           NEW prepared, ScoreRefined(cert, b, row, prepared)
    PROVE  CertificateInv'
  <1> DEFINE raw == RefinedRaw(query.transformed, Decode(query.model, row).primary,
                               ResidualVector[prepared.model][prepared.residual])
             new == Certified(cert, b, row, "Refined", raw)
  <1>1. /\ certificates[cert] # None /\ query # None
        /\ outcome' = IF CandidateError(cert, b) # "ok" THEN CandidateError(cert, b)
                      ELSE PreparedError(row, prepared)
        /\ certified' = IF outcome' = "ok" THEN new ELSE certified
        /\ blocks' = blocks /\ certificates' = certificates /\ query' = query /\ interval' = interval
    BY DEF ScoreRefined
  <1>2. blocks[b] # None /\ row \in ToSet(blocks[b].rows)
    BY DEF RowsOf
  <1>3. PreparedError(row, prepared) = "ok" => raw = RawOf("Refined", row)
    BY DEF RawOf, Decode, PreparedError
  <1>4. new = [capability |-> cert, block |-> b, row |-> row.row, kind |-> "Refined",
               raw |-> raw, provenance |-> query.model]
    BY DEF Certified
  <1>5. /\ new.capability = cert /\ new.block = b /\ new.row = row.row /\ new.kind = "Refined"
        /\ new.raw = raw /\ new.provenance = query.model
    <2> HIDE DEF new, raw
    <2>1. QED
      BY <1>4
  <1> HIDE DEF new, raw
  <1>6. ScoreKept'
    <2>1. CASE outcome' = "ok"
      <3>1. CandidateError(cert, b) = "ok" /\ PreparedError(row, prepared) = "ok"
        BY <1>1, <2>1
      <3>2. cert = b /\ query.model = certificates[cert].model
        BY <3>1 DEF CandidateError, SameCapability
      <3>3. certified' = new
        BY <1>1, <2>1
      <3>4. new.raw = RawOf("Refined", row)' /\ row \in ToSet(blocks'[b].rows)
        BY <1>1, <1>2, <1>3, <1>5, <3>1 DEF RawOf
      <3>5. QED
        BY <1>1, <1>2, <1>5, <3>2, <3>3, <3>4 DEF ScoreKept
    <2>2. CASE outcome' # "ok"
      BY <1>1, <2>2 DEF CertificateInv, ScoreKept, RawOf
    <2>3. QED
      BY <2>1, <2>2
  <1>7. outcome' \in {"BlockCapabilityMismatch", "ScoreProvenanceMismatch",
                      "PreparedCandidateRowMismatch", "PreparedCandidateResidualMismatch",
                      "PreparedCandidateRejected", "ok"}
    <2>1. CandidateError(cert, b) \in {"BlockCapabilityMismatch", "ScoreProvenanceMismatch", "ok"}
      BY DEF CandidateError
    <2>2. PreparedError(row, prepared) \in {"PreparedCandidateRowMismatch", "ok",
              "PreparedCandidateResidualMismatch", "PreparedCandidateRejected"}
      BY DEF PreparedError
    <2>3. QED
      BY <1>1, <2>1, <2>2
  <1>8. BlocksKept' /\ CertificatesKept' /\ QueryKept' /\ IntervalKept' /\ OutcomeKept'
    BY <1>1, <1>7
       DEF CertificateInv, BlocksKept, CertificatesKept, QueryKept, IntervalKept, OutcomeKept
  <1>9. QED
    BY <1>6, <1>8 DEF CertificateInv

\* A score gets bounds from the certificate of its own block and kind only.
LEMMA GiveBoundsKeeps ==
    ASSUME CertificateInv, NEW cert \in Blocks, NEW kind \in {"Primary", "Refined"},
           GiveBounds(cert, kind)
    PROVE  CertificateInv'
  <1> DEFINE bounds == Bounds(TermsOf(cert, kind), certified.raw)
             new == [block |-> certified.block, row |-> certified.row, bounds |-> bounds]
  <1>1. /\ certificates[cert] # None /\ certified # None
        /\ outcome' = ScoreError(cert, kind)
        /\ interval' = IF outcome' = "ok" THEN new ELSE interval
        /\ blocks' = blocks /\ certificates' = certificates /\ query' = query /\ certified' = certified
    BY DEF GiveBounds
  <1>2. new.block = certified.block /\ new.row = certified.row /\ new.bounds = bounds
    OBVIOUS
  <1> HIDE DEF new
  <1>3. IntervalKept'
    <2>1. CASE outcome' = "ok"
      <3>1. /\ certified.capability = cert /\ certified.provenance = certificates[cert].model
            /\ certified.kind = kind
        BY <1>1, <2>1 DEF ScoreError, SameCapability
      <3>2. /\ query # None /\ certified.block = cert /\ blocks[cert] # None
            /\ query.model = certificates[cert].model
            /\ \E row \in ToSet(blocks[cert].rows) :
                   certified.row = row.row /\ certified.raw = RawOf(kind, row)
        BY <1>1, <3>1 DEF CertificateInv, ScoreKept
      <3>3. PICK row \in ToSet(blocks[cert].rows) :
               certified.row = row.row /\ certified.raw = RawOf(kind, row)
        BY <3>2
      <3>4. /\ Holds(Bounds(TermsOf(cert, kind), RawOf(kind, row)), Truth(query, row))
            /\ \A other \in ToSet(blocks[cert].rows) : other.row = row.row => other = row
        BY <1>1, <3>2, RowHolds
      <3>5. Holds(bounds, Truth(query, row))
        BY <3>3, <3>4
      <3> HIDE DEF bounds
      <3>6. interval' = new
        BY <1>1, <2>1
      <3>7. QED
        BY <1>1, <1>2, <3>2, <3>3, <3>4, <3>5, <3>6 DEF IntervalKept
    <2>2. CASE outcome' # "ok"
      BY <1>1, <2>2 DEF CertificateInv, IntervalKept
    <2>3. QED
      BY <2>1, <2>2
  <1> HIDE DEF bounds
  <1>4. outcome' \in {"BlockCapabilityMismatch", "ScoreProvenanceMismatch", "ScoreKindMismatch", "ok"}
    BY <1>1 DEF ScoreError
  <1>5. BlocksKept' /\ CertificatesKept' /\ QueryKept' /\ OutcomeKept'
    BY <1>1, <1>4 DEF CertificateInv, BlocksKept, CertificatesKept, QueryKept, OutcomeKept
  <1>6. ScoreKept'
    BY <1>1 DEF CertificateInv, ScoreKept, RawOf
  <1>7. QED
    BY <1>3, <1>5, <1>6 DEF CertificateInv

\* The two intervals of a hit meet, in the true score.
LEMMA ServeIntervalKeeps ==
    ASSUME CertificateInv, NEW b \in Blocks, NEW row \in RowsOf(b), ServeInterval(b, row)
    PROVE  CertificateInv'
  <1> DEFINE decoded == Decode(query.model, row)
             primary == Bounds(TermsOf(b, "Primary"), PrimaryRaw(query.transformed, decoded.primary))
             refined == Bounds(TermsOf(b, "Refined"),
                               RefinedRaw(query.transformed, decoded.primary, decoded.residual))
             lower == Max({primary.lower, refined.lower})
             upper == Min({primary.upper, refined.upper})
             bindable == ValidTerms(TermsOf(b, "Primary")) /\ ValidTerms(TermsOf(b, "Refined"))
             both == [lower |-> lower, upper |-> upper]
             new == [block |-> b, row |-> row.row, bounds |-> both]
  <1>1. /\ certificates[b] # None /\ query # None /\ query.model = certificates[b].model
        /\ outcome' = IF ~bindable THEN "InvalidTerms"
                      ELSE IF lower > upper THEN "EmptyIntersection" ELSE "ok"
        /\ interval' = IF outcome' = "ok" THEN new ELSE interval
        /\ blocks' = blocks /\ certificates' = certificates /\ query' = query /\ certified' = certified
    BY DEF ServeInterval
  <1>2. row \in ToSet(blocks[b].rows)
    BY DEF RowsOf
  <1>3. /\ PrimaryRaw(query.transformed, decoded.primary) = RawOf("Primary", row)
        /\ RefinedRaw(query.transformed, decoded.primary, decoded.residual) = RawOf("Refined", row)
    BY DEF RawOf, Decode
  <1>4. /\ blocks[b] # None /\ bindable
        /\ Holds(primary, Truth(query, row)) /\ Holds(refined, Truth(query, row))
        /\ \A other \in ToSet(blocks[b].rows) : other.row = row.row => other = row
    BY <1>1, <1>2, <1>3, RowHolds
  <1>5. both.lower = lower /\ both.upper = upper
        /\ new.block = b /\ new.row = row.row /\ new.bounds = both
    <2> HIDE DEF lower, upper
    <2>1. both.lower = lower /\ both.upper = upper
      OBVIOUS
    <2> HIDE DEF both
    <2>2. new.block = b /\ new.row = row.row /\ new.bounds = both
      OBVIOUS
    <2>3. QED
      BY <2>1, <2>2
  <1> HIDE DEF primary, refined, decoded, bindable, both, new
  <1>6. Holds(both, Truth(query, row)) /\ ~ (both.lower > both.upper)
    BY <1>4, <1>5, HoldsBoth
  <1>7. ~ (lower > upper)
    BY <1>5, <1>6
  <1> HIDE DEF lower, upper
  <1>8. outcome' = "ok"
    BY <1>1, <1>4, <1>7
  <1>9. interval' = new
    BY <1>1, <1>8
  <1>10. IntervalKept'
    BY <1>1, <1>2, <1>4, <1>5, <1>6, <1>9 DEF IntervalKept
  <1>11. BlocksKept' /\ CertificatesKept' /\ QueryKept' /\ OutcomeKept'
    BY <1>1, <1>8 DEF CertificateInv, BlocksKept, CertificatesKept, QueryKept, OutcomeKept
  <1>12. ScoreKept'
    BY <1>1 DEF CertificateInv, ScoreKept, RawOf
  <1>13. QED
    BY <1>10, <1>11, <1>12 DEF CertificateInv

\* Every step keeps the invariant.
LEMMA CertificateNextKeeps ==
    ASSUME CertificateInv, CertificateNext
    PROVE  CertificateInv'
  <1>1. ASSUME NEW b \in Blocks, NEW label \in Labels, NEW declared \in 0..2, NEW list \in RowLists,
               Enumerate(b, label, declared, list)
        PROVE  CertificateInv'
    BY <1>1, EnumerateKeeps
  <1>2. ASSUME NEW b \in Blocks, NEW model \in Models, Build(b, model)
        PROVE  CertificateInv'
    BY <1>2, BuildKeeps
  <1>3. ASSUME NEW q \in Queries, NEW model \in Models, PrepareQuery(q, model)
        PROVE  CertificateInv'
    BY <1>3, PrepareQueryKeeps
  <1>4. ASSUME NEW cert \in Blocks, NEW b \in Blocks, NEW row \in RowsOf(b),
               ScorePrimary(cert, b, row)
        PROVE  CertificateInv'
    BY <1>4, ScorePrimaryKeeps
  <1>5. ASSUME NEW cert \in Blocks, NEW b \in Blocks, NEW row \in RowsOf(b),
               NEW other \in Blocks, NEW model \in Models, NEW r \in RowsOf(other),
               ScoreRefined(cert, b, row, Prepared(r, model))
        PROVE  CertificateInv'
    BY <1>5, ScoreRefinedKeeps
  <1>6. ASSUME NEW cert \in Blocks, NEW kind \in {"Primary", "Refined"}, GiveBounds(cert, kind)
        PROVE  CertificateInv'
    BY <1>6, GiveBoundsKeeps
  <1>7. ASSUME NEW b \in Blocks, NEW row \in RowsOf(b), ServeInterval(b, row)
        PROVE  CertificateInv'
    BY <1>7, ServeIntervalKeeps
  <1>8. QED
    BY Zenon, <1>1, <1>2, <1>3, <1>4, <1>5, <1>6, <1>7 DEF CertificateNext

\* A step of others keeps it too.
LEMMA CertificateStutters ==
    ASSUME CertificateInv, UNCHANGED certificateVars
    PROVE  CertificateInv'
  <1>1. /\ blocks' = blocks /\ certificates' = certificates /\ query' = query
        /\ certified' = certified /\ interval' = interval /\ outcome' = outcome
    BY DEF certificateVars
  <1>2. QED
    BY <1>1 DEF CertificateInv, BlocksKept, CertificatesKept, QueryKept, ScoreKept, IntervalKept,
                OutcomeKept, RawOf

\* The invariant implies the property.
LEMMA KeptHoldsTruth ==
    ASSUME CertificateInv
    PROVE  IntervalsHoldTruth
  <1>1. IntervalKept /\ OutcomeKept
    BY DEF CertificateInv
  <1>2. ASSUME interval # None, NEW row \in RowsOf(interval.block), row.row = interval.row
        PROVE  interval.bounds.lower <= Truth(query, row) /\ Truth(query, row) <= interval.bounds.upper
    <2>1. row \in ToSet(blocks[interval.block].rows)
      BY <1>1, <1>2 DEF IntervalKept, RowsOf
    <2>2. Holds(interval.bounds, Truth(query, row))
      BY <1>1, <1>2, <2>1 DEF IntervalKept
    <2>3. QED
      BY <2>2 DEF Holds
  <1>3. QED
    BY <1>1, <1>2 DEF IntervalsHoldTruth, OutcomeKept

\* IntervalsHoldTruth for every dimension, precision, scale of the scores, error of
\* the transform and limit of the tables, every family of models and every list of
\* rows: whatever blocks, certificates, prepared queries, residuals and scores are
\* mixed, an interval holds the true score of the row of its number, and the two
\* intervals of a served hit meet (certificate.rs, certified.rs).
THEOREM CertificatesHoldTruth == CertificateSpec => []IntervalsHoldTruth
  <1>1. CertificateInit => CertificateInv
    BY InitKeeps
  <1>2. CertificateInv /\ [CertificateNext]_certificateVars => CertificateInv'
    BY CertificateNextKeeps, CertificateStutters
  <1>3. CertificateInv => IntervalsHoldTruth
    BY KeptHoldsTruth
  <1>4. QED
    BY <1>1, <1>2, <1>3, PTL DEF CertificateSpec
-------------------------------------------------------------------------------
(* Half-precision lengths: they grow with their bits, and a length lies        *)
(* between the middles around the half it is rounded to.                       *)
LEMMA DivisionIs ==
    ASSUME NEW b \in Nat, NEW f \in Nat, f >= 1
    PROVE  /\ b \div f \in Nat /\ b % f \in 0..(f - 1)
           /\ b = f * (b \div f) + (b % f)
  <1> DEFINE m == b % f
             x == f * (b \div f)
  <1>1. b \div f \in Nat
    BY SMT
  <1>2. m \in Nat
    BY SMT
  <1>3. m < f
    BY SMT
  <1>4. m = b - x
    BY SMT
  <1>5. x \in Nat
    BY <1>1, SMT
  <1> HIDE DEF m, x
  <1>6. m \in 0..(f - 1) /\ b = x + m
    BY <1>2, <1>3, <1>4, <1>5, SMT
  <1>7. QED
    BY <1>1, <1>6 DEF m, x

\* And they are the only such numbers.
LEMMA DivisionOf ==
    ASSUME NEW e \in Nat, NEW r \in Nat, NEW f \in Nat, f >= 1, r < f
    PROVE  (f * e + r) \div f = e /\ (f * e + r) % f = r
  <1> DEFINE b == f * e + r
             d == b \div f
             m == b % f
  <1>1. b \in Nat
    BY SMT
  <1>2. d \in Nat /\ m \in 0..(f - 1) /\ b = f * d + m
    <2> HIDE DEF b
    <2>1. QED
      BY <1>1, DivisionIs
  <1>3. f * e + r = f * d + m
    BY <1>2
  <1> HIDE DEF b, d, m
  <1>4. d = e
    <2>1. SUFFICES ASSUME d # e PROVE FALSE
      OBVIOUS
    <2>2. CASE d >= e + 1
      <3>1. f * (e + 1) <= f * d /\ f * (e + 1) = f * e + f /\ f * e \in Int /\ f * d \in Int
        BY <1>2, <2>2, ProductGrows, SMT
      <3> DEFINE x == f * e
                 y == f * d
      <3>2. x \in Int /\ y \in Int /\ x + f <= y /\ x + r = y + m
        BY <1>3, <3>1
      <3> HIDE DEF x, y
      <3>3. QED
        BY <1>2, <3>2, SMT
    <2>3. CASE d + 1 <= e
      <3>1. f * (d + 1) <= f * e /\ f * (d + 1) = f * d + f /\ f * e \in Int /\ f * d \in Int
        BY <1>2, <2>3, ProductGrows, SMT
      <3> DEFINE x == f * e
                 y == f * d
      <3>2. x \in Int /\ y \in Int /\ y + f <= x /\ x + r = y + m
        BY <1>3, <3>1
      <3> HIDE DEF x, y
      <3>3. QED
        BY <1>2, <3>2, SMT
    <2>4. QED
      BY <1>2, <2>1, <2>2, <2>3, SMT
  <1>5. m = r
    <2> DEFINE x == f * e
    <2>1. x \in Int /\ x + r = x + m
      BY <1>3, <1>4, SMT
    <2> HIDE DEF x
    <2>2. QED
      BY <1>2, <2>1, SMT
  <1>6. QED
    BY <1>4, <1>5 DEF b, d, m

\* From one half to the next the magnitude grows, from the last subnormal and from one
\* exponent to the next as well.
LEMMA MagnitudeGrows ==
    ASSUME NEW b \in Nat
    PROVE  /\ MagnitudeUnits(b) \in Nat /\ MagnitudeUnits(b + 1) \in Nat
           /\ MagnitudeUnits(b) < MagnitudeUnits(b + 1)
  <1> DEFINE f == Fractions
             e == b \div f
             r == b % f
             p == PowerOf2[e - 1]
  <1>1. f \in Nat /\ f >= 1
    BY Powers, DotProductAssumption DEF Fractions
  <1>2. e \in Nat /\ r \in 0..(f - 1) /\ b = f * e + r
    <2> HIDE DEF f
    <2>1. QED
      BY <1>1, DivisionIs
  <1>3. MagnitudeUnits(b) = IF e = 0 THEN r ELSE (f + r) * p
    BY DEF MagnitudeUnits
  <1> DEFINE e1 == (b + 1) \div f
             r1 == (b + 1) % f
  <1>4. MagnitudeUnits(b + 1) = IF e1 = 0 THEN r1 ELSE (f + r1) * PowerOf2[e1 - 1]
    BY DEF MagnitudeUnits
  <1> HIDE DEF f
  <1>5. r + 1 < f => e1 = e /\ r1 = r + 1
    <2> HIDE DEF e, r, e1, r1
    <2>1. SUFFICES ASSUME r + 1 < f PROVE e1 = e /\ r1 = r + 1
      OBVIOUS
    <2>2. r + 1 \in Nat
      BY <1>1, <1>2, SMT
    <2>3. (f * e + (r + 1)) \div f = e /\ (f * e + (r + 1)) % f = r + 1
      BY <1>1, <1>2, <2>1, <2>2, DivisionOf
    <2>4. f * e + (r + 1) = b + 1
      <3>1. f * e \in Nat
        BY <1>1, <1>2, SMT
      <3> DEFINE x == f * e
      <3>2. x \in Nat /\ b = x + r
        BY <1>2, <3>1
      <3> HIDE DEF x
      <3>3. x + (r + 1) = b + 1
        BY <1>1, <1>2, <3>2, SMT
      <3>4. QED
        BY <3>3 DEF x
    <2>5. QED
      BY <2>3, <2>4 DEF e1, r1
  <1>6. r + 1 = f => e1 = e + 1 /\ r1 = 0
    <2> HIDE DEF e, r, e1, r1
    <2>1. SUFFICES ASSUME r + 1 = f PROVE e1 = e + 1 /\ r1 = 0
      OBVIOUS
    <2>2. e + 1 \in Nat /\ 0 \in Nat /\ 0 < f
      BY <1>1, <1>2, SMT
    <2>3. (f * (e + 1) + 0) \div f = e + 1 /\ (f * (e + 1) + 0) % f = 0
      BY <1>1, <2>2, DivisionOf
    <2>4. f * (e + 1) + 0 = b + 1
      <3>1. f * e \in Nat /\ f * (e + 1) = f * e + f
        BY <1>1, <1>2, SMT
      <3> DEFINE x == f * e
      <3>2. x \in Nat /\ b = x + r /\ f * (e + 1) = x + f
        BY <1>2, <3>1
      <3> HIDE DEF x
      <3>3. QED
        BY <1>1, <1>2, <2>1, <3>2, SMT
    <2>5. QED
      BY <2>3, <2>4 DEF e1, r1
  <1>7. e # 0 => p \in Nat /\ p >= 1 /\ PowerOf2[(e + 1) - 1] = 2 * p
    <2> HIDE DEF e
    <2>1. SUFFICES ASSUME e # 0 PROVE p \in Nat /\ p >= 1 /\ PowerOf2[(e + 1) - 1] = 2 * p
      OBVIOUS
    <2>2. e - 1 \in Nat /\ (e + 1) - 1 = (e - 1) + 1
      BY <1>2, <2>1, SMT
    <2>3. QED
      BY <2>2, Powers
  <1>8. PowerOf2[(0 + 1) - 1] = 1
    <2>1. (0 + 1) - 1 = 0
      BY SMT
    <2>2. QED
      BY <2>1, Powers
  <1> HIDE DEF e, r, p, e1, r1
  <1>9. r \in Nat /\ (r + 1 < f \/ r + 1 = f)
    BY <1>1, <1>2, SMT
  <1>10. CASE e = 0
    <2>1. MagnitudeUnits(b) = r
      BY <1>3, <1>10
    <2>2. CASE r + 1 < f
      <3>1. MagnitudeUnits(b + 1) = r + 1
        BY <1>4, <1>5, <1>10, <2>2
      <3>2. QED
        BY <1>9, <2>1, <3>1, SMT
    <2>3. CASE r + 1 = f
      <3>1. e1 = 0 + 1 /\ r1 = 0
        BY <1>6, <1>10, <2>3
      <3>2. e1 # 0
        BY <3>1, SMT
      <3>3. MagnitudeUnits(b + 1) = (f + 0) * 1
        BY <1>4, <1>8, <3>1, <3>2
      <3>4. QED
        BY <1>1, <1>9, <2>1, <2>3, <3>3, SMT
    <2>4. QED
      BY <1>9, <2>2, <2>3
  <1>11. CASE e # 0
    <2>1. MagnitudeUnits(b) = (f + r) * p /\ p \in Nat /\ p >= 1
      BY <1>3, <1>7, <1>11
    <2>2. CASE r + 1 < f
      <3>1. MagnitudeUnits(b + 1) = (f + (r + 1)) * p
        BY <1>4, <1>5, <1>11, <2>2 DEF p
      <3>2. (f + (r + 1)) * p = (f + r) * p + p /\ (f + r) * p \in Nat
        BY <1>1, <1>9, <2>1, SMT
      <3> DEFINE x == (f + r) * p
      <3>3. MagnitudeUnits(b) = x /\ MagnitudeUnits(b + 1) = x + p /\ x \in Nat
        BY <2>1, <3>1, <3>2
      <3> HIDE DEF x
      <3>4. QED
        BY <2>1, <3>3, SMT
    <2>3. CASE r + 1 = f
      <3>1. e1 = e + 1 /\ r1 = 0
        BY <1>6, <2>3
      <3>2. e1 # 0
        BY <1>2, <3>1, SMT
      <3>3. MagnitudeUnits(b + 1) = (f + 0) * (2 * p)
        BY <1>4, <1>7, <1>11, <3>1, <3>2
      <3>4. (f + 0) * (2 * p) = (f + r) * p + p /\ (f + r) * p \in Nat
        BY <1>1, <1>9, <2>1, <2>3, SMT
      <3> DEFINE x == (f + r) * p
      <3>5. MagnitudeUnits(b) = x /\ MagnitudeUnits(b + 1) = x + p /\ x \in Nat
        BY <2>1, <3>3, <3>4
      <3> HIDE DEF x
      <3>6. QED
        BY <2>1, <3>5, SMT
    <2>4. QED
      BY <1>9, <2>2, <2>3
  <1>12. QED
    BY <1>10, <1>11

\* So does the length, and two neighbours have a middle.
LEMMA HalfLengthGrows ==
    ASSUME NEW b \in Nat
    PROVE  /\ HalfLength(b) \in Nat /\ HalfLength(b + 1) \in Nat
           /\ HalfLength(b) < HalfLength(b + 1)
           /\ (HalfLength(b) + HalfLength(b + 1)) % 2 = 0
  <1> DEFINE u == HalfUnit
             m == MagnitudeUnits(b)
             n == MagnitudeUnits(b + 1)
             x == u * m
             y == u * n
             h == u \div 2
  <1>1. u \in Nat /\ u >= 1 /\ h \in Nat /\ u = 2 * h
    BY DotProductAssumption, SMT
  <1>2. m \in Nat /\ n \in Nat /\ m < n
    BY MagnitudeGrows
  <1>3. HalfLength(b) = x /\ HalfLength(b + 1) = y
    BY DEF HalfLength
  <1> HIDE DEF u, m, n, h
  <1>4. x \in Nat /\ y \in Nat
    BY <1>1, <1>2, SMT
  <1>5. x < y
    <2>1. m + 1 <= n /\ m + 1 \in Nat
      BY <1>2, SMT
    <2>2. u * (m + 1) <= u * n
      BY <1>1, <1>2, <2>1, ProductGrows, SMT
    <2>3. u * (m + 1) = x + u
      BY <1>1, <1>2, SMT
    <2> HIDE DEF x
    <2>4. x + u <= y
      BY <2>2, <2>3
    <2> HIDE DEF y
    <2>5. QED
      BY <1>1, <1>4, <2>4, SMT
  <1>6. x + y = 2 * (h * (m + n)) /\ h * (m + n) \in Int
    BY <1>1, <1>2, SMT
  <1>7. (x + y) % 2 = 0
    <2> DEFINE i == h * (m + n)
    <2>1. x + y = 2 * i /\ i \in Int
      BY <1>6
    <2> HIDE DEF x, y, i
    <2>2. QED
      BY <1>4, <2>1, SMT
  <1>8. QED
    BY <1>3, <1>4, <1>5, <1>7

\* Lengths are ordered as their bits.
LEMMA HalfLengthOrders ==
    ASSUME NEW a \in Nat, NEW b \in Nat, a < b
    PROVE  HalfLength(a) < HalfLength(b)
  <1> DEFINE Wrong == {n \in Nat : a < n /\ ~ (HalfLength(a) < HalfLength(n))}
  <1>1. SUFFICES ASSUME Wrong # {} PROVE FALSE
    OBVIOUS
  <1>2. PICK m \in Wrong : \A y \in Wrong : ~ (y < m)
    BY <1>1, FirstNatural
  <1>3. m \in Nat /\ a < m /\ ~ (HalfLength(a) < HalfLength(m))
    BY <1>2
  <1>4. m - 1 \in Nat /\ m - 1 < m /\ (m - 1) + 1 = m /\ (m - 1 = a \/ a < m - 1)
    BY <1>3, SMT
  <1> DEFINE i == m - 1
  <1>5. HalfLength(i) \in Nat /\ HalfLength(m) \in Nat /\ HalfLength(i) < HalfLength(m)
    BY <1>4, HalfLengthGrows
  <1>6. HalfLength(a) \in Nat
    BY HalfLengthGrows
  <1>7. CASE i = a
    BY <1>3, <1>5, <1>7
  <1>8. CASE a < i
    <2>1. HalfLength(a) < HalfLength(i)
      BY <1>2, <1>4, <1>8
    <2>2. HalfLength(a) < HalfLength(m)
      BY <1>5, <1>6, <2>1, SMT
    <2>3. QED
      BY <1>3, <2>2
  <1>9. QED
    BY <1>4, <1>7, <1>8
\* Two halves that are equally near to a length are neighbours.
LEMMA NearestAreNeighbours ==
    ASSUME NEW length \in Nat, NEW a \in Nat, NEW b \in Nat, a < b,
           AbsInt(HalfLength(a) - length) = AbsInt(HalfLength(b) - length),
           \A c \in a..b : AbsInt(HalfLength(a) - length) <= AbsInt(HalfLength(c) - length)
    PROVE  b = a + 1
  <1>1. SUFFICES ASSUME b # a + 1 PROVE FALSE
    OBVIOUS
  <1> DEFINE c == a + 1
             x == HalfLength(a)
             y == HalfLength(b)
             z == HalfLength(c)
  <1>2. c \in Nat /\ c \in a..b /\ a < c /\ c < b
    BY <1>1, SMT
  <1>3. x \in Nat /\ y \in Nat /\ z \in Nat /\ x < z /\ z < y
    <2> HIDE DEF c
    <2>1. QED
      BY <1>2, HalfLengthGrows, HalfLengthOrders
  <1>4. AbsInt(x - length) = AbsInt(y - length) /\ AbsInt(x - length) <= AbsInt(z - length)
    BY <1>2
  <1> HIDE DEF x, y, z
  <1>5. QED
    BY <1>3, <1>4, SMT DEF AbsInt

\* The stored bits are those of a nearest half.
LEMMA RadiusIsNearest ==
    ASSUME NEW length \in Nat
    PROVE  /\ RadiusBits(length) \in 0..LargestHalf
           /\ \A other \in 0..LargestHalf : AbsInt(HalfLength(RadiusBits(length)) - length)
                                                <= AbsInt(HalfLength(other) - length)
  <1> DEFINE Bits == 0..LargestHalf
             apart(b) == AbsInt(HalfLength(b) - length)
             Chosen(b) == \A other \in Bits \ {b} :
                 apart(b) < apart(other) \/ (apart(b) = apart(other) /\ b % 2 = 0)
             Apart == {apart(b) : b \in Bits}
  <1>1. \A b \in Bits : b \in Nat /\ apart(b) \in Nat
    <2>1. \A b \in Bits : b \in Nat
      BY DotProductAssumption, SMT
    <2>2. ASSUME NEW b \in Bits PROVE apart(b) \in Nat
      <3>1. HalfLength(b) \in Nat
        BY <2>1, HalfLengthGrows
      <3>2. HalfLength(b) - length \in Int
        BY <3>1, SMT
      <3>3. QED
        BY <3>2, AbsType
    <2>3. QED
      BY <2>1, <2>2
  <1>2. 0 \in Bits
    BY DotProductAssumption, SMT
  <1>3. Apart \subseteq Nat /\ Apart # {}
    BY <1>1, <1>2
  <1>4. PICK least \in Apart : \A x \in Apart : ~ (x < least)
    BY <1>3, FirstNatural
  <1>5. PICK b \in Bits : least = apart(b)
    BY <1>4
  <1>6. \A other \in Bits : apart(b) <= apart(other)
    <2>1. \A other \in Bits : ~ (apart(other) < apart(b)) /\ apart(other) \in Nat /\ apart(b) \in Nat
      BY <1>1, <1>4, <1>5
    <2> HIDE DEF apart
    <2>2. QED
      BY <2>1, SMT
  <1>7. \E c \in Bits : Chosen(c)
    <2>1. CASE b % 2 = 0
      <3>1. \A other \in Bits : apart(b) < apart(other) \/ apart(b) = apart(other)
        <4> HIDE DEF apart
        <4>1. QED
          BY <1>1, <1>6, SMT
      <3>2. Chosen(b)
        BY <2>1, <3>1
      <3>3. QED
        BY <3>2
    <2>2. CASE b % 2 # 0
      <3>1. CASE \A other \in Bits \ {b} : apart(b) # apart(other)
        <4>1. \A other \in Bits \ {b} : apart(b) < apart(other)
          <5> HIDE DEF apart
          <5>1. QED
            BY <1>1, <1>6, <3>1, SMT
        <4>2. QED
          BY <4>1
      <3>2. CASE \E other \in Bits \ {b} : apart(b) = apart(other)
        <4>1. PICK d \in Bits \ {b} : apart(b) = apart(d)
          BY <3>2
        <4>2. d \in Nat /\ b \in Nat /\ (b < d \/ d < b)
          BY <1>1, <4>1, SMT
        <4>3. \A c \in b..d : c \in Bits
          BY DotProductAssumption, <4>2, SMT
        <4>4. \A c \in d..b : c \in Bits
          BY DotProductAssumption, <4>2, SMT
        <4>5. d = b + 1 \/ b = d + 1
          <5>1. CASE b < d
            BY <1>6, <4>1, <4>2, <4>3, <5>1, NearestAreNeighbours
          <5>2. CASE d < b
            BY <1>6, <4>1, <4>2, <4>4, <5>2, NearestAreNeighbours
          <5>3. QED
            BY <4>2, <5>1, <5>2
        <4>6. d % 2 = 0
          BY <2>2, <4>2, <4>5, SMT
        <4>7. \A other \in Bits : apart(d) < apart(other) \/ apart(d) = apart(other)
          <5>1. \A other \in Bits : apart(d) <= apart(other)
            BY <1>6, <4>1
          <5> HIDE DEF apart
          <5>2. QED
            BY <1>1, <4>1, <5>1, SMT
        <4>8. Chosen(d)
          BY <4>6, <4>7
        <4>9. QED
          BY <4>8
      <3>3. QED
        BY <3>1, <3>2
    <2>3. QED
      BY <2>1, <2>2
  <1>8. RadiusBits(length) = CHOOSE c \in Bits : Chosen(c)
    BY DEF RadiusBits
  <1> DEFINE r == RadiusBits(length)
  <1>9. r \in Bits /\ Chosen(r)
    <2> HIDE DEF Chosen, Bits
    <2>1. QED
      BY <1>7, <1>8
  <1> HIDE DEF r
  <1>10. ASSUME NEW other \in Bits PROVE apart(r) <= apart(other)
    <2>1. CASE other = r
      <3>1. apart(r) <= apart(r)
        <4>1. apart(r) \in Nat
          BY <1>1, <1>9
        <4> HIDE DEF apart
        <4>2. QED
          BY <4>1, SMT
      <3>2. QED
        BY <2>1, <3>1
    <2>2. CASE other # r
      <3>1. apart(r) < apart(other) \/ apart(r) = apart(other)
        BY <1>9, <2>2
      <3>2. apart(r) \in Nat /\ apart(other) \in Nat
        BY <1>1, <1>9
      <3> HIDE DEF apart
      <3>3. QED
        BY <3>1, <3>2, SMT
    <2>3. QED
      BY <2>1, <2>2
  <1>11. QED
    BY <1>9, <1>10 DEF r

\* A lower bound may be clipped at zero.
LEMMA ClippedBelow ==
    ASSUME NEW a \in Int, NEW x \in Nat, a <= x
    PROVE  Max({0, a}) \in Nat /\ Max({0, a}) <= x
  <1>1. Max({0, a}) \in {0, a} /\ 0 <= Max({0, a})
    BY MaxOfTwo
  <1> DEFINE m == Max({0, a})
  <1>2. (m = 0 \/ m = a) /\ 0 <= m
    BY <1>1
  <1> HIDE DEF m
  <1>3. m \in Nat /\ m <= x
    BY <1>2, SMT
  <1>4. QED
    BY <1>3 DEF m

\* The interval of the stored bits holds the length they were rounded from.
LEMMA StoredLengthHolds ==
    ASSUME NEW length \in Nat, VectorError(length) = "ok"
    PROVE  Holds(StoredLengthInterval(RadiusBits(length)), length)
  <1> DEFINE bits == RadiusBits(length)
             value == HalfLength(bits)
             previous == IF bits = 0 THEN 0 ELSE HalfLength(bits - 1)
             next == HalfLength(bits + 1)
             low == (previous + value) \div 2
             high == (value + next) \div 2
             interval0 == StoredLengthInterval(bits)
  <1>1. length <= HalfLength(LargestHalf)
    <2>1. ~ (length > HalfLength(LargestHalf))
      BY DEF VectorError
    <2>2. HalfLength(LargestHalf) \in Nat
      BY DotProductAssumption, HalfLengthGrows
    <2>3. QED
      BY <2>1, <2>2, SMT
  <1>2. /\ interval0.lower = Max({0, NextDown(Round(low))})
        /\ interval0.upper = NextUp(Round(high))
    BY DEF StoredLengthInterval
  <1>3. /\ bits \in 0..LargestHalf
        /\ \A other \in 0..LargestHalf : AbsInt(value - length) <= AbsInt(HalfLength(other) - length)
    BY RadiusIsNearest
  <1> HIDE DEF bits, interval0
  <1>4. bits \in Nat /\ LargestHalf \in Nat
    BY <1>3, DotProductAssumption, SMT
  <1>5. /\ value \in Nat /\ next \in Nat /\ value < next /\ (value + next) % 2 = 0
    BY <1>4, HalfLengthGrows
  <1>6. high \in Nat /\ length <= high
    <2>1. CASE bits = LargestHalf
      <3>1. length <= value
        BY <1>1, <2>1
      <3> HIDE DEF value, next
      <3>2. QED
        BY <1>5, <3>1, SMT
    <2>2. CASE bits # LargestHalf
      <3>1. bits + 1 \in 0..LargestHalf
        BY <1>3, <1>4, <2>2, SMT
      <3>2. AbsInt(value - length) <= AbsInt(next - length)
        BY <1>3, <3>1
      <3> HIDE DEF value, next
      <3>3. 2 * length <= value + next
        BY <1>5, <3>2, SMT DEF AbsInt
      <3>4. QED
        BY <1>5, <3>3, SMT
    <2>3. QED
      BY <2>1, <2>2
  <1>7. low \in Nat /\ low <= length
    <2>1. CASE bits = 0
      <3>1. value = 0
        <4>1. 0 \div Fractions = 0 /\ 0 % Fractions = 0
          <5>1. Fractions \in Nat /\ Fractions >= 1
            BY Powers, DotProductAssumption DEF Fractions
          <5>2. Fractions * 0 + 0 = 0 /\ 0 \in Nat /\ 0 < Fractions
            BY <5>1, SMT
          <5>3. (Fractions * 0 + 0) \div Fractions = 0 /\ (Fractions * 0 + 0) % Fractions = 0
            BY <5>1, <5>2, DivisionOf
          <5>4. QED
            BY <5>2, <5>3
        <4>2. MagnitudeUnits(0) = 0
          BY <4>1 DEF MagnitudeUnits
        <4>3. HalfLength(0) = HalfUnit * 0
          BY <4>2 DEF HalfLength
        <4>4. HalfLength(0) = 0
          BY <4>3, DotProductAssumption, SMT
        <4>5. QED
          BY <2>1, <4>4
      <3>2. previous = 0
        BY <2>1
      <3> HIDE DEF value, previous
      <3>3. QED
        BY <3>1, <3>2, SMT
    <2>2. CASE bits # 0
      <3>1. bits - 1 \in Nat /\ (bits - 1) + 1 = bits /\ bits - 1 \in 0..LargestHalf
        BY <1>3, <1>4, <2>2, SMT
      <3>2. previous = HalfLength(bits - 1)
        BY <2>2
      <3> DEFINE before == bits - 1
      <3>3. previous = HalfLength(before) /\ before \in Nat /\ before + 1 = bits
        BY <3>1, <3>2
      <3> HIDE DEF before
      <3>4. previous \in Nat /\ previous < value /\ (previous + value) % 2 = 0
        BY <3>3, HalfLengthGrows
      <3>5. AbsInt(value - length) <= AbsInt(previous - length)
        BY <1>3, <3>1, <3>2
      <3> HIDE DEF value, previous
      <3>6. previous + value <= 2 * length
        BY <1>5, <3>4, <3>5, SMT DEF AbsInt
      <3>7. QED
        BY <1>5, <3>4, <3>6, SMT
    <2>3. QED
      BY <2>1, <2>2
  <1> HIDE DEF low, high
  <1>8. NextUp(Round(high)) \in Int /\ length <= NextUp(Round(high))
    <2>1. NextUp(Round(high)) \in Int /\ NextUp(Round(high)) > high
      BY <1>6, NextUpAbove, SMT
    <2> DEFINE up == NextUp(Round(high))
    <2>2. up \in Int /\ up > high
      BY <2>1
    <2> HIDE DEF up
    <2>3. length <= up
      BY <1>6, <2>2, SMT
    <2>4. QED
      BY <2>1, <2>3 DEF up
  <1>9. NextDown(Round(low)) \in Int /\ NextDown(Round(low)) <= length
    <2>1. NextDown(Round(low)) \in Int /\ NextDown(Round(low)) < low
      BY <1>7, NextDownBelow, SMT
    <2> DEFINE down == NextDown(Round(low))
    <2>2. down \in Int /\ down < low
      BY <2>1
    <2> HIDE DEF down
    <2>3. down <= length
      BY <1>7, <2>2, SMT
    <2>4. QED
      BY <2>1, <2>3 DEF down
  <1>10. interval0.lower \in Nat /\ interval0.lower <= length
    BY <1>2, <1>9, ClippedBelow
  <1>11. interval0.lower \in Int /\ length \in Int
    BY <1>10, SMT
  <1>12. QED
    BY <1>2, <1>8, <1>10, <1>11 DEF Holds, interval0, bits
-------------------------------------------------------------------------------
(* The length of the query, and the product of two intervals.                  *)
Descending(g, v) ==
    g = [c \in 0..Dimension |->
            IF c = 0 THEN 0 ELSE Max({0, NextDown(Round(g[c - 1] + v[c] * v[c]))})]
Ascending(g, v) ==
    g = [c \in 0..Dimension |-> IF c = 0 THEN 0 ELSE NextUp(Round(g[c - 1] + v[c] * v[c]))]

\* The sum rounded down is no larger than the square of the length,
LEMMA DescendsBelow ==
    ASSUME NEW v \in Vector
    PROVE  LET g == CHOOSE f : Descending(f, v)
           IN  g[Dimension] \in Nat /\ g[Dimension] <= Dot(v, v)
  <1> DEFINE below(a, c) == Max({0, NextDown(Round(a + v[c] * v[c]))})
             step == [pair \in Int \X (1..Dimension) |-> below(pair[1], pair[2])]
  <1>1. Dimension \in Nat /\ Coordinates = 1..Dimension
    BY CoordinatesAre DEF Coordinates
  <1>2. \A a \in Int, c \in Coordinates :
           below(a, c) \in Nat /\ (a + v[c] * v[c] \in Nat => below(a, c) <= a + v[c] * v[c])
    <2> SUFFICES ASSUME NEW a \in Int, NEW c \in Coordinates
                 PROVE  /\ below(a, c) \in Nat
                        /\ a + v[c] * v[c] \in Nat => below(a, c) <= a + v[c] * v[c]
      OBVIOUS
    <2> DEFINE x == a + v[c] * v[c]
               down == NextDown(Round(x))
    <2>1. x \in Int
      <3>1. v[c] * v[c] \in Int
        BY VectorTypes
      <3>2. QED
        BY <3>1, SMT
    <2> HIDE DEF x
    <2>2. down \in Int /\ down < x
      BY <2>1, NextDownBelow
    <2>3. below(a, c) = Max({0, down})
      BY DEF x
    <2> HIDE DEF down, below
    <2>4. Max({0, down}) \in Nat
      <3>1. Max({0, down}) \in {0, down} /\ 0 <= Max({0, down})
        BY <2>2, MaxOfTwo
      <3> DEFINE m == Max({0, down})
      <3>2. (m = 0 \/ m = down) /\ 0 <= m
        BY <3>1
      <3> HIDE DEF m
      <3>3. m \in Nat
        BY <2>2, <3>2, SMT
      <3>4. QED
        BY <3>3 DEF m
    <2>5. x \in Nat => Max({0, down}) <= x
      <3>1. SUFFICES ASSUME x \in Nat PROVE Max({0, down}) <= x
        OBVIOUS
      <3>2. down <= x
        BY <2>1, <2>2, SMT
      <3>3. QED
        BY <2>2, <3>1, <3>2, ClippedBelow
    <2>6. QED
      BY <2>3, <2>4, <2>5 DEF x
  <1> HIDE DEF below
  <1>3. step \in [Int \X (1..Dimension) -> Int]
    <2>1. \A pair \in Int \X (1..Dimension) : below(pair[1], pair[2]) \in Nat
      BY <1>1, <1>2
    <2>2. Nat \subseteq Int
      BY SMT
    <2>3. QED
      BY <2>1, <2>2
  <1>4. \A a \in Int, c \in 1..Dimension : step[<<a, c>>] = below(a, c)
    OBVIOUS
  <1> HIDE DEF step
  <1>5. PICK h \in [0..Dimension -> Int] :
           \A c \in 0..Dimension : h[c] = IF c = 0 THEN 0 ELSE step[<<h[c - 1], c>>]
    BY <1>1, <1>3, CountedRecursion
  <1>6. \A c \in 0..Dimension : h[c] = IF c = 0 THEN 0 ELSE below(h[c - 1], c)
    <2> SUFFICES ASSUME NEW c \in 0..Dimension
                 PROVE  h[c] = IF c = 0 THEN 0 ELSE below(h[c - 1], c)
      OBVIOUS
    <2>1. CASE c = 0
      BY <1>5, <2>1
    <2>2. CASE c # 0
      <3>1. c \in 1..Dimension /\ h[c - 1] \in Int
        BY <1>1, <2>2, CoordinatesAre
      <3>2. QED
        BY <1>4, <1>5, <2>2, <3>1
    <2>3. QED
      BY <2>1, <2>2
  <1>7. Descending(h, v)
    BY <1>6 DEF Descending, below
  <1> DEFINE g == CHOOSE f : Descending(f, v)
  <1>8. Descending(g, v)
    BY <1>7
  <1> HIDE DEF g
  <1>9. \A c \in 0..Dimension : g[c] = IF c = 0 THEN 0 ELSE below(g[c - 1], c)
    BY <1>8 DEF Descending, below
  <1> DEFINE vv == [c \in Coordinates |-> v[c] * v[c]]
  <1>10. \A c \in Coordinates : vv[c] \in Int /\ vv[c] = v[c] * v[c] /\ v[c] \in Int
    BY VectorTypes
  <1>11. Dot(v, v) = Total(vv)
    BY DEF Dot
  <1> HIDE DEF vv
  <1>12. PICK p : PartialSums(p, vv) /\ Total(vv) = p[Dimension]
    BY <1>10, TotalIs
  <1> DEFINE T == {c \in 0..Dimension : g[c] \in Nat /\ g[c] <= p[c]}
  <1>13. 0 \in T
    <2>1. g[0] = 0 /\ p[0] = 0
      BY <1>9, <1>12, CoordinatesAre DEF PartialSums
    <2>2. QED
      BY <2>1, CoordinatesAre, SMT
  <1>14. ASSUME NEW c \in Coordinates, c - 1 \in T PROVE c \in T
    <2>1. /\ g[c] = below(g[c - 1], c) /\ p[c] = p[c - 1] + v[c] * v[c] /\ p[c - 1] \in Int
          /\ g[c - 1] \in Nat /\ g[c - 1] <= p[c - 1] /\ c \in 0..Dimension
      BY <1>9, <1>10, <1>12, <1>14, CoordinatesAre DEF PartialSums
    <2>2. v[c] * v[c] \in Nat
      BY <1>10, SMT
    <2> DEFINE y == v[c] * v[c]
               a == g[c - 1]
    <2>3. y \in Nat /\ a \in Nat /\ a \in Int /\ a + y \in Nat /\ a + y = a + v[c] * v[c]
      BY <2>1, <2>2, SMT
    <2>4. below(a, c) \in Nat /\ below(a, c) <= a + y
      BY <1>2, <2>3
    <2>5. g[c] = below(a, c) /\ p[c] = p[c - 1] + y /\ a <= p[c - 1]
      BY <2>1
    <2> HIDE DEF y, a
    <2>6. g[c] \in Nat /\ g[c] <= p[c]
      BY <2>1, <2>3, <2>4, <2>5, SMT
    <2>7. QED
      BY <2>1, <2>6
  <1> HIDE DEF T
  <1>15. Dimension \in T
    BY <1>13, <1>14, CoordinateInduction, CoordinatesAre
  <1>16. QED
    BY <1>11, <1>12, <1>15 DEF T, g

\* and the one rounded up no smaller.
LEMMA AscendsAbove ==
    ASSUME NEW v \in Vector
    PROVE  LET g == CHOOSE f : Ascending(f, v)
           IN  g[Dimension] \in Int /\ Dot(v, v) <= g[Dimension]
  <1> DEFINE above(a, c) == NextUp(Round(a + v[c] * v[c]))
             step == [pair \in Int \X (1..Dimension) |-> above(pair[1], pair[2])]
  <1>1. Dimension \in Nat /\ Coordinates = 1..Dimension
    BY CoordinatesAre DEF Coordinates
  <1>2. \A a \in Int, c \in Coordinates : above(a, c) \in Int /\ a + v[c] * v[c] < above(a, c)
    <2> SUFFICES ASSUME NEW a \in Int, NEW c \in Coordinates
                 PROVE  above(a, c) \in Int /\ a + v[c] * v[c] < above(a, c)
      OBVIOUS
    <2> DEFINE x == a + v[c] * v[c]
               up == NextUp(Round(x))
    <2>1. x \in Int
      <3>1. v[c] * v[c] \in Int
        BY VectorTypes
      <3>2. QED
        BY <3>1, SMT
    <2> HIDE DEF x
    <2>2. up \in Int /\ up > x
      BY <2>1, NextUpAbove
    <2>3. above(a, c) = up
      BY DEF x
    <2> HIDE DEF up, above
    <2>4. x < up
      BY <2>1, <2>2, SMT
    <2>5. QED
      BY <2>2, <2>3, <2>4 DEF x
  <1> HIDE DEF above
  <1>3. step \in [Int \X (1..Dimension) -> Int]
    BY <1>1, <1>2
  <1>4. \A a \in Int, c \in 1..Dimension : step[<<a, c>>] = above(a, c)
    OBVIOUS
  <1> HIDE DEF step
  <1>5. PICK h \in [0..Dimension -> Int] :
           \A c \in 0..Dimension : h[c] = IF c = 0 THEN 0 ELSE step[<<h[c - 1], c>>]
    BY <1>1, <1>3, CountedRecursion
  <1>6. \A c \in 0..Dimension : h[c] = IF c = 0 THEN 0 ELSE above(h[c - 1], c)
    <2> SUFFICES ASSUME NEW c \in 0..Dimension
                 PROVE  h[c] = IF c = 0 THEN 0 ELSE above(h[c - 1], c)
      OBVIOUS
    <2>1. CASE c = 0
      BY <1>5, <2>1
    <2>2. CASE c # 0
      <3>1. c \in 1..Dimension /\ h[c - 1] \in Int
        BY <1>1, <2>2, CoordinatesAre
      <3>2. QED
        BY <1>4, <1>5, <2>2, <3>1
    <2>3. QED
      BY <2>1, <2>2
  <1>7. Ascending(h, v)
    BY <1>6 DEF Ascending, above
  <1> DEFINE g == CHOOSE f : Ascending(f, v)
  <1>8. Ascending(g, v)
    BY <1>7
  <1> HIDE DEF g
  <1>9. \A c \in 0..Dimension : g[c] = IF c = 0 THEN 0 ELSE above(g[c - 1], c)
    BY <1>8 DEF Ascending, above
  <1> DEFINE vv == [c \in Coordinates |-> v[c] * v[c]]
  <1>10. \A c \in Coordinates : vv[c] \in Int /\ vv[c] = v[c] * v[c] /\ v[c] \in Int
    BY VectorTypes
  <1>11. Dot(v, v) = Total(vv)
    BY DEF Dot
  <1> HIDE DEF vv
  <1>12. PICK p : PartialSums(p, vv) /\ Total(vv) = p[Dimension]
    BY <1>10, TotalIs
  <1> DEFINE T == {c \in 0..Dimension : g[c] \in Int /\ p[c] <= g[c]}
  <1>13. 0 \in T
    <2>1. g[0] = 0 /\ p[0] = 0
      BY <1>9, <1>12, CoordinatesAre DEF PartialSums
    <2>2. QED
      BY <2>1, CoordinatesAre, SMT
  <1>14. ASSUME NEW c \in Coordinates, c - 1 \in T PROVE c \in T
    <2>1. /\ g[c] = above(g[c - 1], c) /\ p[c] = p[c - 1] + v[c] * v[c] /\ p[c - 1] \in Int
          /\ g[c - 1] \in Int /\ p[c - 1] <= g[c - 1] /\ c \in 0..Dimension
      BY <1>9, <1>10, <1>12, <1>14, CoordinatesAre DEF PartialSums
    <2>2. v[c] * v[c] \in Int
      BY <1>10, SMT
    <2> DEFINE y == v[c] * v[c]
               a == g[c - 1]
    <2>3. y \in Int /\ a \in Int
      BY <2>1, <2>2
    <2>4. above(a, c) \in Int /\ a + y < above(a, c)
      BY <1>2, <2>3
    <2>5. g[c] = above(a, c) /\ p[c] = p[c - 1] + y /\ p[c - 1] <= a
      BY <2>1
    <2> HIDE DEF y, a
    <2>6. g[c] \in Int /\ p[c] <= g[c]
      BY <2>1, <2>3, <2>4, <2>5, SMT
    <2>7. QED
      BY <2>1, <2>6
  <1> HIDE DEF T
  <1>15. Dimension \in T
    BY <1>13, <1>14, CoordinateInduction, CoordinatesAre
  <1>16. QED
    BY <1>11, <1>12, <1>15 DEF T, g

\* A vector that is scaled has its square scaled twice.
LEMMA DotScales ==
    ASSUME NEW o \in Vector, NEW s \in Nat
    PROVE  /\ [c \in Coordinates |-> s * o[c]] \in Vector
           /\ Dot([c \in Coordinates |-> s * o[c]], [c \in Coordinates |-> s * o[c]])
                  = Dot(o, o) * (s * s)
  <1> DEFINE w == [c \in Coordinates |-> s * o[c]]
             u == [c \in Coordinates |-> o[c] * o[c]]
             v == [c \in Coordinates |-> w[c] * w[c]]
             i == s * s
  <1>1. \A c \in Coordinates : o[c] \in Int /\ s * o[c] \in Int
    BY SMT DEF Vector
  <1>2. w \in Vector
    BY <1>1 DEF Vector
  <1>3. \A c \in Coordinates : u[c] \in Int /\ v[c] \in Int /\ AbsInt(u[c] * i - v[c]) <= 0
    <2> SUFFICES ASSUME NEW c \in Coordinates
                 PROVE  u[c] \in Int /\ v[c] \in Int /\ AbsInt(u[c] * i - v[c]) <= 0
      OBVIOUS
    <2>1. o[c] \in Int /\ u[c] = o[c] * o[c] /\ v[c] = (s * o[c]) * (s * o[c])
      BY <1>1
    <2> DEFINE x == o[c]
    <2>2. x \in Int /\ u[c] = x * x /\ v[c] = (s * x) * (s * x)
      BY <2>1
    <2> HIDE DEF x, u, v
    <2>3. (x * x) * i = (s * x) * (s * x) /\ x * x \in Int /\ (s * x) * (s * x) \in Int
      BY <2>2, SMT
    <2>4. u[c] \in Int /\ v[c] \in Int /\ u[c] * i = v[c]
      BY <2>2, <2>3
    <2> HIDE DEF i
    <2>5. u[c] * i - v[c] = 0
      BY <2>4, SMT
    <2>6. AbsInt(0) <= 0
      BY SMT DEF AbsInt
    <2>7. QED
      BY <2>4, <2>5, <2>6
  <1>4. i \in Int
    BY SMT
  <1>5. Dot(o, o) = Total(u) /\ Dot(w, w) = Total(v)
    BY DEF Dot
  <1> HIDE DEF u, v, i, w
  <1>6. AbsInt(Total(u) * i - Total(v)) <= Dimension * 0 /\ Total(u) \in Int /\ Total(v) \in Int
    <2>1. 0 \in Nat
      BY SMT
    <2>2. QED
      BY <1>3, <1>4, <2>1, TotalsApart, TotalType
  <1> DEFINE a == Total(u)
             b == Total(v)
             ak == a * i
  <1>7. a \in Int /\ b \in Int /\ ak \in Int /\ AbsInt(ak - b) <= 0
    <2>1. Dimension * 0 = 0
      BY CertificateAssumption, SMT
    <2>2. a * i \in Int
      BY <1>4, <1>6, SMT
    <2>3. QED
      BY <1>6, <2>1, <2>2
  <1> HIDE DEF a, b, ak
  <1>8. ak = b
    BY <1>7, SMT DEF AbsInt
  <1>9. QED
    BY <1>2, <1>5, <1>8 DEF a, b, ak, w, i

\* The interval of the length of a query holds it.
LEMMA QueryLengthHolds ==
    ASSUME NEW o \in Vector, Dot(o, o) = One * One, NEW scale \in Nat
    PROVE  Holds(QueryLengthInterval([c \in Coordinates |-> scale * o[c]]), scale * One)
  <1> DEFINE v == [c \in Coordinates |-> scale * o[c]]
             g == CHOOSE f : Descending(f, v)
             h == CHOOSE f : Ascending(f, v)
             x == scale * One
             lowest == g[Dimension]
             highest == h[Dimension]
             down == NextDown(Round(RoundedSqrt(lowest)))
             up == NextUp(Round(RoundedSqrt(highest)))
             length == QueryLengthInterval(v)
  <1>1. x \in Nat /\ x \in Int /\ (One * One) * (scale * scale) = x * x
    BY CertificateAssumption, SMT
  <1>2. v \in Vector /\ Dot(v, v) = (One * One) * (scale * scale)
    BY DotScales
  <1>3. length = [lower |-> Max({0, down}), upper |-> up]
    BY Zenon DEF QueryLengthInterval, Descending, Ascending
  <1>4. length.lower = Max({0, down}) /\ length.upper = up
    <2> HIDE DEF length, down, up
    <2>1. QED
      BY <1>3
  <1> HIDE DEF v, length
  <1>5. lowest \in Nat /\ lowest <= Dot(v, v) /\ highest \in Int /\ Dot(v, v) <= highest
    BY <1>2, DescendsBelow, AscendsAbove
  <1> HIDE DEF g, h
  <1>6. lowest <= x * x /\ x * x <= highest
    BY <1>1, <1>2, <1>5
  <1>7. highest \in Nat
    <2> DEFINE y == x * x
    <2>1. y \in Nat /\ y <= highest
      BY <1>1, <1>6, SMT
    <2> HIDE DEF x, y, highest
    <2>2. QED
      BY <1>5, <2>1, SMT
  <1> HIDE DEF x, lowest, highest
  <1>8. down \in Int /\ down <= x
    BY <1>1, <1>5, <1>6, RootBelow
  <1>9. up \in Nat /\ x <= up
    BY <1>1, <1>6, <1>7, RootAbove
  <1> HIDE DEF down, up
  <1>10. Max({0, down}) \in Nat /\ Max({0, down}) <= x
    BY <1>1, <1>8, ClippedBelow
  <1>11. up \in Int /\ Max({0, down}) \in Int
    BY <1>9, <1>10, SMT
  <1>12. Holds(length, x)
    BY <1>1, <1>4, <1>9, <1>10, <1>11 DEF Holds
  <1>13. QED
    BY <1>12 DEF length, v, x
-------------------------------------------------------------------------------
(* The product of two intervals.                                               *)
LEMMA Between ==
    ASSUME NEW p \in Int, NEW low \in Int, NEW y \in Int, NEW high \in Int, low <= y, y <= high
    PROVE  \/ p * low <= p * y /\ p * y <= p * high
           \/ p * high <= p * y /\ p * y <= p * low
  <1>1. CASE p >= 0
    <2>1. p * (y - low) >= 0 /\ p * (high - y) >= 0
      BY <1>1, SMT
    <2>2. p * (y - low) = p * y - p * low /\ p * (high - y) = p * high - p * y
      BY SMT
    <2>3. p * y \in Int /\ p * low \in Int /\ p * high \in Int
      BY SMT
    <2>4. QED
      BY <2>1, <2>2, <2>3, SMT
  <1>2. CASE p < 0
    <2>1. (-p) * (y - low) >= 0 /\ (-p) * (high - y) >= 0
      BY <1>2, SMT
    <2>2. (-p) * (y - low) = p * low - p * y /\ (-p) * (high - y) = p * y - p * high
      BY SMT
    <2>3. p * y \in Int /\ p * low \in Int /\ p * high \in Int
      BY SMT
    <2>4. QED
      BY <2>1, <2>2, <2>3, SMT
  <1>3. QED
    BY <1>1, <1>2, SMT

\* Two corners of a rectangle have products on both sides of any product within.
LEMMA Corners ==
    ASSUME NEW a, NEW x, Holds(a, x), NEW b, NEW y, Holds(b, y)
    PROVE  /\ \E p \in {a.lower, a.upper}, q \in {b.lower, b.upper} : p * q <= x * y
           /\ \E p \in {a.lower, a.upper}, q \in {b.lower, b.upper} : x * y <= p * q
  <1>1. /\ a.lower \in Int /\ a.upper \in Int /\ x \in Int /\ a.lower <= x /\ x <= a.upper
        /\ b.lower \in Int /\ b.upper \in Int /\ y \in Int /\ b.lower <= y /\ y <= b.upper
    BY DEF Holds
  <1>2. \A p \in {a.lower, a.upper} :
           /\ \E q \in {b.lower, b.upper} : p * q <= p * y
           /\ \E q \in {b.lower, b.upper} : p * y <= p * q
    <2> SUFFICES ASSUME NEW p \in {a.lower, a.upper}
                 PROVE  /\ \E q \in {b.lower, b.upper} : p * q <= p * y
                        /\ \E q \in {b.lower, b.upper} : p * y <= p * q
      OBVIOUS
    <2>1. \/ p * b.lower <= p * y /\ p * y <= p * b.upper
          \/ p * b.upper <= p * y /\ p * y <= p * b.lower
      BY <1>1, Between
    <2>2. QED
      BY <2>1, Zenon
  <1>3. /\ \E p \in {a.lower, a.upper} : p * y <= x * y
        /\ \E p \in {a.lower, a.upper} : x * y <= p * y
    <2>1. \/ y * a.lower <= y * x /\ y * x <= y * a.upper
          \/ y * a.upper <= y * x /\ y * x <= y * a.lower
      BY <1>1, Between
    <2>2. y * x = x * y /\ y * a.lower = a.lower * y /\ y * a.upper = a.upper * y
      BY <1>1, SMT
    <2>3. QED
      BY <2>1, <2>2, Zenon
  <1>4. \A p \in {a.lower, a.upper}, q \in {b.lower, b.upper} :
           p * q \in Int /\ p * y \in Int /\ x * y \in Int
    BY <1>1, SMT
  <1>5. \E p \in {a.lower, a.upper}, q \in {b.lower, b.upper} : p * q <= x * y
    <2>1. PICK p \in {a.lower, a.upper} : p * y <= x * y
      BY <1>3
    <2>2. PICK q \in {b.lower, b.upper} : p * q <= p * y
      BY <1>2
    <2> DEFINE pq == p * q
               py == p * y
               xy == x * y
    <2>3. pq \in Int /\ py \in Int /\ xy \in Int /\ pq <= py /\ py <= xy
      BY <1>4, <2>1, <2>2
    <2> HIDE DEF pq, py, xy
    <2>4. pq <= xy
      BY <2>3, SMT
    <2>5. QED
      BY <2>4 DEF pq, xy
  <1>6. \E p \in {a.lower, a.upper}, q \in {b.lower, b.upper} : x * y <= p * q
    <2>1. PICK p \in {a.lower, a.upper} : x * y <= p * y
      BY <1>3
    <2>2. PICK q \in {b.lower, b.upper} : p * y <= p * q
      BY <1>2
    <2> DEFINE pq == p * q
               py == p * y
               xy == x * y
    <2>3. pq \in Int /\ py \in Int /\ xy \in Int /\ py <= pq /\ xy <= py
      BY <1>4, <2>1, <2>2
    <2> HIDE DEF pq, py, xy
    <2>4. xy <= pq
      BY <2>3, SMT
    <2>5. QED
      BY <2>4 DEF pq, xy
  <1>7. QED
    BY <1>5, <1>6

\* The extremes of four numbers.
LEMMA ExtremesOfFour ==
    ASSUME NEW i \in Int, NEW l \in Int, NEW m \in Int, NEW n \in Int,
           NEW S, S = {i, l, m, n}
    PROVE  /\ Max(S) \in S /\ \A z \in S : z <= Max(S)
           /\ Min(S) \in S /\ \A z \in S : Min(S) <= z
  <1> DEFINE top == Max({Max({i, l}), Max({m, n})})
             bottom == Min({Min({i, l}), Min({m, n})})
  <1>1. /\ Max({i, l}) \in {i, l} /\ i <= Max({i, l}) /\ l <= Max({i, l})
        /\ Min({i, l}) \in {i, l} /\ Min({i, l}) <= i /\ Min({i, l}) <= l
        /\ Max({m, n}) \in {m, n} /\ m <= Max({m, n}) /\ n <= Max({m, n})
        /\ Min({m, n}) \in {m, n} /\ Min({m, n}) <= m /\ Min({m, n}) <= n
    BY MaxOfTwo
  <1> DEFINE p == Max({i, l})
             q == Max({m, n})
             r == Min({i, l})
             s == Min({m, n})
  <1>2. p \in Int /\ q \in Int /\ r \in Int /\ s \in Int
    BY <1>1
  <1>3. /\ Max({p, q}) \in {p, q} /\ p <= Max({p, q}) /\ q <= Max({p, q})
        /\ Min({r, s}) \in {r, s} /\ Min({r, s}) <= r /\ Min({r, s}) <= s
    <2> HIDE DEF p, q, r, s
    <2>1. QED
      BY <1>2, MaxOfTwo
  <1>4. top = Max({p, q}) /\ bottom = Min({r, s})
    OBVIOUS
  <1>5. /\ p \in {i, l} /\ i <= p /\ l <= p /\ r \in {i, l} /\ r <= i /\ r <= l
        /\ q \in {m, n} /\ m <= q /\ n <= q /\ s \in {m, n} /\ s <= m /\ s <= n
        /\ top \in {p, q} /\ p <= top /\ q <= top /\ bottom \in {r, s} /\ bottom <= r /\ bottom <= s
    BY <1>1, <1>3, <1>4
  <1> HIDE DEF p, q, r, s, top, bottom
  <1>6. top \in S /\ (\A z \in S : top >= z) /\ bottom \in S /\ \A z \in S : bottom <= z
    BY <1>2, <1>5, SMT
  <1>7. (\E z \in S : \A w \in S : z >= w) /\ \E z \in S : \A w \in S : z <= w
    BY <1>6
  <1>8. Max(S) \in S /\ (\A z \in S : Max(S) >= z) /\ Min(S) \in S /\ \A z \in S : Min(S) <= z
    BY <1>7 DEF Max, Min
  <1>9. \A z \in S : z <= Max(S)
    BY <1>8, SMT
  <1>10. QED
    BY <1>8, <1>9

\* The product of two intervals holds the product of what they hold.
LEMMA MultiplyHolds ==
    ASSUME NEW a, NEW x, Holds(a, x), NEW b, NEW y, Holds(b, y)
    PROVE  Holds(Multiply(a, b), x * y)
  <1> DEFINE products == {Round(u * v) : u \in {a.lower, a.upper}, v \in {b.lower, b.upper}}
             m == Multiply(a, b)
             xy == x * y
             top == Max(products)
             bottom == Min(products)
  <1>1. m.lower = NextDown(bottom) /\ m.upper = NextUp(top)
    <2> HIDE DEF m, products
    <2>1. m = [lower |-> NextDown(bottom), upper |-> NextUp(top)]
      BY DEF m, products, Multiply
    <2> HIDE DEF top, bottom
    <2>2. QED
      BY <2>1
  <1>2. /\ a.lower \in Int /\ a.upper \in Int /\ x \in Int
        /\ b.lower \in Int /\ b.upper \in Int /\ y \in Int
    BY DEF Holds
  <1>3. \A u \in {a.lower, a.upper}, v \in {b.lower, b.upper} :
           u * v \in Int /\ Round(u * v) \in Int /\ Float(Round(u * v))
    <2> SUFFICES ASSUME NEW u \in {a.lower, a.upper}, NEW v \in {b.lower, b.upper}
                 PROVE  u * v \in Int /\ Round(u * v) \in Int /\ Float(Round(u * v))
      OBVIOUS
    <2>1. u * v \in Int
      BY <1>2, SMT
    <2>2. QED
      BY <2>1, RoundIsFloat DEF Float
  <1>4. xy \in Int
    BY <1>2, SMT
  <1>5. \A z \in products : z \in Int /\ Float(z)
    BY <1>3
  <1>6. top \in products /\ (\A z \in products : z <= top)
        /\ bottom \in products /\ \A z \in products : bottom <= z
    <2>1. products = {Round(a.lower * b.lower), Round(a.lower * b.upper),
                      Round(a.upper * b.lower), Round(a.upper * b.upper)}
      <3> DEFINE f(u, v) == Round(u * v)
                 t == a.lower
                 l == a.upper
                 i == b.lower
                 j == b.upper
      <3>1. products = {f(u, v) : u \in {t, l}, v \in {i, j}}
        OBVIOUS
      <3>2. {f(u, v) : u \in {t, l}, v \in {i, j}} = {f(t, i), f(t, j), f(l, i), f(l, j)}
        <4> HIDE DEF f, t, l, i, j
        <4>1. QED
          OBVIOUS
      <3>3. QED
        BY <3>1, <3>2
    <2>2. /\ Round(a.lower * b.lower) \in Int /\ Round(a.lower * b.upper) \in Int
          /\ Round(a.upper * b.lower) \in Int /\ Round(a.upper * b.upper) \in Int
      BY <1>3
    <2> HIDE DEF products
    <2>3. QED
      BY <2>1, <2>2, ExtremesOfFour
  <1>7. PICK p \in {a.lower, a.upper}, q \in {b.lower, b.upper} : p * q <= x * y
    BY Corners
  <1>8. PICK r \in {a.lower, a.upper}, s \in {b.lower, b.upper} : x * y <= r * s
    BY Corners
  <1> DEFINE low == p * q
             high == r * s
  <1>9. low \in Int /\ high \in Int /\ low <= xy /\ xy <= high
        /\ Round(low) \in products /\ Round(high) \in products
    BY <1>3, <1>7, <1>8
  <1> HIDE DEF low, high, xy, products
  <1>10. Float(top) /\ Float(bottom) /\ Float(Round(low)) /\ Float(Round(high))
         /\ Round(high) <= top /\ bottom <= Round(low)
    BY <1>5, <1>6, <1>9
  <1>11. NextUp(Round(high)) <= NextUp(top) /\ NextUp(top) \in Int
         /\ NextUp(Round(high)) > high /\ NextUp(Round(high)) \in Int
    BY <1>9, <1>10, NextUpGrows, NextUpOfFloat, NextUpAbove
  <1>12. NextDown(bottom) <= NextDown(Round(low))
         /\ NextDown(Round(low)) < low /\ NextDown(Round(low)) \in Int
    BY <1>9, <1>10, NextDownGrows, NextDownBelow
  <1>13. NextDown(bottom) \in Int
    <2>1. Round(bottom) = bottom /\ bottom \in Int
      BY <1>10, RoundOfFloat DEF Float
    <2>2. QED
      BY <2>1, NextDownBelow
  <1> HIDE DEF top, bottom, m
  <1>14. m.lower <= xy /\ xy <= m.upper
    <2>1. NextDown(bottom) <= xy
      BY <1>4, <1>9, <1>12, <1>13, SMT
    <2>2. xy <= NextUp(top)
      BY <1>4, <1>9, <1>11, SMT
    <2>3. QED
      BY <1>1, <2>1, <2>2
  <1>15. Holds(m, xy)
    BY <1>1, <1>4, <1>11, <1>13, <1>14 DEF Holds
  <1>16. QED
    BY <1>15 DEF m, xy

-------------------------------------------------------------------------------
(* A dot-product hit: the true cosine lies in its interval, the length of the  *)
(* row in that of its stored bits, the length of the query in its own.         *)
HitKept ==
    hit = None \/
        /\ blocks[hit.block] # None
        /\ \E row \in ToSet(blocks[hit.block].rows) :
               /\ row.row = hit.row /\ Holds(hit.interval, DotTruth(row))
               /\ \A other \in ToSet(blocks[hit.block].rows) : other.row = hit.row => other = row

DotInv == CertificateInv /\ HitKept

\* The interval of a hit holds the product of the cosine and both lengths.
LEMMA DotIntervalHolds ==
    ASSUME NEW q, Directed(q), NEW cosine, NEW truth, Holds(cosine, truth),
           NEW length \in Nat, VectorError(length) = "ok", NEW scale \in Nat
    PROVE  Holds(DotInterval(cosine, RadiusBits(length),
                             QueryLengthInterval([c \in Coordinates |-> scale * q.original[c]])),
                 truth * length * scale * One)
  <1> DEFINE stored == StoredLengthInterval(RadiusBits(length))
             asked == QueryLengthInterval([c \in Coordinates |-> scale * q.original[c]])
             served == DotInterval(cosine, RadiusBits(length), asked)
  <1>1. q.original \in Vector /\ Dot(q.original, q.original) = One * One
    BY DEF Directed, Carried, NoDirection
  <1>2. Holds(stored, length)
    BY StoredLengthHolds
  <1>3. Holds(asked, scale * One)
    BY <1>1, QueryLengthHolds
  <1>4. served = Multiply(Multiply(cosine, stored), asked)
    BY DEF DotInterval
  <1> HIDE DEF stored, asked, served
  <1>5. Holds(Multiply(cosine, stored), truth * length)
    BY <1>2, MultiplyHolds
  <1>6. Holds(served, (truth * length) * (scale * One))
    BY <1>3, <1>4, <1>5, MultiplyHolds
  <1>7. (truth * length) * (scale * One) = truth * length * scale * One
    <2>1. truth \in Int
      BY DEF Holds
    <2> DEFINE w == truth * length
    <2>2. w \in Int
      BY <2>1, SMT
    <2> HIDE DEF w
    <2>3. w * (scale * One) = (w * scale) * One
      BY <2>2, CertificateAssumption, SMT
    <2>4. QED
      BY <2>3 DEF w
  <1>8. Holds(served, truth * length * scale * One)
    BY <1>6, <1>7
  <1>9. QED
    BY <1>8 DEF served, asked

\* A hit that is served holds the true product; none is refused for an empty interval.
LEMMA ServeDotProductKeeps ==
    ASSUME DotInv, NEW length \in RowLengths, NEW scale \in QueryScales,
           ServeDotProduct(length, scale)
    PROVE  DotInv'
  <1> DEFINE bits == RadiusBits(length)
             components == [c \in Coordinates |-> scale * query.original[c]]
             served == DotInterval(interval.bounds, bits, QueryLengthInterval(components))
             new == [block |-> interval.block, row |-> interval.row, length |-> length,
                     scale |-> scale, stored_magnitude |-> bits, interval |-> served]
  <1>1. /\ interval # None
        /\ refused' = IF VectorError(length) # "ok" THEN VectorError(length)
                      ELSE VectorError(HalfUnit * scale)
        /\ IF refused' # "ok" THEN UNCHANGED <<hit, outcome>>
           ELSE IF served.lower > served.upper
           THEN outcome' = "CertificateInvalid" /\ UNCHANGED hit
           ELSE hit' = new /\ outcome' = "ok"
        /\ blocks' = blocks /\ certificates' = certificates /\ query' = query
        /\ certified' = certified /\ interval' = interval
    BY DEF ServeDotProduct
  <1>2. /\ new.block = interval.block /\ new.row = interval.row /\ new.length = length
        /\ new.scale = scale /\ new.interval = served
    <2> HIDE DEF bits, served
    <2>1. QED
      OBVIOUS
  <1>3. PICK row \in ToSet(blocks[interval.block].rows) :
           /\ row.row = interval.row /\ Holds(interval.bounds, Truth(query, row))
           /\ \A other \in ToSet(blocks[interval.block].rows) :
                  other.row = interval.row => other = row
    BY <1>1 DEF DotInv, CertificateInv, IntervalKept
  <1>4. query # None /\ Directed(query) /\ blocks[interval.block] # None
    BY <1>1 DEF DotInv, CertificateInv, IntervalKept, QueryKept, Ready
  <1>5. length \in Nat /\ scale \in Nat
    BY DotProductAssumption
  <1>6. ASSUME refused' = "ok"
        PROVE  Holds(served, Truth(query, row) * length * scale * One)
    <2>1. VectorError(length) = "ok"
      BY <1>1, <1>6
    <2> DEFINE truth == Truth(query, row)
    <2>2. Holds(interval.bounds, truth)
      BY <1>3
    <2> HIDE DEF truth
    <2>3. Holds(served, truth * length * scale * One)
      BY <1>4, <1>5, <2>1, <2>2, DotIntervalHolds
    <2>4. QED
      BY <2>3 DEF truth
  <1> HIDE DEF served, new, bits, components
  <1>7. (refused' = "ok" => hit' = new /\ outcome' = "ok")
        /\ (refused' # "ok" => hit' = hit /\ outcome' = outcome)
    <2>1. ASSUME refused' = "ok" PROVE ~ (served.lower > served.upper)
      <3>1. /\ served.lower \in Int /\ served.upper \in Int
            /\ Truth(query, row) * length * scale * One \in Int
            /\ served.lower <= Truth(query, row) * length * scale * One
            /\ Truth(query, row) * length * scale * One <= served.upper
        BY <1>6, <2>1 DEF Holds
      <3> DEFINE t == Truth(query, row) * length * scale * One
      <3>2. t \in Int /\ served.lower <= t /\ t <= served.upper
        BY <3>1
      <3> HIDE DEF t
      <3>3. QED
        BY <3>1, <3>2, SMT
    <2>2. QED
      BY <1>1, <2>1, Zenon
  <1>8. HitKept'
    <2>1. CASE refused' = "ok"
      <3>1. hit' = new /\ blocks'[hit'.block] = blocks[interval.block]
            /\ hit'.row = interval.row /\ hit'.interval = served
            /\ hit'.length = length /\ hit'.scale = scale
        BY <1>1, <1>2, <1>7, <2>1
      <3>2. DotTruth(row)' = Truth(query, row) * length * scale * One
        BY <1>1, <3>1 DEF DotTruth
      <3>3. row.row = hit'.row /\ Holds(hit'.interval, DotTruth(row)')
        BY <1>3, <1>6, <2>1, <3>1, <3>2
      <3>4. /\ blocks'[hit'.block] # None
            /\ row \in ToSet(blocks'[hit'.block].rows)
            /\ \A other \in ToSet(blocks'[hit'.block].rows) : other.row = hit'.row => other = row
        BY <1>3, <1>4, <3>1
      <3>5. QED
        BY <3>3, <3>4 DEF HitKept
    <2>2. CASE refused' # "ok"
      <3>1. hit' = hit /\ blocks' = blocks /\ query' = query
        BY <1>1, <1>7, <2>2
      <3>2. QED
        BY <3>1 DEF DotInv, HitKept, DotTruth
    <2>3. QED
      BY <2>1, <2>2
  <1>9. CertificateInv'
    <2>1. OutcomeKept'
      BY <1>7 DEF DotInv, CertificateInv, OutcomeKept
    <2>2. QED
      BY <1>1, <2>1 DEF DotInv, CertificateInv, BlocksKept, CertificatesKept, QueryKept, ScoreKept,
                        IntervalKept, RawOf
  <1>10. QED
    BY <1>8, <1>9 DEF DotInv

\* Every step keeps the invariant: a hit is the last thing that happens.
LEMMA DotNextKeeps ==
    ASSUME DotInv, [DotNext]_dotVars
    PROVE  DotInv'
  <1>1. ASSUME hit = None, CertificateNext, hit' = hit
        PROVE  DotInv'
    <2>1. CertificateInv'
      BY <1>1, CertificateNextKeeps DEF DotInv
    <2>2. QED
      BY <1>1, <2>1 DEF DotInv, HitKept
  <1>2. ASSUME NEW length \in RowLengths, NEW scale \in QueryScales, ServeDotProduct(length, scale)
        PROVE  DotInv'
    BY <1>2, ServeDotProductKeeps
  <1>3. ASSUME UNCHANGED dotVars
        PROVE  DotInv'
    <2>1. UNCHANGED certificateVars /\ hit' = hit
      BY <1>3 DEF dotVars
    <2>2. CertificateInv' /\ blocks' = blocks /\ query' = query
      BY <2>1, CertificateStutters DEF DotInv, certificateVars
    <2>3. QED
      BY <2>1, <2>2 DEF DotInv, HitKept, DotTruth
  <1>4. QED
    BY <1>1, <1>2, <1>3, Zenon DEF DotNext

\* The invariant implies the property.
LEMMA KeptHoldsDotTruth ==
    ASSUME DotInv
    PROVE  DotIntervalsHoldTruth
  <1>1. HitKept /\ OutcomeKept
    BY DEF DotInv, CertificateInv
  <1>2. ASSUME hit # None, NEW row \in RowsOf(hit.block), row.row = hit.row
        PROVE  hit.interval.lower <= DotTruth(row) /\ DotTruth(row) <= hit.interval.upper
    <2>1. row \in ToSet(blocks[hit.block].rows)
      BY <1>1, <1>2 DEF HitKept, RowsOf
    <2>2. Holds(hit.interval, DotTruth(row))
      BY <1>1, <1>2, <2>1 DEF HitKept
    <2>3. QED
      BY <2>2 DEF Holds
  <1>3. QED
    BY <1>1, <1>2 DEF DotIntervalsHoldTruth, OutcomeKept

\* The invariant of the dot-product search.
LEMMA DotSpecKeeps == DotSpec => []DotInv
  <1>1. DotInit => DotInv
    BY InitKeeps DEF DotInit, DotInv, HitKept
  <1>2. DotInv /\ [DotNext]_dotVars => DotInv'
    BY DotNextKeeps
  <1>3. QED
    BY <1>1, <1>2, PTL DEF DotSpec

\* IntervalsHoldTruth of an index that also serves dot products, which is what the
\* run checks: a dot-product search disturbs no certified interval (certified.rs).
THEOREM CosinesHoldTruth == DotSpec => []IntervalsHoldTruth
  <1>1. DotInv => IntervalsHoldTruth
    BY KeptHoldsTruth DEF DotInv
  <1>2. QED
    BY <1>1, DotSpecKeeps, PTL

\* DotIntervalsHoldTruth for every half-precision format, every length a row can be
\* pushed with and every scale of a query: the interval of a hit holds the product
\* of the vectors that went in, and is never found empty (dot_product.rs).
THEOREM DotProductsHoldTruth == DotSpec => []DotIntervalsHoldTruth
  <1>1. DotInv => DotIntervalsHoldTruth
    BY KeptHoldsDotTruth
  <1>2. QED
    BY <1>1, DotSpecKeeps, PTL
===============================================================================
