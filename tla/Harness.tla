-------------------------------- MODULE Harness --------------------------------
(* The measurement harness of spherra-testkit (harness.rs, exact.rs): a corpus *)
(* is trained and encoded once; then either the certified bounds alone are     *)
(* asked how many rows they rule out of the true top k (measure_prune), or     *)
(* every query is scanned once and its ranking reranked at several candidate   *)
(* budgets (measure). A score is an integer, and what the encoding of a row    *)
(* costs is the distance its certificate allows between score and truth; that  *)
(* the certificates keep to it is what Certificate.tla is about.               *)
EXTENDS Integers, Sequences, FiniteSets

CONSTANTS
    RowCount,       \* rows of the indexed split
    QueryCount,     \* queries of the query split
    MaxScore,       \* no score is further from 0
    Truths,         \* the true scores a query may have
    Encodings,      \* the error of each row: [primary, refined]
    Ks,             \* what measure_prune is asked for
    BudgetLists,    \* what measure is asked for
    Near, Far       \* the depths of the two recalls: 10 and 100

Rows == 0..(RowCount - 1)
Scores == (-MaxScore)..MaxScore

ASSUME HarnessAssumption ==
    /\ RowCount \in Nat \ {0} /\ QueryCount \in Nat /\ MaxScore \in Nat
    /\ Truths \subseteq [Rows -> Scores]
    /\ Encodings \subseteq [Rows -> [primary : 0..MaxScore, refined : 0..MaxScore]]
    /\ Ks \subseteq Nat
    /\ \A list \in BudgetLists : list \in Seq(Nat)
    /\ Near \in Nat /\ Far \in Nat

VARIABLES
    phase,          \* what the harness is doing, or why it stopped
    encoding,       \* the prepared corpus
    replacement,    \* {}, or the score of the code that fills the whole layout
    k, budgets,     \* the arguments of the measurement
    survivors,      \* measure_prune: one sample per query
    per_row_survivors,
    soundness_failures,
    scans,          \* measure: truth, primary and refined scores of each query
    primary_violations,
    outcomes        \* one per budget

vars == <<phase, encoding, replacement, k, budgets, survivors, per_row_survivors,
          soundness_failures, scans, primary_violations, outcomes>>

-------------------------------------------------------------------------------
Distance(a, b) == IF a < b THEN b - a ELSE a - b

(* sort_by_score_then_row                                                      *)
Better(score, s, r) == score[s] > score[r] \/ (score[s] = score[r] /\ s < r)

(* The first n of the rows in that order.                                      *)
Best(rows, score, n) == {r \in rows : Cardinality({s \in rows : Better(score, s, r)}) < n}

(* Seeded fault: the certificate of a block is that of its best row.           *)
LeastError(kind) ==
    CHOOSE e \in {encoding[r][kind] : r \in Rows} : \A r \in Rows : e <= encoding[r][kind]

(* build_exhaustive_certificate: the worst row of the block decides.           *)
BlockError(kind) ==
    CHOOSE e \in {encoding[r][kind] : r \in Rows} : \A r \in Rows : encoding[r][kind] <= e

BlockErrors(kind) == [r \in Rows |-> BlockError(kind)]

(* One certificate for each row instead.                                       *)
RowErrors(kind) == [r \in Rows |-> encoding[r][kind]]

Lower(score, error) == [r \in Rows |-> score[r] - error[r]]
Upper(score, error) == [r \in Rows |-> score[r] + error[r]]

AtLeast(value, v) == {r \in Rows : value[r] >= v}
Least(a, b) == IF a <= b THEN a ELSE b

(* Seeded fault: the threshold is the first lower bound, whatever k is.        *)
LargestLower(lower, n) ==
    CHOOSE v \in {lower[r] : r \in Rows} : \A r \in Rows : lower[r] <= v

(* The n-th largest of the lower bounds, or the last when there are fewer.     *)
Threshold(lower, n) ==
    CHOOSE v \in {lower[r] : r \in Rows} :
        /\ Cardinality(AtLeast(lower, v)) >= Least(n, RowCount)
        /\ \A r \in Rows : Cardinality(AtLeast(lower, lower[r])) >= Least(n, RowCount)
                               => lower[r] <= v

Survivors(score, error) == AtLeast(Upper(score, error), Threshold(Lower(score, error), k))

(* What a scorer may answer for rows with these true scores.                   *)
Estimates(truth, kind) ==
    {s \in [Rows -> Scores] : \A r \in Rows : Distance(s[r], truth[r]) <= encoding[r][kind]}

(* The rows whose truth is outside of the bounds of the block's certificate.   *)
Violations(rows, score, truth, kind) ==
    {r \in rows : \/ truth[r] < Lower(score, BlockErrors(kind))[r]
                  \/ truth[r] > Upper(score, BlockErrors(kind))[r]}

-------------------------------------------------------------------------------
NothingEncoded == [r \in Rows |-> [primary |-> 0, refined |-> 0]]

Init ==
    /\ phase = "empty" /\ encoding = NothingEncoded /\ replacement = {}
    /\ k = 0 /\ budgets = <<>>
    /\ survivors = <<>> /\ per_row_survivors = <<>> /\ soundness_failures = 0
    /\ scans = <<>> /\ primary_violations = 0 /\ outcomes = <<>>

(* CodecFormatRun::prepare: training wants calibration rows, and encoding      *)
(* leaves every row with its errors. A test fills the layout with another code.*)
Prepare(calibrated, e, filled) ==
    /\ phase = "empty"
    /\ phase' = IF calibrated THEN "prepared" ELSE "EmptyCalibration"
    /\ encoding' = IF calibrated THEN e ELSE encoding
    /\ replacement' = IF calibrated THEN filled ELSE replacement
    /\ UNCHANGED <<k, budgets, survivors, per_row_survivors, soundness_failures, scans,
                   primary_violations, outcomes>>

MeasurePrune(n) ==
    /\ phase = "prepared"
    /\ phase' = IF n = 0 THEN "ZeroBudget" ELSE "pruning"
    /\ k' = n
    /\ UNCHANGED <<encoding, replacement, budgets, survivors, per_row_survivors,
                   soundness_failures, scans, primary_violations, outcomes>>

(* One query of measure_prune.                                                 *)
PruneQuery ==
    /\ phase = "pruning" /\ Len(survivors) < QueryCount
    /\ \E truth \in Truths : \E score \in Estimates(truth, "primary") :
          LET kept == Survivors(score, BlockErrors("primary"))
              rowKept == Survivors(score, RowErrors("primary"))
          IN  /\ survivors' = Append(survivors, Cardinality(kept))
              /\ per_row_survivors' = Append(per_row_survivors, Cardinality(rowKept))
              /\ soundness_failures' =
                     soundness_failures + Cardinality(Best(Rows, truth, k) \ kept)
    /\ UNCHANGED <<phase, encoding, replacement, k, budgets, scans, primary_violations, outcomes>>

FinishPrune ==
    /\ phase = "pruning" /\ Len(survivors) = QueryCount
    /\ phase' = "pruned"
    /\ UNCHANGED <<encoding, replacement, k, budgets, survivors, per_row_survivors,
                   soundness_failures, scans, primary_violations, outcomes>>

Measure(list) ==
    /\ phase = "prepared"
    /\ phase' = IF list = <<>> THEN "NoBudgets" ELSE "scanning"
    /\ budgets' = list
    /\ UNCHANGED <<encoding, replacement, k, survivors, per_row_survivors, soundness_failures,
                   scans, primary_violations, outcomes>>

(* The timed scan reads the codes from the layout, and the certified scores of *)
(* the block must be the same.                                                 *)
Scanned(truth, primary, refined) ==
    IF \E filled \in replacement, r \in Rows : primary[r] # filled
    THEN /\ phase' = "ServingScoreMismatch"
         /\ UNCHANGED <<scans, primary_violations>>
    ELSE /\ scans' = Append(scans, [truth |-> truth, primary |-> primary, refined |-> refined])
         /\ primary_violations' = primary_violations
                + Cardinality(Violations(Rows, primary, truth, "primary"))
         /\ UNCHANGED phase

ScanQuery ==
    /\ phase = "scanning" /\ Len(scans) < QueryCount
    /\ \E truth \in Truths :
          \E primary \in Estimates(truth, "primary"), refined \in Estimates(truth, "refined") :
              Scanned(truth, primary, refined)
    /\ UNCHANGED <<encoding, replacement, k, budgets, survivors, per_row_survivors,
                   soundness_failures, outcomes>>

StartRerank ==
    /\ phase = "scanning" /\ Len(scans) = QueryCount
    /\ phase' = "reranking"
    /\ UNCHANGED <<encoding, replacement, k, budgets, survivors, per_row_survivors,
                   soundness_failures, scans, primary_violations, outcomes>>

(* rerank_candidates on the rows a budget admits, then recall_at: the exact    *)
(* rows of that depth which the refined ranking of the candidates returns.     *)
Candidates(scan, rows) == Best(Rows, scan.primary, rows)
Found(scan, rows, depth) ==
    Best(Rows, scan.truth, depth) \cap Best(Candidates(scan, rows), scan.refined, depth)

Hits(rows, depth) == [i \in DOMAIN scans |-> Cardinality(Found(scans[i], rows, depth))]

RerankBudget ==
    /\ phase = "reranking" /\ Len(outcomes) < Len(budgets)
    /\ LET budget == budgets[Len(outcomes) + 1]
           rows == Least(budget, RowCount)
       IN  IF rows = 0
           THEN phase' = "ZeroBudget" /\ UNCHANGED outcomes
           ELSE /\ outcomes' = Append(outcomes,
                      [budget |-> budget, near |-> Hits(rows, Near), far |-> Hits(rows, Far),
                       refined_violations |-> Cardinality({p \in (DOMAIN scans) \X Rows :
                           p[2] \in Violations(Candidates(scans[p[1]], rows), scans[p[1]].refined,
                                              scans[p[1]].truth, "refined")})])
                /\ UNCHANGED phase
    /\ UNCHANGED <<encoding, replacement, k, budgets, survivors, per_row_survivors,
                   soundness_failures, scans, primary_violations>>

Publish ==
    /\ phase = "reranking" /\ Len(outcomes) = Len(budgets)
    /\ phase' = "published"
    /\ UNCHANGED <<encoding, replacement, k, budgets, survivors, per_row_survivors,
                   soundness_failures, scans, primary_violations, outcomes>>

Next ==
    \/ \E calibrated \in BOOLEAN, e \in Encodings, filled \in {{}} \cup {{z} : z \in Scores} :
           Prepare(calibrated, e, filled)
    \/ \E n \in Ks : MeasurePrune(n)
    \/ PruneQuery \/ FinishPrune
    \/ \E list \in BudgetLists : Measure(list)
    \/ ScanQuery \/ StartRerank \/ RerankBudget \/ Publish

Spec == Init /\ [][Next]_vars

-------------------------------------------------------------------------------
(* No measurement has anything to refuse publication for: no row of the true   *)
(* top k is ever pruned, on a tie at the threshold either, and no true score   *)
(* leaves the bounds of the scan or of a rerank (soundness_failures,           *)
(* primary_ and refined_bound_violation_count of harness.rs).                  *)
BoundsSound ==
    /\ soundness_failures = 0
    /\ primary_violations = 0
    /\ \A i \in DOMAIN outcomes : outcomes[i].refined_violations = 0

(* A certificate of its own never leaves more rows to refine than the          *)
(* certificate of the block does, although it moves the threshold of all rows; *)
(* and what is left always fills an answer of k (the per-row lever of          *)
(* measure_prune).                                                             *)
SurvivorsBracketed ==
    \A i \in DOMAIN survivors :
        /\ Least(k, RowCount) <= per_row_survivors[i]
        /\ per_row_survivors[i] <= survivors[i]
===============================================================================
