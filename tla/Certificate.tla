----------------------------- MODULE Certificate ------------------------------
(* The error certificates of spherra-codec (certificate.rs) and their use by   *)
(* an opened index (spherra/certified.rs): one enumeration of a block's rows   *)
(* yields the worst reconstruction error of each kind of score, and a score    *)
(* becomes an interval around the true dot product of the original vectors.    *)
(* The arithmetic is floating point of Precision bits over the integers, so    *)
(* that a rounding can be seen: the code's unit length 1 is One, and a raw     *)
(* score counts steps of Quantum. The rotation of the transform keeps lengths  *)
(* and dot products, so it is the identity here, and what remains of it is an  *)
(* error of at most Delta: an original is a row already brought to length One. *)
(* The rounding of long sums inside a scorer, and the terms of the certificate *)
(* that cover it, are left out.                                                *)
EXTENDS Integers, Sequences, FiniteSetsExt, SequencesExt

CONSTANTS
    Precision,        \* bits of a significand: 53
    Dimension,        \* coordinates of a vector: 768
    One,              \* the length of a normalized vector
    Delta,            \* transform_delta
    Quantum,          \* one step of the comparison scale
    LargestEntry,     \* of a lookup table, in steps: MAX_ABSOLUTE_TABLE_ENTRY
    Models,           \* transform, quantizer, codebook and scorer: a provenance
    PrimaryVector,    \* what each model decodes a direct code to
    ResidualVector,   \* and a residual code
    Blocks,           \* the enumerations that may be made, by capability
    Labels,           \* the identities callers give their blocks
    RowLists,         \* the rows callers pass: [row, original, transformed, codes]
    Queries           \* the original and the transformed query

ASSUME CertificateAssumption ==
    /\ Precision \in Nat \ {0, 1} /\ Dimension \in Nat \ {0}
    /\ One \in Nat /\ Delta \in Nat /\ Quantum \in Nat \ {0} /\ LargestEntry \in Nat

VARIABLES
    blocks,         \* the checked enumerations
    certificates,   \* one per block once it is built
    query,          \* the prepared query
    certified,      \* the last certified score
    interval,       \* the last interval
    outcome         \* of the last call

certificateVars == <<blocks, certificates, query, certified, interval, outcome>>

None == [none |-> TRUE]
Coordinates == 1..Dimension
Vector == [Coordinates -> Int]

-------------------------------------------------------------------------------
(* Floating point: nearest, ties to even, without underflow.                   *)
AbsInt(n) == IF n < 0 THEN -n ELSE n
PowerOf2[n \in Nat] == IF n = 0 THEN 1 ELSE 2 * PowerOf2[n - 1]
Significands == PowerOf2[Precision]
Spacing[n \in Nat] == IF n < Significands THEN 1 ELSE 2 * Spacing[n \div 2]
Ulp(n) == Spacing[AbsInt(n)]
Nearest(a, ulp) ==
    LET below == (a \div ulp) * ulp
        rest == 2 * (a - below)
        up == rest > ulp \/ (rest = ulp /\ (below \div ulp) % 2 = 1)
    IN  IF up THEN below + ulp ELSE below
Round(n) == IF n < 0 THEN -Nearest(AbsInt(n), Ulp(n)) ELSE Nearest(AbsInt(n), Ulp(n))

(* next_up, next_down                                                          *)
NextUp(n) == IF n >= 0 THEN n + Ulp(n) ELSE n + Ulp(n + 1)
NextDown(n) == -NextUp(-n)

UpwardAdd(a, b) == NextUp(Round(a + b))
UpwardMul(a, b) == NextUp(Round(a * b))
RoundedSqrt(n) == CHOOSE r \in 0..n : (2 * r - 1) * AbsInt(2 * r - 1) <= 4 * n /\ 4 * n < (2 * r + 1) * (2 * r + 1)
UpwardSqrt(n) == NextUp(Round(RoundedSqrt(n)))

(* two_sum: the rounded sum, and what the rounding lost.                       *)
TwoSum(left, right) ==
    LET sum == Round(left + right)
        rightVirtual == Round(sum - left)
        leftLost == Round(left - Round(sum - rightVirtual))
        rightLost == Round(right - rightVirtual)
    IN  <<sum, Round(leftLost + rightLost)>>

(* outward_absolute_difference                                                 *)
OutwardDifference(a, b) ==
    LET d == TwoSum(a, -b) IN UpwardAdd(AbsInt(d[1]), AbsInt(d[2]))

(* outward_absolute_refined_difference                                         *)
OutwardRefinedDifference(a, p, e) ==
    LET reconstruction == TwoSum(p, e)
        d == TwoSum(a, -reconstruction[1])
    IN  UpwardAdd(UpwardAdd(AbsInt(d[1]), AbsInt(d[2])), AbsInt(reconstruction[2]))

(* An upper bound on a length, from upper bounds on its coordinates.           *)
OutwardL2(difference) ==
    LET squares[c \in 0..Dimension] ==
            IF c = 0 THEN 0
            ELSE UpwardAdd(squares[c - 1], UpwardMul(difference[c], difference[c]))
    IN  UpwardSqrt(squares[Dimension])

(* The exact sum over all coordinates.                                         *)
Total(values) ==
    LET sum[c \in 0..Dimension] == IF c = 0 THEN 0 ELSE sum[c - 1] + values[c]
    IN  sum[Dimension]
Dot(a, b) == Total([c \in Coordinates |-> a[c] * b[c]])

-------------------------------------------------------------------------------
(* Vectors the program can hold: a direction has length One unless it is zero, *)
(* the transform moves it by Delta at most, and what enters the arithmetic is  *)
(* a floating-point number.                                                    *)
FloatVector == {v \in Vector : \A c \in Coordinates : Round(v[c]) = v[c]}
Carried(direction) ==
    /\ direction.original \in Vector
    /\ \/ \A c \in Coordinates : direction.original[c] = 0
       \/ Dot(direction.original, direction.original) = One * One
    /\ direction.transformed \in FloatVector
    /\ LET moved == [c \in Coordinates |-> direction.transformed[c] - direction.original[c]]
       IN  Dot(moved, moved) <= Delta * Delta

ASSUME VectorsAssumption ==
    /\ \A q \in Queries : Carried(q)
    /\ \A model \in Models :
           /\ \A code \in DOMAIN PrimaryVector[model] : PrimaryVector[model][code] \in FloatVector
           /\ \A code \in DOMAIN ResidualVector[model] : ResidualVector[model][code] \in FloatVector
    /\ \A list \in RowLists :
           /\ Len(list) \in Nat /\ DOMAIN list = 1..Len(list)
           /\ \A i \in DOMAIN list :
                  /\ list[i].row \in Nat /\ Carried(list[i])
                  /\ \A model \in Models : /\ list[i].primary \in DOMAIN PrimaryVector[model]
                                           /\ list[i].residual \in DOMAIN ResidualVector[model]

-------------------------------------------------------------------------------
(* The rows by number, those of one number as they came.                       *)
Sortings(list) ==
    {[i \in DOMAIN list |-> list[p[i]]] : p \in {p \in Bijection(DOMAIN list, DOMAIN list) :
        \A i, j \in DOMAIN list : i < j =>
            \/ list[p[i]].row < list[p[j]].row
            \/ list[p[i]].row = list[p[j]].row /\ p[i] < p[j]}}

(* ExhaustiveBlock::from_rows, on sorted rows: the first row that is not the   *)
(* one its place asks for decides the error.                                   *)
RowsError(declared, list) ==
    IF declared = 0 THEN "EmptyBlock"
    ELSE IF Len(list) # declared THEN "RowCountMismatch"
    ELSE LET wrong == {i \in 1..declared : list[i].row >= declared \/ list[i].row # i - 1}
             first == list[Min(wrong)].row
         IN  IF wrong = {} THEN "ok"
             ELSE IF first >= declared THEN "RowOutOfRange"
             ELSE IF first < Min(wrong) - 1 THEN "DuplicateRow" ELSE "MissingRow"

(* normalize_fp64: a vector of zeros cannot be normalized.                     *)
NoDirection(vector) == \A c \in Coordinates : vector[c] = 0

Decode(model, row) == [primary |-> PrimaryVector[model][row.primary],
                       residual |-> ResidualVector[model][row.residual]]

PrimaryError(model, row) ==
    LET p == Decode(model, row).primary
    IN  UpwardAdd(OutwardL2([c \in Coordinates |-> OutwardDifference(row.transformed[c], p[c])]),
                  Delta)

RefinedError(model, row) ==
    LET p == Decode(model, row).primary
        e == Decode(model, row).residual
    IN  UpwardAdd(OutwardL2([c \in Coordinates |->
                     OutwardRefinedDifference(row.transformed[c], p[c], e[c])]), Delta)

QueryNormUpper == UpwardAdd(One, Delta)
EtaTransformDot == UpwardAdd(UpwardMul(2 * One, Delta), UpwardMul(Delta, Delta))

PrimaryTerms == Dimension
RefinedTerms == PrimaryTerms + 1

(* serving_error: every term of a score is rounded by half a step at most, and *)
(* its conversion to floating point by half a unit in its last place.          *)
LargestScore == RefinedTerms * LargestEntry * Quantum
ServingError(terms) == UpwardAdd(UpwardMul(terms, Quantum \div 2), Ulp(LargestScore) \div 2)

(* epsilon                                                                     *)
Epsilon(error, serving) ==
    UpwardAdd(UpwardAdd(EtaTransformDot, UpwardMul(QueryNormUpper, error)), serving)

Terms(error, serving) ==
    [error |-> error, eta_transform_dot |-> EtaTransformDot, query_norm_upper |-> QueryNormUpper,
     serving |-> serving, epsilon |-> Epsilon(error, serving)]

(* build_exhaustive_certificate: the worst row decides for the whole block.    *)
ErrorCertificates(model, rows) ==
    [primary |-> Terms(Max({PrimaryError(model, rows[i]) : i \in DOMAIN rows}), ServingError(PrimaryTerms)),
     refined |-> Terms(Max({RefinedError(model, rows[i]) : i \in DOMAIN rows}), ServingError(RefinedTerms))]

(* validate_certificate_terms: what can be derived again must agree.           *)
ValidTerms(terms) ==
    /\ \A field \in DOMAIN terms : terms[field] >= 0
    /\ terms.eta_transform_dot = EtaTransformDot
    /\ terms.query_norm_upper = QueryNormUpper
    /\ terms.epsilon = Epsilon(terms.error, terms.serving)

-------------------------------------------------------------------------------
(* quantize_lookup: the nearest step, halves away from zero.                   *)
Step(value) ==
    LET steps == (2 * AbsInt(value) + Quantum) \div (2 * Quantum)
    IN  IF value < 0 THEN -steps ELSE steps

(* score_primary: the quantized products of the coordinates.                   *)
PrimaryRaw(q, p) == Total([c \in Coordinates |-> Step(q[c] * p[c])])

(* score_prepared_candidate: the primary score and one quantized product for   *)
(* each subquantizer, here the only one.                                       *)
RefinedRaw(q, p, e) == PrimaryRaw(q, p) + Step(Dot(q, e))

(* The tables of a query hold entries of every code, each within its limit.    *)
TablesFit(q, model) ==
    /\ \A code \in DOMAIN PrimaryVector[model], c \in Coordinates :
           AbsInt(Step(q[c] * PrimaryVector[model][code][c])) <= LargestEntry
    /\ \A code \in DOMAIN ResidualVector[model] :
           AbsInt(Step(Dot(q, ResidualVector[model][code]))) <= LargestEntry

AsFloat(raw) == Round(raw * Quantum)

(* ErrorCertificate::bounds, ValidatedTerms::arithmetic_interval               *)
Bounds(terms, raw) ==
    [lower |-> NextDown(Round(AsFloat(raw) - terms.epsilon)),
     upper |-> NextUp(Round(AsFloat(raw) + terms.epsilon))]

(* The true score: of the originals, in exact arithmetic.                      *)
Truth(q, row) == Dot(q.original, row.original)

-------------------------------------------------------------------------------
CertificateInit ==
    /\ blocks = [b \in Blocks |-> None]
    /\ certificates = [b \in Blocks |-> None]
    /\ query = None /\ certified = None /\ interval = None
    /\ outcome = "ok"

(* from_rows: a new capability for every enumeration that passes.              *)
Enumerate(b, label, declared, list) ==
    /\ blocks[b] = None
    /\ \E rows \in Sortings(list) :
           /\ outcome' = RowsError(declared, rows)
           /\ blocks' = IF outcome' = "ok"
                        THEN [blocks EXCEPT ![b] = [label |-> label, rows |-> rows]]
                        ELSE blocks
    /\ UNCHANGED <<certificates, query, certified, interval>>

(* build_exhaustive_certificate: no certificate for a block with such a row.   *)
Build(b, model) ==
    /\ blocks[b] # None /\ certificates[b] = None
    /\ LET unusable == \E row \in ToSet(blocks[b].rows) : NoDirection(row.original)
       IN  /\ outcome' = IF unusable THEN "InvalidOriginal" ELSE "ok"
           /\ certificates' = IF unusable THEN certificates
                              ELSE [certificates EXCEPT ![b] =
                 [model |-> model, errors |-> ErrorCertificates(model, blocks[b].rows)]]
    /\ UNCHANGED <<blocks, query, certified, interval>>

PrepareQuery(q, model) ==
    /\ query = None
    /\ outcome' = IF NoDirection(q.original) THEN "ZeroNorm"
                  ELSE IF ~TablesFit(q.transformed, model) THEN "LookupOutOfRange" ELSE "ok"
    /\ query' = IF outcome' # "ok" THEN query
                ELSE [original |-> q.original, transformed |-> q.transformed, model |-> model]
    /\ UNCHANGED <<blocks, certificates, certified, interval>>

(* Seeded fault: blocks are told apart by the label their caller gave them.    *)
SameLabel(a, b) == blocks[a].label = blocks[b].label

(* Arc::ptr_eq of two capabilities.                                            *)
SameCapability(a, b) == a = b

(* validate_candidate                                                          *)
CandidateError(cert, block) ==
    IF ~SameCapability(block, cert) THEN "BlockCapabilityMismatch"
    ELSE IF query.model # certificates[cert].model THEN "ScoreProvenanceMismatch" ELSE "ok"

(* validate_prepared_candidate, and the codebook of score_prepared_candidate:  *)
(* a prepared candidate is a row number and a residual code decoded earlier,   *)
(* by some codebook.                                                           *)
PreparedError(row, prepared) ==
    IF prepared.row # row.row THEN "PreparedCandidateRowMismatch"
    ELSE IF prepared.residual # row.residual THEN "PreparedCandidateResidualMismatch"
    ELSE IF prepared.model # query.model THEN "PreparedCandidateRejected" ELSE "ok"

Certified(cert, block, row, kind, raw) ==
    [capability |-> cert, block |-> block, row |-> row.row, kind |-> kind, raw |-> raw,
     provenance |-> query.model]

(* score_primary of one certificate for a candidate some block minted.         *)
ScorePrimary(cert, block, row) ==
    /\ certificates[cert] # None /\ query # None /\ certified = None
    /\ outcome' = CandidateError(cert, block)
    /\ certified' = IF outcome' = "ok"
                THEN Certified(cert, block, row, "Primary",
                       PrimaryRaw(query.transformed, Decode(query.model, row).primary))
                ELSE certified
    /\ UNCHANGED <<blocks, certificates, query, interval>>

ScoreRefined(cert, block, row, prepared) ==
    /\ certificates[cert] # None /\ query # None /\ certified = None
    /\ outcome' = IF CandidateError(cert, block) # "ok" THEN CandidateError(cert, block)
                  ELSE PreparedError(row, prepared)
    /\ certified' = IF outcome' = "ok"
                THEN Certified(cert, block, row, "Refined",
                       RefinedRaw(query.transformed, Decode(query.model, row).primary,
                                  ResidualVector[prepared.model][prepared.residual]))
                ELSE certified
    /\ UNCHANGED <<blocks, certificates, query, interval>>

(* validate_certified_score                                                    *)
ScoreError(cert, kind) ==
    IF ~SameCapability(certified.capability, cert) THEN "BlockCapabilityMismatch"
    ELSE IF certified.provenance # certificates[cert].model THEN "ScoreProvenanceMismatch"
    ELSE IF certified.kind # kind THEN "ScoreKindMismatch" ELSE "ok"

TermsOf(cert, kind) ==
    IF kind = "Primary" THEN certificates[cert].errors.primary ELSE certificates[cert].errors.refined

(* primary_bounds, refined_bounds                                              *)
GiveBounds(cert, kind) ==
    /\ certificates[cert] # None /\ certified # None /\ interval = None
    /\ outcome' = ScoreError(cert, kind)
    /\ interval' = IF outcome' = "ok"
                   THEN [block |-> certified.block, row |-> certified.row,
                         bounds |-> Bounds(TermsOf(cert, kind), certified.raw)]
                   ELSE interval
    /\ UNCHANGED <<blocks, certificates, query, certified>>

(* BoundPair::bind, when the index opens, and BoundPair::interval for a hit:   *)
(* a segment is searched with the model it was written with, so its block, its *)
(* terms and the query belong together. The answer is what both kinds allow.   *)
ServeInterval(b, row) ==
    /\ certificates[b] # None /\ query # None /\ interval = None
    /\ query.model = certificates[b].model
    /\ LET decoded == Decode(query.model, row)
           primary == Bounds(TermsOf(b, "Primary"), PrimaryRaw(query.transformed, decoded.primary))
           refined == Bounds(TermsOf(b, "Refined"),
                             RefinedRaw(query.transformed, decoded.primary, decoded.residual))
           lower == Max({primary.lower, refined.lower})
           upper == Min({primary.upper, refined.upper})
           bindable == ValidTerms(TermsOf(b, "Primary")) /\ ValidTerms(TermsOf(b, "Refined"))
       IN  /\ outcome' = IF ~bindable THEN "InvalidTerms"
                         ELSE IF lower > upper THEN "EmptyIntersection" ELSE "ok"
           /\ interval' = IF outcome' = "ok"
                          THEN [block |-> b, row |-> row.row,
                                bounds |-> [lower |-> lower, upper |-> upper]]
                          ELSE interval
    /\ UNCHANGED <<blocks, certificates, query, certified>>

RowsOf(b) == IF blocks[b] = None THEN {} ELSE ToSet(blocks[b].rows)

Prepared(row, model) == [row |-> row.row, residual |-> row.residual, model |-> model]

CertificateNext ==
    \/ \E b \in Blocks, label \in Labels, declared \in 0..2, list \in RowLists :
           Enumerate(b, label, declared, list)
    \/ \E b \in Blocks, model \in Models : Build(b, model)
    \/ \E q \in Queries, model \in Models : PrepareQuery(q, model)
    \/ \E cert, b \in Blocks : \E row \in RowsOf(b) :
           \/ ScorePrimary(cert, b, row)
           \/ \E other \in Blocks, model \in Models : \E r \in RowsOf(other) :
                  ScoreRefined(cert, b, row, Prepared(r, model))
    \/ \E cert \in Blocks, kind \in {"Primary", "Refined"} : GiveBounds(cert, kind)
    \/ \E b \in Blocks : \E row \in RowsOf(b) : ServeInterval(b, row)

CertificateSpec == CertificateInit /\ [][CertificateNext]_certificateVars

-------------------------------------------------------------------------------
(* Whatever candidates, scores, prepared residuals and certificates a caller   *)
(* mixes, from blocks with one label and from several models, the interval he  *)
(* gets for a row number holds the true score of the vector he stored under    *)
(* that number; and an opened index never finds the two intervals of a hit     *)
(* apart, nor the terms that were stored invalid (certificate.rs, certified.rs)*)
IntervalsHoldTruth ==
    /\ interval # None =>
        \A row \in RowsOf(interval.block) : row.row = interval.row =>
            /\ interval.bounds.lower <= Truth(query, row)
            /\ Truth(query, row) <= interval.bounds.upper
    /\ outcome \notin {"EmptyIntersection", "InvalidTerms"}

===============================================================================
