---------------------------- MODULE ModelTraining -----------------------------
(* The model of an index (model.rs): trained once when the index is created,   *)
(* written to a file, read back by every open and append. Training splits the  *)
(* caller's rows, takes quantiles of the training part as the int4 centers     *)
(* (int4.rs), trains the residual codebook on what the centers leave           *)
(* (Pq96Training) and measures a drift baseline on the validation part.        *)
(* A row is one coordinate, already transformed; identities are hashes, so two *)
(* agree only when what they identify does.                                    *)
EXTENDS Pq96Training

CONSTANTS
    TrainingRows,     \* what callers pass to create: sequences of values
    ValidationRows,   \* the sizes of the validation part they ask for
    HashOrders,       \* the orders the seeded hash may give the rows
    Centers           \* CENTERS_PER_COORDINATE, 16 in the code

ASSUME ModelAssumption ==
    /\ Centers \in Nat \ {0, 1}
    /\ ValidationRows \subseteq Nat
    /\ \A all \in TrainingRows :
        /\ all \in Seq(Values)
        /\ \A order \in HashOrders : order \in Bijection(DOMAIN all, DOMAIN all)

(* And what centers leave of the rows (Pq96Training).                          *)
ASSUME RowsAssumption ==
    \A all \in TrainingRows : \A row \in DOMAIN all, size \in 1..Len(all) : Num(all[row]) % size = 0

VARIABLES
    rows,        \* the caller's rows, in hash order
    validation,  \* how many of them validate
    centers,     \* the quantizer's centers
    baseline,    \* the drift baseline
    file,        \* the model file, or NoFile
    outcome      \* of the last call

modelVars == <<rows, validation, centers, baseline, file, outcome>>
vars == <<trainVars, modelVars>>

NoFile == [none |-> TRUE]

(* quantile_rank                                                               *)
QuantileRank(center, samples) == (center * (samples - 1)) \div (Centers - 1)

(* The n-th of the values when they are sorted.                                *)
Nth(values, n) ==
    LET upTo(v) == {i \in DOMAIN values : Num(values[i]) <= Num(v)}
        reached == {v \in Range(values) : Cardinality(upTo(v)) >= n}
    IN  CHOOSE v \in reached : \A w \in reached : Num(v) <= Num(w)

(* QuantizerTable::train, for one coordinate.                                  *)
TrainCenters(values) ==
    LET canonical == [i \in DOMAIN values |-> Canonical(values[i])]
    IN  [c \in 1..Centers |-> Nth(canonical, QuantileRank(c - 1, Len(values)) + 1)]

(* The subtraction of single precision: -0.0 minus a zero is -0.0.             *)
Minus(value, center) ==
    IF value = NegZero /\ center = 0 THEN NegZero ELSE Num(value) - Num(center)

(* nearest_code, and the center it decodes to.                                 *)
Decoded(value, table) == table[Nearest(value, table)]
Residual(value, table) == Minus(value, Decoded(value, table))

AbsNum(n) == IF n < 0 THEN -n ELSE n

(* Model::encode: the errors of both codes, and whether the row lies outside   *)
(* the outermost centers.                                                      *)
Stats(value) ==
    LET residual == Residual(value, centers)
        decoded == centroids[Nearest(residual, centroids)]
    IN  [primary |-> AbsNum(Num(residual)),
         refined |-> AbsNum(Num(residual) - Num(decoded)),
         outside |-> Num(value) < Num(centers[1]) \/ Num(value) > Num(centers[Centers])]

(* Nearest rank: the percentage of the samples, rounded up.                    *)
Percentile(values, percent) == Nth(values, (Len(values) * percent + 99) \div 100)

(* summarize: three percentiles of both errors, the number outside.            *)
Summary(samples) ==
    LET column(name) == [i \in DOMAIN samples |-> samples[i][name]]
        percentiles(name) == [i \in 1..3 |-> Percentile(column(name), <<50, 95, 99>>[i])]
    IN  [primary |-> percentiles("primary"), refined |-> percentiles("refined"),
         outside |-> Cardinality({i \in DOMAIN samples : samples[i].outside}), of |-> Len(samples)]

TrainingPart(all, count) == SubSeq(all, count + 1, Len(all))
Validation == SubSeq(rows, 1, validation)

(* validate_values of restore.rs, and from_centers: stored values are finite   *)
(* and canonical, centers do not decrease.                                     *)
CanonicalValues(values, length) == Len(values) = length /\ NegZero \notin ToSet(values)
Restorable(values) ==
    /\ CanonicalValues(values, Centers)
    /\ \A c \in 2..Centers : values[c] >= values[c - 1]

(* DriftBaseline::valid                                                        *)
ValidBaseline(b) ==
    /\ \A p \in {b.primary, b.refined} :
        /\ \A i \in 1..3 : p[i] >= 0
        /\ \A i \in 2..3 : p[i] >= p[i - 1]
    /\ b.outside \in 0..b.of

(* ModelFile::validate_values, which encode and decode both begin or end with. *)
ValidFile(f) ==
    /\ ValidBaseline(f.baseline)
    /\ Restorable(f.centers)
    /\ CanonicalValues(f.centroids, Centroids)

ModelFile ==
    [quantizer_id |-> centers, codebook_id |-> [c \in 1..Centroids |-> Canonical(centroids[c])],
     centers |-> centers, centroids |-> [c \in 1..Centroids |-> Canonical(centroids[c])],
     baseline |-> baseline]

-------------------------------------------------------------------------------
Init ==
    /\ TrainInit
    /\ rows = <<>> /\ validation = 0 /\ centers = <<>>
    /\ baseline = NoFile /\ file = NoFile /\ outcome = "none"

(* create's checks of the counts: the training part must fill the codebook.    *)
Refused(all, count) == count = 0 \/ Len(all) - count < Centroids

(* IndexBuilder::create until Pq96Codebook::train: the rows in hash order, the *)
(* first of them kept for validation, the quantizer trained on the others and  *)
(* the codebook begun on their residuals.                                      *)
BeginModel(all, count) ==
    /\ outcome = "none"
    /\ IF Refused(all, count)
       THEN /\ outcome' = "InvalidTraining"
            /\ UNCHANGED <<trainVars, rows, validation, centers, baseline, file>>
       ELSE /\ \E order \in HashOrders :
                rows' = [i \in DOMAIN all |-> all[order[i]]]
            /\ validation' = count
            /\ centers' = TrainCenters(TrainingPart(rows', count))
            /\ LET part == TrainingPart(rows', count)
               IN  BeginTrain([i \in DOMAIN part |-> Residual(part[i], centers')])
            /\ outcome' = "training"
            /\ UNCHANGED <<baseline, file>>

(* A caller of the codec trains a codebook alone.                              *)
TrainAlone(set) ==
    /\ outcome = "none"
    /\ BeginTrain(set)
    /\ outcome' = "alone"
    /\ UNCHANGED <<rows, validation, centers, baseline, file>>

Train == TrainStep /\ UNCHANGED modelVars

(* The rest of Model::train: the baseline from the validation part.            *)
MeasureBaseline ==
    /\ outcome = "training" /\ training = "trained"
    /\ baseline' = Summary([i \in DOMAIN Validation |-> Stats(Validation[i])])
    /\ outcome' = "measured"
    /\ UNCHANGED <<trainVars, rows, validation, centers, file>>

(* ModelFile::encode; the bytes are what later opens read.                     *)
Save ==
    /\ outcome = "measured"
    /\ IF ValidFile(ModelFile)
       THEN file' = ModelFile /\ outcome' = "saved"
       ELSE file' = file /\ outcome' = "ModelValues"
    /\ UNCHANGED <<trainVars, rows, validation, centers, baseline>>

(* ModelFile::decode and Model::restore, of the identities too: they are       *)
(* derived again from the tables.                                              *)
Restore ==
    /\ outcome = "saved"
    /\ outcome' = CASE ~ValidFile(file) -> "ModelValues"
                    [] file.quantizer_id # file.centers
                       \/ file.codebook_id # file.centroids -> "IdentityMismatch"
                    [] OTHER -> "restored"
    /\ UNCHANGED <<trainVars, rows, validation, centers, baseline, file>>

Next ==
    \/ \E all \in TrainingRows, count \in ValidationRows : BeginModel(all, count)
    \/ \E set \in ResidualSets : TrainAlone(set)
    \/ Train \/ MeasureBaseline \/ Save \/ Restore

Spec == Init /\ [][Next]_vars

-------------------------------------------------------------------------------
(* What training makes, every check on the way to a served index accepts: the  *)
(* file is written, and reading it back ends in a model. One value of zero     *)
(* with its sign, one center out of order or one percentile above the next     *)
(* would lose a training of minutes, or an index that was just created.        *)
TrainedModelRestores == outcome \notin {"ModelValues", "IdentityMismatch"}
===============================================================================
