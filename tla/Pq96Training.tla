----------------------------- MODULE Pq96Training -----------------------------
(* How spherra-codec trains one subquantizer of the residual codebook          *)
(* (pq96.rs): seeds drawn one by one, each from the rows the earlier ones      *)
(* represent worst, then Lloyd iterations that assign every row to its nearest *)
(* centroid and move every centroid, an empty one to the worst row.            *)
(* A subvector is one number. The 96 subquantizers are trained alone, each     *)
(* with a seed of its own, so one stands for all. Residuals are multiples of a *)
(* number every cluster size divides, so a mean is exact: what single          *)
(* precision rounds away is not a question asked here.                         *)
EXTENDS Integers, Sequences, FiniteSetsExt, SequencesExt, Functions

CONSTANTS
    ResidualSets,     \* the sequences of residuals Pq96Codebook::train may get
    NegZero,          \* the single-precision value -0.0
    Centroids,        \* 256 in the code
    LloydIterations   \* 25 in the code: the bound on the iterations

Values == Int \cup {NegZero}

ASSUME TrainingAssumption ==
    /\ ResidualSets \subseteq Seq(Values)
    /\ Centroids \in Nat \ {0}
    /\ LloydIterations \in Nat \ {0}
    /\ NegZero \notin Int

VARIABLES
    training,     \* where train stands
    residuals,    \* the subvectors it was given
    seeds,        \* the rows selected so far, in order
    minimums,     \* every row's squared distance to its nearest seed but the last
    centroids,
    assignments,  \* the centroid of each row, 0 before the first iteration
    errors,       \* the squared error of each row in this iteration
    moved,        \* assignments_changed or centroids_changed
    next,         \* the next centroid to update
    reseeded,     \* the rows that replaced a centroid in this iteration
    iteration

trainVars == <<training, residuals, seeds, minimums, centroids, assignments,
               errors, moved, next, reseeded, iteration>>

Infinity == 1000000000

(* The number a value stands for: -0.0 is a zero that is not canonical.        *)
Num(value) == IF value = NegZero THEN 0 ELSE value

(* Every cluster size divides every residual.                                  *)
ASSUME ResidualsAssumption ==
    \A set \in ResidualSets : \A row \in DOMAIN set, size \in 1..Len(set) : Num(set[row]) % size = 0

(* Seeded fault: a zero keeps its sign.                                        *)
KeepsSign(value) == value

(* canonicalize_zero                                                           *)
Canonical(value) == IF value = NegZero THEN 0 ELSE value

Square(n) == n * n

(* The first index of the least value: a later one wins only if strictly less. *)
FirstLeast(f) ==
    CHOOSE i \in DOMAIN f :
        \A j \in DOMAIN f : f[i] < f[j] \/ (f[i] = f[j] /\ i <= j)

Distances(value, points) ==
    [c \in DOMAIN points |-> Square(Num(value) - Num(points[c]))]

Nearest(value, points) == FirstLeast(Distances(value, points))

Rows == DOMAIN residuals
Subvector(row) == Canonical(residuals[row])

(* The sums of the first values, one after the other.                          *)
PartialSums(f) ==
    LET sum[i \in 0..Len(f)] == IF i = 0 THEN 0 ELSE sum[i - 1] + f[i]
    IN  sum

Total(f) == PartialSums(f)[Len(f)]

(* Seeded fault: the row at which the sum reaches the threshold is taken.      *)
WeightedRowReached(weights, threshold) ==
    CHOOSE row \in DOMAIN weights :
        /\ PartialSums(weights)[row] >= threshold
        /\ \A r \in 1..(row - 1) : PartialSums(weights)[r] < threshold

(* weighted_row: the first row whose cumulative error exceeds the threshold,   *)
(* else the last with an error.                                                *)
WeightedRow(weights, threshold) ==
    LET over == {row \in DOMAIN weights : PartialSums(weights)[row] > threshold}
    IN  IF over # {} THEN Min(over) ELSE Max({row \in DOMAIN weights : weights[row] > 0})

(* The draws that tell rows apart: the threshold is a fraction below one of    *)
(* the total, and between two partial sums every threshold selects alike.      *)
Thresholds(weights) ==
    {PartialSums(weights)[row] : row \in 0..(Len(weights) - 1)}

-------------------------------------------------------------------------------
TrainInit ==
    /\ training = "idle"
    /\ residuals = <<>> /\ seeds = <<>> /\ minimums = <<>>
    /\ centroids = <<>> /\ assignments = <<>> /\ errors = <<>>
    /\ moved = FALSE /\ next = 1 /\ reseeded = {} /\ iteration = 0

(* train, validate_calibration_residuals: too few rows are refused. The first  *)
(* centroid is any row (uniform_index).                                        *)
BeginTrain(rows) ==
    /\ training = "idle"
    /\ residuals' = rows
    /\ IF Len(rows) < Centroids
       THEN /\ training' = "refused"
            /\ UNCHANGED <<seeds, minimums, centroids>>
       ELSE /\ training' = "seeding"
            /\ \E first \in DOMAIN rows :
                /\ seeds' = <<first>>
                /\ centroids' = <<Canonical(rows[first])>>
            /\ minimums' = [row \in DOMAIN rows |-> Infinity]
    /\ UNCHANGED <<assignments, errors, moved, next, reseeded, iteration>>

(* The minima with the last seed counted in.                                   *)
Closeness ==
    [row \in Rows |-> Min({minimums[row], Square(Num(residuals[row]) - Num(Last(centroids)))})]

(* The candidates for the next seed: the first row not selected when every row *)
(* is a seed's equal, else a draw weighted by the squared errors.              *)
NextSeeds ==
    IF Total(Closeness) = 0
    THEN {Min(Rows \ ToSet(seeds))}
    ELSE {WeightedRow(Closeness, t) : t \in Thresholds(Closeness)}

(* One turn of the loop of initialize_centroids.                               *)
SelectSeed ==
    /\ training = "seeding"
    /\ IF Len(seeds) = Centroids
       THEN /\ training' = "assign"
            /\ assignments' = [row \in Rows |-> 0]
            /\ UNCHANGED <<seeds, minimums, centroids>>
       ELSE /\ minimums' = Closeness
            /\ \E row \in NextSeeds :
                /\ seeds' = Append(seeds, row)
                /\ centroids' = Append(centroids, Subvector(row))
            /\ UNCHANGED <<training, assignments>>
    /\ UNCHANGED <<residuals, errors, moved, next, reseeded, iteration>>

(* Every row to its nearest centroid.                                          *)
Assign ==
    /\ training = "assign"
    /\ LET nearest == [row \in Rows |-> Nearest(residuals[row], centroids)]
       IN  /\ assignments' = nearest
           /\ errors' = [row \in Rows |-> Distances(residuals[row], centroids)[nearest[row]]]
           /\ moved' = (nearest # assignments)
    /\ training' = "update"
    /\ next' = 1
    /\ reseeded' = {}
    /\ iteration' = iteration + 1
    /\ UNCHANGED <<residuals, seeds, minimums, centroids>>

Members(centroid) == {row \in Rows : assignments[row] = centroid}

(* largest_error_row, among the rows no centroid took in this iteration.       *)
LargestError == FirstLeast([row \in Rows \ reseeded |-> -errors[row]])

(* The sums of an assignment.                                                  *)
SumOver(members) == Total([row \in Rows |-> IF row \in members THEN Num(residuals[row]) ELSE 0])

(* Seeded fault: the sum is divided by the number of all rows.                 *)
MeanOverAll(members) == Canonical(SumOver(members) \div Len(residuals))

Mean(members) == Canonical(SumOver(members) \div Cardinality(members))

(* Seeded fault: only the last centroid's move is remembered.                  *)
LastMove(target) ==
    /\ centroids' = [centroids EXCEPT ![next] = target]
    /\ moved' = (centroids[next] # target)
    /\ next' = next + 1
    /\ UNCHANGED <<training, residuals, seeds, minimums, assignments, errors, iteration>>

(* One centroid set, and whether it differs from the one it replaces.          *)
Move(target) ==
    /\ centroids' = [centroids EXCEPT ![next] = target]
    /\ moved' = (moved \/ centroids[next] # target)
    /\ next' = next + 1
    /\ UNCHANGED <<training, residuals, seeds, minimums, assignments, errors, iteration>>

Reseed ==
    /\ training = "update" /\ next <= Centroids
    /\ Members(next) = {}
    /\ reseeded' = reseeded \cup {LargestError}
    /\ Move(Subvector(LargestError))

Recenter ==
    /\ training = "update" /\ next <= Centroids
    /\ Members(next) # {}
    /\ UNCHANGED reseeded
    /\ Move(Mean(Members(next)))

(* lloyd_iteration_has_converged                                               *)
Converged == ~moved

EndIteration ==
    /\ training = "update" /\ next > Centroids
    /\ training' = IF Converged \/ iteration = LloydIterations THEN "trained" ELSE "assign"
    /\ UNCHANGED <<residuals, seeds, minimums, centroids, assignments, errors,
                   moved, next, reseeded, iteration>>

TrainStep == SelectSeed \/ Assign \/ Reseed \/ Recenter \/ EndIteration

-------------------------------------------------------------------------------
(* No row is selected twice, whichever branch of initialize_centroids selected *)
(* it: the strict comparison of weighted_row passes over the rows whose error  *)
(* is zero, the seeds among them, and the other branch skips them by name.     *)
SeedsDistinct == IsInjective(seeds)

(* An iteration never represents the rows worse than the one before, though    *)
(* reseeding and recentering work from errors measured before either: every    *)
(* row's squared error is summed over the subquantizer.                        *)
ErrorNeverGrows ==
    [][training = "assign" /\ iteration > 0 => Total(errors') <= Total(errors)]_trainVars

(* A training that stops before the last iteration stopped where another       *)
(* iteration would change nothing: the centroids are the means of the rows     *)
(* nearest to them, and an empty one is its own replacement.                   *)
StopsAtFixpoint ==
    training = "trained" /\ iteration < LloydIterations =>
        /\ \A row \in Rows : Nearest(residuals[row], centroids) = assignments[row]
        /\ \A c \in 1..Centroids : Members(c) # {} => centroids[c] = Mean(Members(c))
        /\ \A c \in 1..Centroids : Members(c) = {} => \E row \in reseeded : centroids[c] = Subvector(row)
===============================================================================
