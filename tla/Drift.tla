--------------------------------- MODULE Drift ---------------------------------
(* Drift statistics of a commit (drift.rs, builder.rs): the builder opens with *)
(* the model that was trained and read back (ModelTraining), and every staged  *)
(* segment adds the errors of its rows to a bounded sample, a heap that evicts *)
(* the row of greatest priority. The commit reports on the sample.             *)
EXTENDS ModelTraining

CONSTANTS
    PushedSegments,     \* the rows callers push between two stagings
    MostRows,           \* a bound on the rows of a commit
    Priorities,         \* the order in which the hash of (row, index id) puts rows
    Capacity,           \* CAPACITY, 65536 in the code
    SufficientSample    \* 1000 in the code

ASSUME DriftAssumption ==
    /\ Capacity \in Nat \ {0} /\ SufficientSample \in Nat /\ MostRows \in Nat
    /\ PushedSegments \subseteq Seq(Values)
    /\ \A p \in Priorities, row \in 0..(MostRows - 1) : p[row] \in Int

VARIABLES
    priority,       \* of this index
    pushed,         \* the rows staged by this builder, in order
    sample,         \* the heap: [row, stats]
    count, exceeded,
    report          \* the drift report of the commit

driftVars == <<priority, pushed, sample, count, exceeded, report>>
allVars == <<vars, driftVars>>

NoReport == [none |-> TRUE]

Greater(a, b) == priority[a.row] > priority[b.row]
                 \/ (priority[a.row] = priority[b.row] /\ a.row > b.row)

Worst(heap) == CHOOSE s \in heap : \A t \in heap \ {s} : Greater(s, t)

(* Seeded fault: a full heap makes room for every row.                         *)
AddAlways(heap, s) ==
    IF Cardinality(heap) < Capacity THEN heap \cup {s}
    ELSE (heap \ {Worst(heap)}) \cup {s}

(* DriftSample::add                                                            *)
Add(heap, s) ==
    IF Cardinality(heap) < Capacity THEN heap \cup {s}
    ELSE IF Greater(Worst(heap), s) THEN (heap \ {Worst(heap)}) \cup {s} ELSE heap

(* The rows of a segment, one after the other.                                 *)
AddAll(heap, list) ==
    LET after[i \in 0..Len(list)] == IF i = 0 THEN heap ELSE Add(after[i - 1], list[i])
    IN  after[Len(list)]

(* A row counts as exceeding when its refined error is above the last          *)
(* percentile of the baseline.                                                 *)
Exceeds(s) == s.stats.refined > file.baseline.refined[3]

-------------------------------------------------------------------------------
DriftInit ==
    /\ Init
    /\ priority = <<>> /\ pushed = <<>> /\ sample = {} /\ count = 0 /\ exceeded = 0
    /\ report = NoReport

(* IndexBuilder::append: a new process, with the model of the file.            *)
OpenBuilder ==
    /\ outcome = "restored"
    /\ outcome' = "building"
    /\ centers' = file.centers /\ centroids' = file.centroids
    /\ priority' \in Priorities
    /\ training' = "idle" /\ residuals' = <<>> /\ seeds' = <<>> /\ minimums' = <<>>
    /\ assignments' = <<>> /\ errors' = <<>> /\ moved' = FALSE /\ next' = 1
    /\ reseeded' = {} /\ iteration' = 0
    /\ rows' = <<>> /\ validation' = 0 /\ baseline' = NoFile
    /\ UNCHANGED <<file, pushed, sample, count, exceeded, report>>

(* stage_segment: the rows of the segment, one after the other.                *)
StageSegment(values) ==
    /\ outcome = "building" /\ Len(pushed) + Len(values) <= MostRows
    /\ LET first == Len(pushed)
           added == [i \in DOMAIN values |-> [row |-> first + i - 1, stats |-> Stats(values[i])]]
       IN  /\ sample' = AddAll(sample, added)
           /\ count' = count + Len(values)
           /\ exceeded' = exceeded + Cardinality({i \in DOMAIN added : Exceeds(added[i])})
    /\ pushed' = pushed \o values
    /\ UNCHANGED <<vars, priority, report>>

(* DriftSample::report, when the commit has been published.                    *)
Report(heap, rowCount, above) ==
    LET sampled == SetToSeq(heap)
        stats == Summary([i \in DOMAIN sampled |-> sampled[i].stats])
        insufficient == rowCount < SufficientSample
    IN  [stats |-> stats, sample_size |-> Cardinality(heap), insufficient |-> insufficient,
         warned |-> ~insufficient /\ (\/ 4 * stats.refined[2] > 5 * file.baseline.refined[2]
                                      \/ 20 * above > rowCount)]

Commit ==
    /\ outcome = "building"
    /\ IF count = 0
       THEN outcome' = "EmptyCommit" /\ UNCHANGED report
       ELSE outcome' = "committed" /\ report' = Report(sample, count, exceeded)
    /\ UNCHANGED <<trainVars, rows, validation, centers, baseline, file>>
    /\ UNCHANGED <<priority, pushed, sample, count, exceeded>>

DriftNext ==
    \/ Next /\ UNCHANGED driftVars
    \/ OpenBuilder
    \/ \E values \in PushedSegments : StageSegment(values)
    \/ Commit

DriftSpec == DriftInit /\ [][DriftNext]_allVars

-------------------------------------------------------------------------------
(* What a commit reports is what a single look at all its rows would: the      *)
(* sample is the Capacity rows of least priority, whichever segments they came *)
(* in and however often the heap was full, while the warning still weighs      *)
(* every row that was pushed against the baseline of the model.                *)
ReportsWholeCommit ==
    report # NoReport =>
        LET all == {[row |-> i - 1, stats |-> Stats(pushed[i])] : i \in DOMAIN pushed}
            before(s) == {t \in all : Greater(s, t)}
        IN  report = Report({s \in all : Cardinality(before(s)) < Capacity}, Len(pushed),
                            Cardinality({s \in all : Exceeds(s)}))
===============================================================================
