-------------------------------- MODULE Oracle --------------------------------
(* The exact reference of the index benchmark. StreamingOracle                 *)
(* (oracle_stream.rs) ranks chunks of rows in bounded heaps, by several        *)
(* threads; the oracle-reference command (local_index.rs) streams a generated  *)
(* corpus through it into a file; and the index command (index_quality.rs)     *)
(* holds an index, built now or reused, against a file it is given. A row is   *)
(* its seed and its place, and hashes to itself.                               *)
EXTENDS Harness

CONSTANTS
    Seeds,          \* of the generated corpora
    RowScores,      \* per seed and place: the score for each query of the seed
    Sources,        \* the corpora asked for: [seed, count]
    ChunkRows,      \* rows of a full chunk
    RowLimit,       \* u32::MAX
    Threads,        \* 6
    Depth,          \* the k of a reference: 100
    CallerChunks,   \* what a caller of StreamingOracle passes
    CallerDepths,   \* and for which k
    MergeOrders,    \* the orders in which a heap may give its rows
    MaxGeneration   \* bounds what others commit to the index

(* The rows that score, each against every query. A seed is not 0, and a heap  *)
(* gives its rows in an order of all the numbers a row can have.               *)
ScoredRows == UNION {{[seed |-> s, at |-> i] : i \in DOMAIN RowScores[s]} : s \in Seeds}

ASSUME OracleAssumption ==
    /\ Seeds \subseteq Nat \ {0}
    /\ \A s \in Seeds : RowScores[s] \in Seq([1..QueryCount -> Int])
    /\ \A s \in Sources : /\ s \in [seed : Seeds, count : Nat]
                          /\ s.count <= Len(RowScores[s.seed])
    /\ \A chunk \in CallerChunks :
          chunk \in Seq(ScoredRows \cup {[seed |-> 0, at |-> 0]})
    /\ CallerDepths \subseteq Nat
    /\ ChunkRows \in Nat \ {0} /\ Threads \in Nat \ {0} /\ Depth \in Nat \ {0}
    /\ RowLimit \in Nat /\ MaxGeneration \in Nat
    /\ \A order \in MergeOrders :
          /\ order \in Seq(0..(RowLimit - 1))
          /\ \A row \in 0..(RowLimit - 1) : \E i \in DOMAIN order : order[i] = row
          /\ \A i, j \in DOMAIN order : order[i] = order[j] => i = j

VARIABLES
    source,         \* of the reference being made, or Nobody's
    depth,          \* k of the oracle
    corpus,         \* the rows it accepted: their hash
    heaps,          \* one per query; <<>> is no oracle
    answer,         \* of the last call
    reference,      \* the report and the rankings on disk
    index,          \* the benchmark's index: [rows, generation, builder, total]
    sidecar,        \* benchmark-build.json
    measured        \* what the index command compared

oracleVars == <<source, depth, corpus, heaps, answer, reference, index, sidecar, measured>>

Nobody == [seed |-> 0, count |-> 0]
Nothing == [none |-> TRUE]
Invalid == [seed |-> 0, at |-> 0]

-------------------------------------------------------------------------------
(* GeneratedChunks: every chunk is full but the last.                          *)
ChunkCount(s) == (s.count + ChunkRows - 1) \div ChunkRows
SourceRows(s, first, count) == [i \in 1..count |-> [seed |-> s.seed, at |-> first + i]]
Chunk(s, i) == SourceRows(s, i * ChunkRows, Least(ChunkRows, s.count - i * ChunkRows))

Neighbor(row, content, q) == [row |-> row, score |-> RowScores[content.seed][content.at][q]]

(* Ranked: the higher score, then the lower row.                               *)
Greater(n, o) == n.score > o.score \/ (n.score = o.score /\ n.row < o.row)

(* admit: a full heap exchanges its worst for a better one.                    *)
Worst(heap) == CHOOSE w \in heap : \A o \in heap \ {w} : Greater(o, w)

Admit(heap, n, limit) ==
    IF Cardinality(heap) < limit THEN heap \cup {n}
    ELSE IF Greater(n, Worst(heap)) THEN (heap \ {Worst(heap)}) \cup {n} ELSE heap

AdmitAll(heap, list, limit) ==
    LET after[i \in 0..Len(list)] == IF i = 0 THEN heap ELSE Admit(after[i - 1], list[i], limit)
    IN  after[Len(list)]

(* The rows of a heap, in the order its buffer happens to have.                *)
InOrder(heap, order) ==
    LET places == {i \in DOMAIN order : \E n \in heap : n.row = order[i]}
        nth(j) == CHOOSE i \in places : Cardinality({p \in places : p < i}) = j - 1
    IN  [j \in 1..Cardinality(heap) |-> CHOOSE n \in heap : n.row = order[nth(j)]]

(* Seeded fault: every thread numbers its rows from the start of the chunk.    *)
RowOfThread(first, width, batch, r) == first + r - 1

(* The number of the r-th row of a thread's part of a chunk.                   *)
RowNumber(first, width, batch, r) == first + (batch - 1) * width + r - 1

(* One thread's part: its own heap for every query.                            *)
BatchHeaps(chunk, first, width, batch) ==
    LET start == (batch - 1) * width
        size == Least(width, Len(chunk) - start)
    IN  [q \in DOMAIN heaps |->
            AdmitAll({}, [r \in 1..size |->
                Neighbor(RowNumber(first, width, batch, r), chunk[start + r], q)], depth)]

(* extend: the parts are ranked apart and merged when all threads are joined.  *)
Extended(chunk, order) ==
    LET width == (Len(chunk) + Threads - 1) \div Threads
        batches == (Len(chunk) + width - 1) \div width
        merged[b \in 0..batches] ==
            IF b = 0 THEN heaps
            ELSE LET part == BatchHeaps(chunk, Len(corpus), width, b)
                 IN  [q \in DOMAIN heaps |->
                         AdmitAll(merged[b - 1][q], InOrder(part[q], order), depth)]
    IN  merged[batches]

(* top_k                                                                       *)
Ranking(heap) ==
    [i \in 1..Cardinality(heap) |->
        CHOOSE n \in heap : Cardinality({o \in heap : Greater(o, n)}) = i - 1]

(* decode_reference, of the rankings against the counts the caller expects.    *)
ReadableRankings(rankings, rows, queries) ==
    /\ Len(rankings) = queries
    /\ \A q \in 1..queries :
        LET ranking == rankings[q] IN
        /\ Len(ranking) = Least(rows, Depth)
        /\ \A i \in DOMAIN ranking : ranking[i].row < rows
        /\ \A i \in 2..Len(ranking) : Greater(ranking[i - 1], ranking[i])

-------------------------------------------------------------------------------
OracleInit ==
    /\ source = Nobody /\ depth = 0 /\ corpus = <<>> /\ heaps = <<>> /\ answer = "ok"
    /\ reference = Nothing /\ index = Nothing /\ sidecar = Nothing /\ measured = Nothing

streamVars == <<source, depth, corpus, heaps, answer>>
fileVars == <<reference, index, sidecar, measured>>

(* StreamingOracle::new                                                        *)
NewOracle(queries, limit, s) ==
    /\ heaps = <<>> /\ answer = "ok"
    /\ answer' = IF queries = 0 \/ limit = 0 THEN "InvalidOptions" ELSE "ok"
    /\ heaps' = IF answer' = "ok" THEN [q \in 1..queries |-> {}] ELSE heaps
    /\ depth' = limit /\ source' = s
    /\ UNCHANGED <<corpus, fileVars>>

(* StreamingOracle::extend: a chunk is taken whole or not at all.              *)
Extend(chunk) ==
    /\ heaps # <<>>
    /\ answer' = IF Len(corpus) + Len(chunk) > RowLimit THEN "RowLimit"
                 ELSE IF Invalid \in {chunk[i] : i \in DOMAIN chunk} THEN "InvalidRow" ELSE "ok"
    /\ IF answer' = "ok" /\ chunk # <<>>
       THEN /\ \E order \in MergeOrders : heaps' = Extended(chunk, order)
            /\ corpus' = corpus \o chunk
       ELSE UNCHANGED <<corpus, heaps>>
    /\ UNCHANGED <<source, depth, fileVars>>

CallerExtends == source = Nobody /\ \E chunk \in CallerChunks : Extend(chunk)

(* oracle_reference: chunk after chunk, then the bytes and the report.         *)
StreamChunk ==
    /\ source # Nobody /\ Len(corpus) < source.count
    /\ Extend(Chunk(source, Len(corpus) \div ChunkRows))

WriteReference ==
    /\ source # Nobody /\ Len(corpus) = source.count
    /\ reference' = [source |-> source, corpus |-> corpus, queries |-> Len(heaps), k |-> depth,
                     rows |-> Len(corpus), artifact |-> [q \in DOMAIN heaps |-> Ranking(heaps[q])],
                     rankings |-> [q \in DOMAIN heaps |-> Ranking(heaps[q])]]
    /\ source' = Nobody /\ depth' = 0 /\ corpus' = <<>> /\ heaps' = <<>>
    /\ UNCHANGED <<answer, index, sidecar, measured>>

(* The artifact changes after its hash went into the report.                   *)
LoseRanking ==
    /\ reference # Nothing
    /\ reference' = [reference EXCEPT !.artifact[1] = <<>>]
    /\ UNCHANGED <<streamVars, index, sidecar, measured>>

-------------------------------------------------------------------------------
(* build_index: create makes a directory of its own, each chunk is pushed and  *)
(* committed, the later ones by append; at the end the sidecar says of what,   *)
(* and names the CURRENT it finds. Between two commits nobody holds the lock.  *)
StartBuild(s) ==
    /\ index = Nothing
    /\ index' = [rows |-> <<>>, generation |-> 0, builder |-> s, total |-> 0]
    /\ UNCHANGED <<streamVars, reference, sidecar, measured>>

Building == index # Nothing /\ index.builder # Nobody

(* A row that gets another number than its own ends the build before a commit. *)
BuildChunk ==
    /\ Building /\ index.total < index.builder.count
    /\ LET chunk == Chunk(index.builder, index.total \div ChunkRows)
       IN  index' = IF Len(index.rows) # index.total THEN [index EXCEPT !.builder = Nobody]
                    ELSE [index EXCEPT !.generation = @ + 1, !.rows = @ \o chunk,
                                       !.total = @ + Len(chunk)]
    /\ UNCHANGED <<streamVars, reference, sidecar, measured>>

EndBuild ==
    /\ Building /\ index.total = index.builder.count
    /\ sidecar' = [source |-> index.builder, corpus |-> SourceRows(index.builder, 0, index.total),
                   current |-> index.generation]
    /\ index' = [index EXCEPT !.builder = Nobody]
    /\ UNCHANGED <<streamVars, reference, measured>>

(* The build is stopped, or somebody else appends, to a finished index or to   *)
(* one whose builder is between two commits.                                   *)
StopBuild ==
    /\ Building
    /\ index' = [index EXCEPT !.builder = Nobody]
    /\ UNCHANGED <<streamVars, reference, sidecar, measured>>

AppendElsewhere(s) ==
    /\ index # Nothing /\ index.generation \in 1..MaxGeneration - 1
    /\ index' = [index EXCEPT !.generation = @ + 1, !.rows = @ \o Chunk(s, 0)]
    /\ UNCHANGED <<streamVars, reference, sidecar, measured>>

(* pinned_oracle                                                               *)
PinnedOracle(s) ==
    /\ reference # Nothing
    /\ reference.source = s /\ reference.queries = QueryCount /\ reference.rows = s.count
    /\ reference.k = Depth
    /\ reference.artifact = reference.rankings
    /\ ReadableRankings(reference.artifact, s.count, QueryCount)

(* build_index that finds an index, or has just made one.                      *)
BuiltFor(s) ==
    /\ sidecar # Nothing /\ index # Nothing
    /\ sidecar.source = s /\ sidecar.current = index.generation

(* The index command, until its comparisons begin: the corpus is one chunk.    *)
MeasureQuality(s) ==
    /\ measured = Nothing /\ s.count <= ChunkRows
    /\ PinnedOracle(s) /\ BuiltFor(s)
    /\ sidecar.corpus = reference.corpus /\ Chunk(s, 0) = reference.corpus
    /\ Len(index.rows) = s.count
    /\ measured' = [rows |-> index.rows, source |-> s, exact |-> reference.artifact]
    /\ UNCHANGED <<streamVars, reference, index, sidecar>>

(* A caller of StreamingOracle.                                                *)
CallerNext ==
    \/ \E queries \in {0, QueryCount}, limit \in CallerDepths : NewOracle(queries, limit, Nobody)
    \/ CallerExtends

(* The commands of the benchmark.                                              *)
CommandNext ==
    \/ \E s \in Sources : NewOracle(QueryCount, Depth, s) /\ reference = Nothing
    \/ StreamChunk \/ WriteReference \/ LoseRanking
    \/ \E s \in Sources : StartBuild(s) \/ AppendElsewhere(s) \/ MeasureQuality(s)
    \/ BuildChunk \/ EndBuild \/ StopBuild

(* The programs of the package run one at a time: a measurement of the         *)
(* harness, a caller of the streaming oracle, or the commands around it.       *)
PackageInit == Init /\ OracleInit

PackageNext ==
    \/ heaps = <<>> /\ reference = Nothing /\ index = Nothing /\ answer = "ok"
           /\ Next /\ UNCHANGED oracleVars
    \/ phase = "empty" /\ CommandNext /\ UNCHANGED vars
    \/ phase = "empty" /\ reference = Nothing /\ index = Nothing /\ CallerNext /\ UNCHANGED vars

packageVars == <<vars, oracleVars>>
PackageSpec == PackageInit /\ [][PackageNext]_packageVars

-------------------------------------------------------------------------------
(* The ranking of ExactOracle, which keeps and sorts every row.                *)
ExactRanking(content, q, limit) ==
    LET score == [r \in 0..Len(content) - 1 |-> RowScores[content[r + 1].seed][content[r + 1].at][q]]
        best == Best(DOMAIN score, score, limit)
    IN  Ranking({[row |-> r, score |-> score[r]] : r \in best})

(* However a corpus is cut into chunks, a chunk dealt to threads and a heap    *)
(* merged, and whatever chunks were refused in between, the heaps hold the     *)
(* exact ranking of the rows accepted (oracle_stream.rs); and the index        *)
(* command compares an index with the exact ranking of just its own rows, and  *)
(* these are the rows of the corpus asked for, although reference, index and   *)
(* sidecar are files of three runs (index_quality.rs, local_index.rs).         *)
ExactReference ==
    /\ \A q \in DOMAIN heaps : Ranking(heaps[q]) = ExactRanking(corpus, q, depth)
    /\ measured # Nothing =>
        /\ measured.rows = SourceRows(measured.source, 0, measured.source.count)
        /\ \A q \in 1..QueryCount : measured.exact[q] = ExactRanking(measured.rows, q, Depth)

===============================================================================
