# Spherra in TLA+

Spherra is an embedded vector index: a library that stores unit vectors as
quantised codes in immutable segment files and searches them with a two-stage,
exactly ordered scan. This directory holds TLA+ models of the parts where the
order of events matters or where a number promises something about another,
TLC configurations that check them on small instances, and TLAPS proofs of the
safety of the store, of opening an index, the search pool, the segment reader, the
tile kernel and the measurement harness for all of them.

## The system

| Component (`src/crates/`) | State it keeps | Operations | Model |
|---|---|---|---|
| Builder (`spherra/src/builder.rs`) | the draft manifest, rows not yet in a segment, counts, a poison flag, the exclusive lock | `create`, `append`, `push`, `commit`, drop | `IndexStore` |
| Storage (`storage.rs`) | the directory: `CURRENT`, `manifest-*.bin`, `model-*.bin`, `*.primary`, `*.residual`, temporary names | `load`, `stage`, `cleanup` | `IndexStore` |
| File system (`fs.rs`) | what the disk holds and what a crash may leave of it | create, write, sync, rename, sync of a directory, remove, list | `IndexStore` |
| Lock (`lock.rs`) | who holds `LOCK`, shared or exclusive | acquire, drop | `IndexStore` |
| Manifest (`manifest.rs`), containers (`container.rs`) | the list of segments of a generation; the bytes of `CURRENT` and manifests | `validate`, `encode`, `decode` | `Manifest`, `Container` |
| Opened index (`open.rs`, `certified.rs`) | one generation in memory, its bound certificates, the shared lock, a descriptor per segment | `open`, drop | `OpenIndex`, `IndexStore`, `SearchPool` |
| Search (`search.rs`, `dot_product.rs`) | worker threads, a bounded queue of jobs, a reply channel per search | `search`, `search_excluding`, the dot-product searches, drop | `SearchPool` |
| Model (`model.rs`; `pq96.rs`, `int4.rs`, `restore.rs` of `spherra-codec`) | the centers, the codebook, a drift baseline, the model file | train, save, restore, encode a row | `Pq96Training`, `ModelTraining` |
| Drift (`drift.rs`) | per commit: a bounded sample of rows, two counts | `add`, `report` | `Drift` |
| Certificates (`spherra-codec/certificate.rs`, `spherra/certified.rs`) | one per block or segment: the worst errors; a capability and a provenance | enumerate, build, score, bounds, bind, serve | `Certificate` |
| Dot products (`dot_product.rs`, `spherra-domain/record.rs`) | a radius of half precision per row | validate a vector, intervals of lengths, cosine and product | `DotProduct` |
| Segment format (`spherra-format`) | an open reader: its file, header and directory | write a segment file, open one, read rows, tiles and tables | `SegmentFormat`, `SegmentReader` |
| Kernels and scorers (`spherra-codec`: `kernel.rs`, `scorer.rs`, `tiled_soa.rs`, `int4.rs`) | a prepared query's lookup tables, the accumulators of a scan | prepare a query, score a tile, refine a row | `TileKernel` |
| Harness (`spherra-testkit/harness.rs`, `exact.rs`) | a prepared corpus, the scans and counts of a measurement | `prepare`, `measure_prune`, `measure` | `Harness` |
| Streamed oracle and index benchmark (`oracle_stream.rs`, `corpus.rs`; `local_index.rs`, `index_quality.rs` of `spherra-bench`) | heaps per query; a reference, an index and a sidecar on disk | stream a corpus, write a reference, build or reuse an index, compare | `Oracle` |
| The transforms, `spherra-simd`, the other programs of `spherra-bench`, `fuzz`, `scripts`, `tools` | none | numerics; measurements of time and memory; test drivers | not modelled |

The components meet in three places. A model, trained once, decides what every
later segment's codes mean, and its identity ties files, certificates and
prepared queries together. On disk, builders and readers of any number
of processes share one directory: a builder holds the lock exclusively from
`create` or `append` until it is committed or dropped, a reader holds it shared
from `open` until its `Index` is dropped, and a generation becomes visible by
one rename of `CURRENT`. In memory, the threads that search one `Index` share
its pool: each splits its search into jobs, sends them through one bounded
queue, and merges the replies.

### What is hard, and what makes each part correct

* **A crash between any two file-system calls.** A directory entry is settled
  only by a sync of the directory, the bytes of a file only by a sync of the
  file. Whatever a crash leaves in `CURRENT` must be nothing or a whole
  generation (`Recoverable`), never one older than an acknowledged commit
  (`AckedSurvives`), and the rows must keep the ids `push` returned
  (`ImplementsPromise`).
* **Cleanup deletes by elimination.** It must spare every file of every
  generation of the chain a crash may still bring back (`ChainKept`), yet leave
  no orphan behind (`StartsClean`); a leftover `CURRENT.tmp` would block every
  later commit (`CommitFailsOnlyOnMishap`).
* **Calls that fail half way.** A failed push has already kept its rows and is
  poisoned (`PublishesPushedRows`); a commit whose last sync fails has an unknown
  outcome, and the next append builds on whichever generation is there
  (`PublishesSuccessor`).
* **The same segments checked twice, by code of its own each time.** `open` and
  `append` must refuse the same files, or an append turns a corrupt index into a
  new generation (`FreshGenerationOpens`) or refuses a good one
  (`AppendsWhatOpens`). `open` collects in one loop what it binds in a second
  (`BoundToTheirFiles`) and must give back what it opened on every path
  (`DescriptorsBounded`).
* **Readers that open while others build.** They read `CURRENT` first and the
  segment files later (`ReadersSeeCurrent`).
* **Work dealt out to threads.** Replies come in any order and lists in heap
  order, ties are common, the last tile of a segment is short, and the result
  must be the exact ranking (`ExactAnswer`, `BudgetFilled`).
* **Threads that die.** A panic ends a worker; its search must fail and only its
  search (`CorruptForCause`), nothing may wait for ever (`Answers`,
  `DropJoins`), and nothing may be left running (`NoWorkAfterAnswer`).
* **Bytes nobody vouches for.** A segment file says itself where its sections
  are. Rules about single entries, checked in passing, must add up to a
  directory in which nothing overlaps and no checksum table is shared
  (`OpenedWellFormed`), must not refuse what the writer made (`WrittenOpens`,
  `RefusalsJustified`), and the accessors compute offsets from what was checked
  long before (`ReadsInside`).
* **Integer sums nobody checks.** Preparing a query measures its entries once;
  from then on 32-bit and 64-bit sums are added without a check in another file
  (`AdditionsFit`), and where they are checked, failing is a panic
  (`NeverPanics`). Rows sit two to a byte in tiles whose last is padded, and
  every path must give every row the sum of its own entries (`ScoresExact`,
  `RefinedExact`).
* **Files that are read strictly.** A container's length, kind and hash, and the
  counts inside it, are checked apart, and together they must leave no word that
  nobody reads (`ReadsExactlyTheFile`). A model file is refused for one negative
  zero or one unordered center, so training must never leave one
  (`TrainedModelRestores`).
* **Iterations on stale numbers.** Training moves centroids one by one and
  reseeds empty ones from errors measured before any of them moved; it must get
  no worse (`ErrorNeverGrows`), stop where another round would change nothing
  (`StopsAtFixpoint`), and seeds drawn by error must differ (`SeedsDistinct`).
  A commit's drift report must not depend on how pushes were cut into segments
  (`ReportsWholeCommit`).
* **Intervals that promise to hold a real number.** Certificates, candidates,
  prepared residuals and scores are values a caller may mix; each rounding must
  go outward, and a stored radius stands for every length that rounds to it
  (`IntervalsHoldTruth`, `DotIntervalsHoldTruth`).
* **Measurements that are quoted.** Pruning by intervals must keep the true top
  (`BoundsSound`), its rates must be comparable (`SurvivorsBracketed`), and the
  reference an index is compared with must be the exact ranking of the rows that
  index holds, although reference, index and sidecar are made by three runs
  (`ExactReference`).

## The modules

### `Manifest`

`Manifest::validate`, rule by rule in the order of the code. `NextRow` is the
loop's `next`. Hashes and segment ids are numbers; lengths, file hashes and
codec ids only tie an entry to its files and are left out. `ManifestFile` lists
every manifest of up to one entry too many and compares `validate` with what a
manifest is for.

### `Container`

A file as a sequence of words, one per field: a word is a number, a magic, or a
hash, and a hash is the words it was computed of. `Pack`, `Unpack`,
`EncodeCurrent`, `EncodeManifest` and what undoes them are `container.rs` and the
encoding half of `manifest.rs`, with the order of their tests. The environment
damages a file (`Truncate`, `Grow`, `Change`, `CrossRead`: its words under the
other kind's magic) and may afterwards give it a fitting hash (`Rehash`), as the
tests of `container.rs` do. `ManifestFile` composes it with `Manifest`: what is
written is what `validate` accepts. Widths and byte order of fields are left out.

### `IndexStore`

One action per file-system call. A builder's record is an `IndexBuilder` with a
program counter: `call` is the API call it executes and `pc` the next step.

| Steps | Code |
|---|---|
| `BeginCreate`, `Probe` | `create_with_fs`: lock, `CURRENT` must be absent |
| `BeginAppend`, `AppendLoad` | `append_with_fs`: lock, `storage::load`, `verify_segment` |
| `Walk`, `List`, `RemoveOrphan`, `CleanupSync` | `storage::cleanup`, called by create, append and, after publication, commit (`call = "tidy"`) |
| `Push`, `Commit`, `CommitRefused`, `DropBuilder` | the caller's choices between calls |
| `StageWrite`, `StageSync`, `StageRename`, `StageDir` | `storage::stage`; `Staged` is what follows for each kind of file: model, primary, residual, manifest |
| `SwapWrite`, `SwapSync`, `SwapRename`, `SwapDir` | `commit`'s replacement of `CURRENT` |
| `OpenLock`, `OpenLoad`, `OpenSegments`, `CloseReader` | `Index::open` and its drop |
| `FsError`, `Kill`, `Crash` | a call returns an error; a process is killed; the machine stops |

The directory is seven variables. `live` are the names processes see; `sure` and
`maybe` bound what a crash leaves; `torn` are names whose bytes are not all
there, `unsynced` those whose bytes may be lost; `current` and `survivors` are
the same for the contents of `CURRENT`. A crash keeps or loses every unsettled
entry independently of the others, which allows more than a journalling file
system would. What a file holds follows from its name: manifests and models are
named by their hash, segments by a fresh id.

Abstractions: creating, writing and reading back a temporary file is one step,
whose failure may leave a torn file; a temporary name is unique, so its nonce
is left out; an encoding error of a staged segment is a failure of its first
step; `IndexBusy` and a refused push change nothing and are not steps; the
directory itself and `LOCK`, which is never removed, always exist; two builders
never choose the same id (`unique_id`). A corrupted file is not modelled beyond
torn ones: what readers make of one is in `OpenIndex` and `SegmentReader`.

### `CommittedIndex` and `IndexStoreRefinement`

`CommittedIndex` is what the store promises, without files: a published
generation, the ones a crash may leave, and the last acknowledged one.
`IndexStoreRefinement` reads a directory as a reader would (a manifest whose
files are not all whole stands for `Unreadable`, which the promise has no such
thing as) and checks that the store implements it; `IndexStore_proofs` proves it
for every store.

### `OpenIndex`

What `IndexStore` takes as one read of the segments. The two uses of a committed
index go through its segments one at a time:

| Steps | Code |
|---|---|
| `OpenRefused`, `StartOpen` | `open_with_workers` up to the loop: `storage::load`, the descriptor limit |
| `OpenFiles`, `CheckFiles`, `LoadRows` | one turn of the loop: the two files, their lengths, readers, hashes, names and pairing; tiles, magnitudes and certificates, and `into_residual`, which closes the primary file |
| `Bind`, `FinishOpen`, `CloseIndex` | the second loop with `BoundPair::bind`; `WorkerPool::new`; drop |
| `StartAppend`, `VerifySegment`, `StartBuilding` | `append_with_fs` with `verify_segment` |
| `Create`, `StageSegment`, `Commit`, `DropBuilder` | the builder, without the steps `IndexStore` has |
| `Edit` | what another program makes of a segment while nobody uses the index: `Edits`, a parameter |

A file is a record of what the checks read in it, and a hash is the file it was
made of. `OpenError`, `RowsError`, `BindError` and `VerifyError` list the checks
in the order of the code, joined by `??`: the first that fails is the error.
`whole` stands for what `SegmentReader` checks besides kind and identities.
`history` records what the properties compare and no step reads. `MCOpenIndex`
has the edits of `open_tests.rs`: an index is edited once, in one segment, of
which files and entry change together or not.

### `SearchPool`

| Steps | Code |
|---|---|
| `Spawn`, `SpawnFails` | `WorkerPool::new`; a refused thread drops the partly built pool |
| `Take`, `Reply`, `Exit`, `Panic` | a worker's loop: receive, run the job, leave when the queue is closed; a panic ends the thread |
| `Search` | `search_with_exclusion` and `select` up to the first job: option errors, the budget, an invalid vector, one `prepare_query` refuses |
| `Submit`, `SubmitFails` | `WorkerPool::submit`, which blocks on a full queue |
| `Receive`, `ReceiveFails` | merging of replies, a reply that will not come |
| `Refine`, `ReadFails` | refinement, ranking and the intervals of the hits; a residual code that cannot be read |
| `DropPool`, `Join` | `Drop`: close the queue, join the workers |

A heap is the set of rows in it, `Admit` is `admit` and `Beats` is the order of
`Candidate`. A reply channel is known by its caller and the serial number of the
call; it reports an error once no job holds its sender (`SenderLeft`). The queue
is dropped with the last worker that could take from it. Scores are integers
that a query gives to each row: what decoding, the integer kernels, the
reconstruction-length correction and certificate intervals compute depends on row
and query only and is left out, but not that some of it can fail. `prepares` says
of a query whether `prepare_query` makes tables of it, which it does not when an
entry would exceed its limit (`TileKernel`'s `PrepareQuery`); `select` then returns
`Corrupt` before it submits a job. `uncertified` are the rows whose interval is an
error, an empty intersection or an infinite dot product; only the hits are given
intervals, so `Refine` ends as `CertificateInvalid` when one of these is among
them. With certificates the builder made no interval is empty (`Bounds_proofs`),
but `open` cannot know who made those it reads. Refinement reads the residual code
of each candidate from its file; such a read may fail at any time, and `ReadFails`
returns its `Io` error. A failed read or interval leaves only variables of
the call, so one step stands for a failure at any candidate. A refined key is a floating-point number in the
code, an integer here: only its order is used. `Sorted` stands for the sort and
for the ascending walk over the tiles: the order without equals that a set has
one of. It is written out, and not taken from the library's sort of sequences,
because the prover does not know that one.

### `SegmentFormat` and `SegmentReader`

`SegmentFormat` has the tables of `section.rs` and the layout of `writer.rs`
with the offsets and lengths of the code. A file is its length, its header's
fields and the entries its directory decodes to; whether the checksums and
hashes in it are those of its bytes is a fact about the file (`staleBlocks`,
`staleSections`, `sealed`), as no program can tell from a wrong hash more than
that it is wrong.

| Steps | Code (`reader.rs`) |
|---|---|
| `OpenAs`, `ReadDirectory` | `open` up to `read_directory`, by the primary or the residual reader |
| `CheckSet`, `CheckEntry`, `CheckOwners` | `check_sections`: the set of kinds, one turn of the loop, the owners of the tables |
| `CheckBlocks`, `CheckIdentities`, `CheckSeal` | the three passes over the bytes |
| `ReadRow`, `RadiusFlagsRange`, `PrimaryTile`, `PrimaryCode`, `ReadTable` | the accessors, each the range of bytes it reads |
| `Rewrite` | what happened to the file before: `Rewrites`, a parameter |

The first broken rule ends `open`; `error` is its name, where the code's error
says more. The checks of one phase are one step, except the loop over the
entries, whose counters are state. Reading can also fail, and values in tables,
certificates and put sequences are checked when they are read: both return an
error and change nothing. `MCSegmentReader` has the rewrites: every field of
every entry and of the header set to the values that matter (ends and
beginnings of other sections, the largest number, one more, one less), entries
lost, repeated and exchanged, single sections damaged, and a few files that
take several changes, such as two certificates that share a table.

### `TileKernel`

| Steps | Code (`spherra-codec`) |
|---|---|
| `PrepareQuery` | `FixedPointScorer::prepare_query` with `quantize_lookup` and `compact_primary_lookup`; a product out of range refuses the query |
| `BeginTile`, `EndTile` | `score_tile_primary` and the copy of its active lanes; `Path` is its choice of a path |
| `AddCompact` | `score_full_tile`: a coordinate, in the sixteen lanes of one half, in 32 bits |
| `AddWide` | the pairs of lanes and the odd one, in 64 bits |
| `AddChecked`, `EndPrimary` | `score_primary`, called by the checked path for each lane and by `score_refined` for a row |
| `BeginRefine`, `BeginScore`, `AddResidual`, `EndRefine` | `refine_from_primary` of a row scanned before, and `score_refined` from its unpacked code |

`EncodeTile` is the writer's interleaving of 32 rows, `TileNibble` the kernel's
way back. A step adds one coordinate, in all lanes that the loop treats alike:
lanes do not read each other. The product of a query coordinate and a center is
given, in halves of a Q24 unit, and rounded as the code rounds it; `LimitError`
is what binary64 makes of the limit on a product, which with 768 and 96 terms is
`MAX_ABSOLUTE_TABLE_ENTRY - 0.5` rounded up by half a unit. Unchecked sums wrap,
as in a release build; a debug build would panic at the same addition, which
`AdditionsFit` excludes. Error bounds and provenance are in `Certificate`; the
errors for a tile of the wrong length are left out, as an opened segment has no
such tile.

### `Pq96Training`, `ModelTraining`, `Drift`

| Steps | Code |
|---|---|
| `BeginTrain`, `SelectSeed` | `Pq96Codebook::train`, `initialize_centroids`: one seed a step |
| `Assign`, `Reseed`, `Recenter`, `EndIteration` | one Lloyd iteration, centroid by centroid |
| `BeginModel`, `MeasureBaseline` | `create`'s checks, `Model::train` around the codebook |
| `Save`, `Restore` | `ModelFile::encode`, `decode` and `Model::restore` with their validations |
| `TrainAlone` | a caller of the codec trains a codebook |
| `OpenBuilder`, `StageSegment`, `Commit` | a builder's drift sample: opened with the model, fed by staging, reported by the commit |

A row is one coordinate and a subvector one number: coordinates and subquantizers
are trained apart. Values are multiples of a number that every cluster size
divides, so a mean is exact; `NegZero` is the one value that equals another and
is not stored alike. A random draw is a choice of thresholds, one between any two
that select different rows; a seeded hash is a choice of orders. The transform is
the identity, floating-point rounding is left out.

### `Certificate` and `DotProduct`

`Certificate` keeps the numbers that a claim rests on: vectors of `Dimension`
integer coordinates, floating point of `Precision` bits over the integers, with
`next_up` and `next_down`, so that a rounding in the wrong direction shows.
`VectorsAssumption` says which vectors a program can hold (`Carried`): an original
has length `One` or is zero, its transform is a vector of floating-point numbers
that lies within `Delta` of it. A query whose lookup tables need an entry beyond
`LargestEntry` is refused (`TablesFit`), since the error of the scores is bounded
for entries up to it. A step is a call: `Enumerate` (`ExhaustiveBlock::from_rows`), `Build`,
`PrepareQuery`, `ScorePrimary`, `ScoreRefined`, `GiveBounds`, and
`ServeInterval` for an opened index, which binds stored terms (`BoundPair::bind`)
and intersects the two intervals. Callers pass any candidate, any prepared
residual, any score and any certificate to any call. `DotProduct` adds
`ServeDotProduct`: `ValidatedVector::new` rounds the row's length to a half,
`stored_length_interval`, `query_length` and `multiply` go back to an interval.

Left out: the rotation (`Delta` stands for its error), the rounding of long sums
inside a scorer (the code covers it by a gamma term of `serving_error`), of the
reference dot product (`REDUCTION_ALLOWANCE`), and subnormal results of the
arithmetic.

### `Harness` and `Oracle`

`Harness` is a measurement: `Prepare`, then `MeasurePrune` with a `PruneQuery`
per query, or `Measure` with a `ScanQuery` per query and a `RerankBudget` per
budget, then `Publish`. What a scorer answers is any estimate the errors of the
encoding allow. `Oracle` has `StreamingOracle` (`NewOracle`, `Extend`, the
threads of a chunk merged in any heap order) and the benchmark's three commands:
`StreamChunk` and `WriteReference` make a reference, `StartBuild`, `BuildChunk`,
`EndBuild` an index and its sidecar, `MeasureQuality` checks reference, sidecar
and index against each other and compares. Between any two steps a build may
stop (`StopBuild`), a reference may be damaged (`LoseRanking`) and another
program may append to the index (`AppendElsewhere`). The index itself is exact
here, as `SearchPool` shows; timing, memory, recall arithmetic and result files
are left out.

## The runs

| Run | Configuration | Question |
|---|---|---|
| `index_crash` | 2 builders, 1 reader, segments of 2 rows, 3 manifests, 2 mishaps | the store's safety properties |
| `index_refines` | 1 builder, 2 distinguishable rows, 2 manifests, 2 mishaps | does the store implement `CommittedIndex` |
| `index_live` | 2 builders, 1 mishap, fairness | does every call return |
| `search_ranking` | 1 caller, 2 workers, 5 rows in tiles of 2, every primary score in -1, 0, 1, eight choices of options, one with a row that has no interval, failing reads, both rankings | is the answer exact |
| `search_pool` | 2 callers with 2 searches each, 2 workers, 2 panics, vectors that are invalid or refused by `prepare_query`, failing reads, fairness | do panics spoil their own search and no other, does every search answer, is every worker joined |
| `files_read` | segment files of 1024 and 1025 rows, rewritten once or twice, opened as either kind; every manifest of up to 3 entries over rows 0 to 5; a payload of 11 words, 2 changes to a file and a new hash | does the reader open exactly the well-formed files, does `validate` accept exactly the partitions, does decoding accept exactly what is encoded |
| `open_append_agree` | up to 3 segments of 33 or 65536 rows, descriptors for 2 of them, one edit, out of some fifty, of one committed segment | do `open` and `append` agree, does `open` keep its books |
| `append_magnitudes` | the same with an edit that makes a magnitude negative | finding below |
| `tile_scores` | 2 coordinates, 1 residual code, segments of 3, 32 and 33 rows, 126 queries, integers of 4 and 6 bits | is every score the exact sum |
| `model_training` | all 243 lists of 5 rows over 3 values, one of them -0.0, 3 centroids, 2 centers, and 4 lists of residuals alone; segments of 1 and 2 rows, a sample of 2 of up to 4 | does training converge, does its model restore, is the drift report that of the whole commit |
| `certificates` | 2 blocks from 9 lists of rows, 2 models, 2 coordinates, 7-bit floating point, a lookup limit of 150 steps that some query exceeds; lengths at zero, at a tie and past the largest half | does every interval hold the true score |
| `harness` | 3 rows with tied scores, 2 queries, k from 0 to 4, budgets from 0 to 5; corpora of up to 5 rows in chunks of 3 and over 3 threads | are pruning, bounds and the reference sound |

`files_read` lets the segment reader, or manifest and `CURRENT`, go on while the
other has not begun (`Files`): they share no state.

### What `append_magnitudes` finds

`builder.rs:172` says that appending must not turn committed corruption into a
fresh generation. `verify_segment` looks at the two certificates, but not at the
stored magnitudes. A segment with a negative (or infinite) magnitude, under
hashes and a manifest that fit, is refused by `open` as corrupt (`open.rs:110`;
`open_tests.rs:555` builds such a segment) and accepted by `append`; the commit
that follows publishes a new generation that no `open` accepts. TLC's trace is:
create, stage, commit, edit, append, verify, stage, commit, open. No writer of
this code produces such a file, and `open_append_agree`, which has every other
edit, finds no other difference.

### The bounds

Why the bounds are enough. Two mishaps allow the cases that matter together: a
failed or killed builder followed by a crash while the next one cleans up. Three
manifests give a chain long enough for cleanup to pass the published generation
and its predecessor and still have one to keep. Segments of two rows separate
push's staging from commit's; four rows reach the row limit and three segments
the segment limit. Cleanup may remove names in any order. In the search, five
rows over two segments give a short tile in the first segment, two jobs of
different size, and ties within and between jobs; dot-product magnitudes include
0. The queue fills up with two callers. The files have 1024
rows, whose last tile and last blocks are full, or 1025, whose last are not;
with one rewrite every rule of the reader is broken alone, with two (residual
files) one error hides another. `U64Max` is far above the end of a file and
below an offset that would overflow. In `tile_scores` an `i32` holds 7
and an `i64` 31, so that an entry is at most 10: the queries have entries on
both sides of that limit, of the limit for the compact table (3), and products
that end in a half, of either sign; the segments end with an odd lane, with a
full tile and with a tile of one row. In `model_training` three centroids for at
least three rows with three values make duplicates, empty clusters and reseeding
common; the fourth row of a commit overflows a sample of two, with equal
priorities among them. In `certificates` seven bits round most products, the two
models differ in every decoded vector, and two blocks share a label. The
`harness` has k below, at and above the number of rows, and a chunk that is dealt
to two and to three threads. A manifest and a `CURRENT` are damaged in up to two
places before the new hash. In `open_append_agree` 65536 rows make the longest
files, which `verify_segment`'s limit of 40 MiB must admit, 33 rows short ones; with three segments one can be replaced by another, the third is beyond
the descriptors, and the manifest is full. `MaxRow64` is the `U64Max` of manifests
in `files_read`. `MaxPayload`, `MaxDamage`, `DamageValues`, `MostRows`,
`MaxGeneration`, `MaxSegmentIds`, `MaxManifests`,
`MaxMishaps`, `MaxRewrites`, `Probes`, `MaxCalls` and `MaxPanics` are bounds of the model; the other
constants are limits of the code with small values.

Symmetry is used where runs check no liveness: builders in `index_crash`, row
payloads in `index_refines`.

Fairness. A builder inside a call runs on (`WF` of `BuilderStep`): the code has
no wait in it but the file-system calls. Nothing is assumed of callers between
calls, and no failure has to happen. A worker thread that can take a job, finish
it or leave does so, a searching thread that can go on does, and so does the
join; scans need not panic and callers need not search. With the number of
searches bounded, a caller that finds the queue full is overtaken only finitely
often, so weak fairness is enough.

Deadlock is checked in the runs of the store, of opening, the search, the files
and the kernel, where a caller can always go on. The training, the certificates
and the measurements are single computations that end, so their runs allow it.

Each property has a mutant in `PROJECT.json`, one of the operators marked
"Seeded fault" in the modules, that makes its run fail.

## The proofs

`IndexStore_proofs` proves for every number of builders, readers, models, rows,
files and failures, from the assumptions `ManifestLimits` and `StoreAssumption`:

| Theorem | States |
|---|---|
| `Inductive` | `Spec => []IInv` |
| `TypeCorrect` | `Spec => []TypeOK` |
| `LockExcludes` | `Spec => []Exclusion` |
| `CrashRecovers` | `Spec => []Recoverable` |
| `ReadersUndisturbed` | `Spec => []ReadersSeeCurrent` |
| `CommitsSucceed` | `Spec => PublishesSuccessor` |

`Recoverable` is not inductive: it says nothing of a builder half way through a
call. `IInv` adds what each step relies on. `DraftSound`: a draft extends the
published generation, nothing but it can survive a crash, and the files the
draft lists are settled. `WalkSound` and `KeepSound`: while cleanup runs, the
generations a crash may leave are kept or about to be visited; the walk starts
at `CURRENT`, and `CurrentSound` says the only other candidate is its
predecessor, which the walk visits second. `StageSound` and `SwapSound` follow a
file from written to synced to renamed. Only one builder is ever past the lock
(`Exclusion`), so a step needs to keep only that builder's part; the lemma
`BuilderMove` says this once, `CalmMove` deals with every step that leaves
`CURRENT` alone, and the rename and the crash, which do not, have lemmas of
their own. `IInv` was checked with TLC as an invariant of `index_crash` before
it was proved.

The module goes on from there to the properties that speak of a whole history, from the same two assumptions. `StoreAssumption` says there
that `MAX_ROWS` is a `u64` (`manifest.rs:5`), without which `validate`'s checked
addition could refuse what the limits allow:

| Theorem | States |
|---|---|
| `StoreInductive` | `Spec => []StoreInv` |
| `PredecessorsKept` | `Spec => []ChainKept` |
| `CommitsAreDurable` | `Spec => []AckedSurvives` |
| `BuildersStartClean` | `Spec => []StartsClean` |
| `CommitsFailOnlyOnMishap` | `Spec => CommitFailsOnlyOnMishap` |
| `RowsArePublished` | `Spec => []PublishesPushedRows` |
| `StoreImplementsPromise` | `Spec => ImplementsPromise` |
| `AcknowledgedRowsStay` | `Spec => []PromiseKept` |

`StoreInv` is `IInv` and four invariants, each inductive relative to the ones
before it; TLC checked them on `index_crash` and `index_refines` first.

* `ChainInv`: every file of the published chain is settled, the last
  acknowledged generation is in the chain of whatever a crash may leave, and
  the files a walking builder keeps and the chain it has still to visit are
  together the published chain (`WalkWhole`). Without the last part nothing
  stops cleanup from removing the file of an old generation.
* `CleanInv`: while cleanup removes, every name in the directory is one that it
  keeps or has listed; a builder without rows finds exactly its model and the
  published chain, and no `CURRENT.tmp` is there before it makes its own
  (`DirectoryClean`).
* `FitInv`: the rows of a draft, of its pending segment and of its tail are
  within every limit that `validate` has, and its ids are below the next one, so
  that sealing a draft always makes a valid manifest. With `CleanInv` this
  leaves a failed file-system call as the only reason for a commit to fail.
* `RowInv`: the rows of the draft's segments, then those in memory, are the rows
  of the generation it extends, then the ones `push` took (`RowsKept`).

The refinement reads the three variables of `CommittedIndex` off these
(`Readings`): the rename of `CURRENT` is the abstract publication, the sync after
it the acknowledgement, a crash the abstract crash, and every other step
stutters (`StoreKeepsPromise`, by one lemma for the rename and one for the steps
that leave `CURRENT` alone). `PromiseKept` is not inductive either: `PromiseInv`
says that every generation a crash may bring back has the acknowledged one's
rows as a prefix, and not a smaller number.

Chains, concatenations of rows and `validate`'s loop are recursive functions.
Their laws (`ChainUnfolds`, `FlattenAppends`, `EntryAppend`) are proved by least
counterexample: `LeastNatural` gives the first number at which two functions
that satisfy one recursive equation would differ.

`Files_proofs` proves of the segment reader, for every file, every way to rewrite
it, every `U64Max` and every argument of an accessor, from `ReaderAssumption` and
`U64Assumption`:

| Theorem | States |
|---|---|
| `ReaderInductive` | `Spec => []IInv` |
| `ReaderTypes` | `Spec => []TypeOK` |
| `OpensOnlyWellFormed` | `Spec => []OpenedWellFormed` |
| `AccessorsStayInside` | `Spec => []ReadsInside` |
| `RefusesForAReason` | `Spec => []RefusalsJustified` |
| `ReadsWhatIsWritten` | `Spec => []WrittenOpens` |

Its `IInv` says which phases lie behind `pc` and what they found, and of the loop
what the entries before `index` have in common: they lie one behind the other
(`Ordered`, by `OrderGrows` from a comparison of neighbours), and a counter is
positive where a data section named the table and above one where two did
(`Counted`, by `CountGrows`). `OpenIsWellFormed` adds the phases up;
`AccessKeeps` does the arithmetic of rows and tiles.

The last two of these are the converse. `Acceptable` is a file about which there
is nothing to refuse, and one lemma for each phase says that the phase finds
nothing wrong with it (`AcceptableHeader` to `AcceptableOwners`). Only the count
of owners needs an invariant beyond `IInv`: `TwiceNamed`, that a counter above one
was raised by two sections, so that a table is not refused as shared when it is
not. A file the encoder wrote is acceptable for every number of rows
(`EncodedAcceptable`): `SegmentFormat_proofs` solves the recursion by which
`encode_segment` places sections (`OffsetsExist`, `Layout`), shows that the places
ascend with room for each section (`Ascend`), aligned and with less than 64 bytes
between them, and `EncodedWellFormed` checks the result against `WellFormed`. No
bound on the rows is needed, as a file's length is one a 64-bit field can hold.

Of manifests and `CURRENT` the module proves, for every limit, every list of
entries and every damage, from `FilesAssumption` (the limits are numbers, the
largest manifest fits a container, a damage leaves a number where it changes one):

| Theorem | States |
|---|---|
| `AcceptsOnlyPartitions` | `FilesSpec => []AcceptsPartitions` |
| `ReadsAllOfTheFile` | `MaxDamage <= 2 => (FilesSpec => []ReadsExactlyTheFile)` |

The first is about `validate` alone. Its loop makes a chain (`Chained`), in which
each segment starts where the one before it ended; `ChainHolds` shows that a
chain holds every row once, and `ChainedIsPartition` the converse: a list in row
order that holds every row below the total once must be a chain, as the row
before a gap and a row of an overlap are held by none and by two.

The second is about the framing. `ContainerInv` says that the file on disk
derives from the one that was written (`Derived`): each word after the magic is
the word that was there or a number, but for the last one once the hash was made
to fit, and the file has grown by no more words than it was damaged times; TLC
checked it on `files_read` first. A hash is never a number, so in an accepted
file without a new hash the last word is the hash that was written, and with it
every word before it (`UndamagedIfAccepted`). With a new hash the arguments are
lengths: what is accepted as a `CURRENT` has exactly the words `EncodeCurrent`
writes (`CurrentAccepted`), a manifest's count says how many words it has
(`ManifestAccepted`), and a record is what decoding makes of its own words
(`ManifestEncoded`, by the quotient and remainder that place a field). The
hypothesis on `MaxDamage` is about the model: three damages can put the
checksum or the old hash of a `CURRENT` where a manifest has a number, and
`Container` does not say which number a hash is.

`TileKernel_proofs` proves, for every dimension, number of residual codes, width
of the integers, set of queries and segment, from `WidthAssumption`,
`ProductsAssumption` and `SegmentsAssumption`:

| Theorem | States |
|---|---|
| `TileRoundTrip` | the kernel finds in a tile the nibble the row's code has |
| `KernelInductive` | `Spec => []IInv` |
| `KernelTypes` | `Spec => []TypeOK` |
| `AdditionsNeverWrap` | `Spec => []AdditionsFit` |
| `AccumulateNeverPanics` | `Spec => []NeverPanics` |
| `KernelNeverScalar` | `Spec => []NeverScalar` |
| `ScanIsExact` | `Spec => []ScoresExact` |
| `RefinementIsExact` | `Spec => []RefinedExact` |

`IInv` is the argument in the kernel's comments: after `t` terms a sum is at
most `t` times the largest entry. It needs to be carried through the loops,
through the scores that outlive them, and from the primary terms to the residual
ones. `ExactInv` says that every accumulator holds a partial sum of the row it
belongs to: there is a function of prefix sums (`SumsTo`) that ends in it.
`TotalOfSum` identifies that with the recursive `Total` by least counterexample,
for which the library's well-founded order on the naturals is enough, no
induction rule with an operator parameter.

`OpenIndex_proofs` proves, for every number of segments, limit of descriptors and
edit, from `OpenAssumption`:

| Theorem | States |
|---|---|
| `Inductive` | `Spec => []IInv` |
| `DescriptorsSuffice` | `Spec => []DescriptorsBounded` |
| `CertificatesBelong` | `Spec => []BoundToTheirFiles` |
| `CorruptionStaysVisible` | `Spec /\ []MagnitudesFinite => []FreshGenerationOpens` |
| `AppendTakesWhatOpens` | `EditsFit => (Spec => []AppendsWhatOpens)` |

`IInv` follows the loop: `Opening` counts the descriptors held by the segment the
loop is at and its phase, `LoadedOK` says that what is loaded is what the files
hold and that these passed `OpenError`. `NoError` and `CheckPasses` take a list
of checks apart, so `OpenMatches` finds that the names of both files are the
entry's, and validate's distinct ids make the certificates' files distinct.
`FailsKeeps` deals with every error return, `AwayKeeps` with the builder.

The last two theorems compare open and append. `OpenPasses` and `VerifyPasses`
say what it takes for all checks of either to find nothing, whatever their order:
`VerifiedPasses` gets what append leaves to the pairing from the pairing, and
misses only the magnitudes, `PassesVerified` misses only the sizes. `FreshInv`
says that until a file is rewritten all committed segments pass, that a builder's
old segments have been verified up to where its loop is, and that its draft
passes under names of its own; `MagnitudesFinite` is a hypothesis about what
edits do, and `append_magnitudes` is the run in which it fails. `AgreeInv` says
what an open or a refusal has shown of the index as it still is. For sizes,
`EncodeFits` adds up the lengths of the sections, with what `Layout`
(`SegmentFormat_proofs`) leaves between them: up to 65536 rows both files are
within the 40 MiB of `verify_segment`. `EditsFit` is the hypothesis that rewriting
files within the bound makes none that a reader takes and that is over it. The
encoder leaves no more between sections than alignment needs, but no reader asks
that of others: a file padded beyond 40 MiB opens and is refused by append, and
that is the one case the theorem excludes.

`Bounds_proofs` proves what a certified interval promises and what the measurements
that rely on such intervals make of it. Of the harness, for every number of rows and queries, every truth,
encoding, k and list of budgets, from `HarnessAssumption`:

| Theorem | States |
|---|---|
| `MeasurementSound` | `Spec => []BoundsSound` |
| `TighterCertificatesHelp` | `Spec => []SurvivorsBracketed` |

The argument is about finite sets of scores. `ThresholdIsReached` finds the k-th
largest lower bound by a largest element; `EnoughSurvive` counts that k rows
reach it; `BestSurvive` shows that a row of the true top k that fell below it
would have k rows truly above it; `TighterLeavesFewer` compares two thresholds.
`IInv` adds to the property that scans are within their certificates
(`ScansWithin`) and which counts belong to which phase (`PhasesOK`).

It goes on with the streaming oracle and the files around it, from
`OracleAssumption` too (every row of a corpus has an integer score for every
query, `Threads`, `ChunkRows` and `Depth` are not 0, a heap gives its rows in an
order of all row numbers):

| Theorem | States |
|---|---|
| `StreamedIsExact` | `PackageSpec => []ExactReference` |
| `PackageMeasures` | `PackageSpec => Spec`: the package's runs are runs of the harness |

A heap is described by what it promises, not by how it got there: `Kept(S, heap,
limit)` says that it is a part of the neighbours `S`, of size `limit` at most, and
that every neighbour it lacks has a full heap above it. `AdmitKeeps` is one row,
`AdmitAllKeeps` a list by least counterexample along the fold, `KeptAreBest` says
which rows those are. `MergeKept` is the merge: what one heap of several dropped
has `limit` better rows in it, so that merging loses nothing, and no row comes
twice because parts are different stretches of the corpus (`StretchesJoin`).
`InOrderLists` says that a heap's rows come out once each in any order,
`PartsReach` that the widths of the parts add up to the chunk (the division of
`div_ceil`, the last part shorter), `JoinKeeps` and `ExtendKeeps` carry
`KeptUpTo` through the threads. `KeptIsExact` compares with the exact oracle, whose
rank of a row counts the better ones in the whole corpus. The seeded fault of the run,
threads that number rows from the start of the chunk, fails in `BatchKept`.

`OracleInv` has what the files say: `StreamInv` that the corpus accepted so far
is the start of the source, by whole chunks (`NextChunk`); `BuilderInv` that an
index with as many rows as its builder pushed holds just these, even if others
append between two of its commits; `SidecarInv` that whoever finds the
generation the sidecar names, and the length of the corpus, finds the corpus. It
is the length that is needed: a build can end on the rows of somebody else,
and the sidecar then names their generation. `OracleInv` was checked with TLC on
`harness` before it was proved.

Of the certificates the module proves, for every precision of at least two bits,
dimension, length of a unit, error of the transform, table limit, quantizer, list
of rows and query, from `CertificateAssumption` and `VectorsAssumption`, and for
dot products every half-precision format from `DotProductAssumption`:

| Theorem | States |
|---|---|
| `TwoSumExact` | of two floating-point numbers, `two_sum` returns the rounded sum and exactly what the rounding lost |
| `CertificatesHoldTruth` | `CertificateSpec => []IntervalsHoldTruth` |
| `CosinesHoldTruth` | `DotSpec => []IntervalsHoldTruth` |
| `DotProductsHoldTruth` | `DotSpec => []DotIntervalsHoldTruth` |

The proof goes up in five layers.

* Recursive functions. `DoublingSolved` (powers, `Spacing`) and `CountedRecursion`
  (sums over coordinates) show by least counterexample that the recursions have
  solutions, and `CoordinateInduction` is the induction along a vector.
* Floating point. `RoundIsNearest`: no float is nearer to a number than its
  rounding; `NoneBetween` and `NextUpIsNext`: none lies between a float and the
  next. From these, that rounding is monotone (`RoundPassesNone`) and exact on
  floats (`RoundOfFloat`), and `UpwardAddAbove`, `UpwardMulAbove` and `RootAbove`:
  one `next_up` after a rounded operation is enough, the argument of
  `certificate.rs`. `TwoSumExact` rests on `ErrorIsFloat`, that the error of a
  rounded sum is itself a float, and goes by cases of which operand is longer.
* Vectors. `TotalAdds` and its like for sums, `DotSquared` for Cauchy-Schwarz
  (`SquaresJoin` adds one coordinate), `DotWithin` and `PlusWithin` for products and
  sums of vectors within given lengths. `OutwardDifferenceAbove`,
  `OutwardRefinedDifferenceAbove` and `OutwardL2Above` make a computed
  reconstruction error a bound on the true distance. Then the terms of epsilon:
  `TruthNear` (transform and reconstruction against the originals), `ServingAbove`
  (quantized tables and the conversion of the score), `EpsilonAbove`; and
  `BoundsHold`, that the interval around a score holds the truth.
* Dot products. `HalfLengthGrows` orders the half-precision lengths, so that
  `RadiusIsNearest` finds the stored radius between two neighbours and
  `StoredLengthHolds` the true length in `stored_length_interval`, also at the ties
  and at the largest finite half. `QueryLengthHolds` is the descent and ascent of
  `query_length`, `MultiplyHolds` that the extremes of a product of two intervals
  are among its four corners (`Corners`), whatever the signs.
* States. `CertificateInv` says that an accepted enumeration has the row
  numbers from zero, each once (`BlocksKept`), a certificate was built from its block's rows by one model
  (`CertificatesKept`), a score belongs to a row of the block whose certificate it
  names and to its model (`ScoreKept`), and an interval holds the truth of every row
  of its number (`IntervalKept`); `DotInv` adds the hit (`HitKept`). `AcceptedRows` gets the
  first from the checks of `from_rows`, whatever list was passed; it is why the row
  number a hit reports is enough. `CertificateInv` was checked with TLC on `certificates` first.

The two seeded faults of the run fail at one step each: blocks told apart by a
label leave `ScoreKept` unprovable in `ScorePrimaryKeeps`, and a stored radius taken
for the length is no `StoredLengthHolds`. Two things came out of the proof. The
score's error holds only for tables within `LargestEntry`, so that `PrepareQuery`
had to have the code's refusal of larger ones; and the assumption that rows are
within `Delta` of unit vectors, which the run's instance satisfied unsaid, is now
stated and evaluated by TLC.

`SearchPool_proofs` proves, for every number of callers and workers, every
division into segments and tiles, every set of queries and every number of
panics, from `SearchAssumption`:

| Theorem | States |
|---|---|
| `Inductive` | `Spec => []IInv` |
| `LeavesNoWork` | `Spec => []NoWorkAfterAnswer` |
| `CorruptWithCause` | `Spec => []CorruptForCause` |

Its `IInv` counts. What a call has still to receive (`Pending`) is its inbox, its
jobs in the queue and its jobs that run; `CountsRight` says that this is what the
caller waits for, and less only if a job of the call was lost. So a call that
waits for nothing leaves nothing behind, and one that is owed a reply nobody can
send has lost a job. `PoolSound` ties panics to dead workers and says the queue
goes with the last of them, which is why a failed send means that all have
panicked. `MatchAppend`, `MatchTail`, `RunningStarts` and `RunningEnds` count a
job in and out; `CallerMove` deals with the steps of a caller that leave the
queue alone. A call of which a job was lost waits for strictly more than is under
way (`NoneLost`): that is what keeps it from ever taking its heap for complete, so
that it neither answers nor fails in refinement but ends as `Corrupt`. The other
calls end so only when a send fails or, before any job, when `prepare_query` does;
`CorruptForCause` says both.

The module goes on to the answers, from the same assumption and
`QueriesAssumption` (every score is an integer, `k` and budget fit a `usize`):

| Theorem | States |
|---|---|
| `RankInductive` | `Spec => []RankInv` |
| `AnswersExactly` | `Spec => []ExactAnswer` |
| `FillsBudget` | `Spec => []BudgetFilled` |

First the operators, for all values. `Scan`, `Merge` and the sums of the tile
numbering are folds of the library, recursive functions over the subsets of a
finite set: `FoldExists` shows by least counterexample that such a recursion has
a solution, and `SubsetsReached` is the induction along it. `TilesSplit` says
that the tiles partition the rows, with short last tiles and segments of any
length, and that a range of tiles splits where a job ends. `AdmitKeeps` is the
heart: a heap into which the rows of a set went (`Kept`) lacks none of the rows
that are among the best of the whole index, because one that is turned away has a
full heap above it (`Outranked`). `ScanKeeps` and `MergeKeeps` carry it through a
job and a merge. `BestCount` counts the best: as many as the effective budget, so
a heap that lacks none of them is all of them (`HeapIsBest`), and `RankedIs` says
which rows the final order puts first.

Then the states. Merging needs that no row arrives twice: a row already in a full
heap would push the worst one out. So `RankInv` follows every row of a call by
its place (`Found`): the heap, the tiles not yet submitted, a reply in the inbox,
a queued job, a running one. A row has one place at most, and, unless a job of
the call was lost, every row of the best has one. Each step moves rows from place
to place: `Submit` splits the rest, `Take` and `Reply` carry a job's rows along,
`Receive` joins a reply to the heap. At `Refine` the call waits for nothing, so by
`CountsRight` no job was lost, every other place is empty, and the best are all
in the heap. `RankInv` was checked with TLC on the instances of `search_ranking`
and `search_pool` before it was proved.

`Drift_proofs` proves, for all rows, segments, splits, hash orders and draws, any
number of centroids, centers and iterations and any capacity of the sample, from
`TrainingAssumption`, `ModelAssumption` and `DriftAssumption` (rows and residuals
are sequences of values, an order permutes the rows it orders, a row of a commit
has a priority, counts that divide are not zero). `IterationsImprove`
takes `ResidualsAssumption` and `RowsAssumption` too: every cluster size divides every
value, so that means are exact. TLC evaluates them on the run.

| Theorem | States |
|---|---|
| `DriftInductive` | `DriftSpec => []DriftInv` |
| `SeedsNeverRepeat` | `DriftSpec => []SeedsDistinct` |
| `IterationsImprove` | `DriftSpec => ErrorNeverGrows` |
| `StopsWhereItSettled` | `DriftSpec => []StopsAtFixpoint` |
| `TrainedModelsAreKept` | `DriftSpec => []TrainedModelRestores` |
| `WholeCommitIsReported` | `DriftSpec => []ReportsWholeCommit` |

`DriftInv` has an invariant for each but the third, which has `ErrorInv` next to it;
TLC checked all on `model_training` first, with bounded sets for the numbers.

* `SeedInv`: the minimum of every seed but the last is zero, and of the last one
  too once its distance is counted in (`ClosenessIs`). A threshold never selects
  a row whose error is zero (`WeightedRowHasError`: the partial sums pass the
  threshold strictly, or the last row with an error is taken), and when every
  error is zero there are rows left, because there are at least as many rows as
  centroids (`RowLeft`).
* `LloydInv` and `FixInv`: an iteration has reseeded at most as many rows as it
  has updated centroids, so a row is always left for the next empty one; and as
  long as nothing has moved, assignments and the centroids updated so far are
  what they would become (`Settled`). One centroid that moves and is not
  remembered breaks it for all.
* `ErrorInv`: while an iteration replaces centroids one by one, the errors of the
  rows against the centroids as they are now (`Misfit`) add up to no more than the
  errors the iteration began with. Setting a centroid to the mean of its rows takes
  away the number of these rows times the square of the move (`MeanFitsBest`, from
  sums of combinations of lists, `SumsCombine`, and from `MeanIsExact`); a reseeded
  centroid represents no row at that moment, whichever row replaces it. The next
  assignment takes the nearest centroid for every row (`NearestIs`), so its errors are
  no more than `Misfit`. Where means are rounded this can fail: of 0, 1, 1, 1 the mean
  rounded down is 0, which is worse than 1.
* `ModelInv`: the tables of a training are canonical and the centers in order
  (`Ordered`), because the ranks of the quantiles grow with the center
  (`QuantileRankIs`) and the n-th value of a list grows with n (`NthGrows`); the
  same lemma puts the percentiles of a baseline in order (`SummaryIsValid`).
* `SampleInv`: the heap is what `Kept` says, the least `Capacity` of the samples
  so far, each of them below every sample that was dropped. `AddKeeps` is one
  sample, `AddAllKeeps` a segment; `KeptAreLeast` says that there is one such
  set, and that it does not depend on the order in which the samples came.

Only model-checked: every liveness property. They stay out of reach of the prover, as
do the induction rules that take a predicate; where an induction over numbers is needed, it is by
least counterexample.

The `TypeOK` of the store, the reader and the kernel, `Exclusion` and
`NeverScalar` are proved and not run: `ReadersSeeCurrent`, `ReadsInside` and
`ScoresExact` say more of the same states.

## Not modelled

* The transforms (`transform.rs`: expansion of a plan, Hadamard passes) and the
  products of a lookup table before they are rounded are floating-point programs
  whose content is their error; the models take that error as a parameter
  (`Delta`, the products of `TileKernel`). `REDUCTION_ALLOWANCE`, the padding of a
  dot product's interval, has no counterpart: the true product is exact here.
* The directory's own durability in its parent (`fs.rs:19`): the code does not
  sync the parent, and the design does not claim to survive a loss of power.
* Memory, and the contents of corrupted segment files beyond what `SegmentReader`
  rewrites and `OpenIndex` edits; files that change while an index is open, which
  `open.rs:48` excludes.
* `spherra-simd` is one dot product. The programs of `spherra-bench` that measure
  latency, memory and norms, the result files, the fuzz targets, scripts and
  tools keep no state that the others rely on.

## Plan

Done: `Manifest`, `Container` and `Files` with proofs, `IndexStore` with its abstract specification, the
refinement and proofs, `OpenIndex` with proofs, `SearchPool` with proofs, `SegmentFormat` and
`SegmentReader` with proofs, `TileKernel` with proofs, `Pq96Training` to `Drift`
with proofs, `Certificate` and `DotProduct` with proofs, `Harness` and `Oracle` with proofs.
What is left is the schedule of the transform and its error terms, in place of `Delta`.
