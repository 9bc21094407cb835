----------------------------- MODULE IndexStore -----------------------------
(***************************************************************************)
(* The on-disk index of crates/spherra: builders that create, append and   *)
(* commit generations (builder.rs, storage.rs), readers that open them     *)
(* (open.rs), the advisory lock between them (lock.rs), and the directory  *)
(* they share, with what a failed call, a killed process or a crash of the *)
(* whole machine leaves in it.                                             *)
(*                                                                         *)
(* Every file-system call that changes the directory is a step, so that a  *)
(* failure can fall between any two of them.  A file is named by its kind  *)
(* and the id or hash that makes it unique; what is in it follows from the *)
(* name, so a file is only missing, torn (its bytes are not all there) or  *)
(* whole.  Row payloads are members of Vectors.                            *)
(***************************************************************************)
EXTENDS Manifest, FiniteSets

CONSTANTS Builders,     \* processes that may hold an IndexBuilder
          Readers,      \* processes that may hold an open Index
          Vectors,      \* the rows a caller may push
          Models,       \* the trained models create() may produce
          MaxSegmentIds, MaxManifests,  \* bounds on the files ever staged
          MaxMishaps    \* bound on failed calls, kills and crashes

ASSUME StoreAssumption ==
    /\ Models \subseteq Nat
    /\ Builders \cap Readers = {}
    /\ MaxSegmentIds \in Nat /\ MaxManifests \in Nat /\ MaxMishaps \in Nat
    /\ MaxRows <= U64Max    \* 2^48 - 1 and 2^64 - 1

VARIABLES
    live,       \* the names a process sees in the directory
    sure,       \* the names that outlast a crash of the machine
    maybe,      \* the names a crash of the machine may leave
    torn,       \* names whose file does not hold all its bytes
    unsynced,   \* names whose file's bytes may not be on the disk yet
    current,    \* the manifest hash CURRENT names, NoHash when it is absent
    survivors,  \* the hashes a crash may leave CURRENT with
    manifests,  \* manifests[h] is the manifest whose file hashes to h
    segments,   \* segments[id] is the rows in segment id's pair of files
    builder,    \* the state of each builder
    reader,     \* the state of each reader
    acked,      \* history: the last manifest whose commit returned Ok
    mishaps     \* failures so far

disk == <<live, sure, maybe, torn, unsynced, current, survivors>>
files == <<live, sure, maybe, torn, unsynced>>
tables == <<manifests, segments>>
vars == <<disk, tables, builder, reader, acked, mishaps>>

-----------------------------------------------------------------------------
(* File names (storage::named, the segment suffixes, stage's .tmp names). *)

Kinds == {"model", "manifest", "primary", "residual", "CURRENT"}
Names == [kind : Kinds, id : Nat, tmp : BOOLEAN]

File(kind, id) == [kind |-> kind, id |-> id, tmp |-> FALSE]
Tmp(n)         == [n EXCEPT !.tmp = TRUE]
CurrentTmp     == [kind |-> "CURRENT", id |-> 0, tmp |-> TRUE]
NoFile         == [kind |-> "CURRENT", id |-> 0, tmp |-> FALSE]

\* What CURRENT would hold had its bytes been lost in a crash.
TornCurrent == -1

\* The files a manifest needs: its model's and its segments', and its own.
PartsOf(m) ==
    {File("model", m.model)}
        \cup {File(k, m.segments[i].id) :
                 k \in {"primary", "residual"}, i \in DOMAIN m.segments}

FilesOf(h) == {File("manifest", h)} \cup PartsOf(manifests[h])

Readable(h) ==
    /\ h \in DOMAIN manifests
    /\ FilesOf(h) \subseteq live \ torn

-----------------------------------------------------------------------------
(***************************************************************************)
(* The directory (fs.rs).  An entry that was created, renamed or removed   *)
(* is settled by the next sync of the directory; a file's bytes by a sync  *)
(* of the file.  Until then a crash may keep or lose each independently.   *)
(***************************************************************************)
FsWrite(n) ==
    /\ live' = live \cup {n}
    /\ maybe' = maybe \cup {n}
    /\ torn' = torn \ {n}
    /\ unsynced' = unsynced \cup {n}
    /\ UNCHANGED <<sure, current, survivors>>

FsSync(n) ==
    /\ unsynced' = unsynced \ {n}
    /\ UNCHANGED <<live, sure, maybe, torn, current, survivors>>

FsRename(from, to) ==
    /\ live' = (live \ {from}) \cup {to}
    /\ sure' = sure \ {from}
    /\ maybe' = maybe \cup {to}
    /\ torn' = IF from \in torn THEN torn \cup {to} ELSE torn \ {to}
    /\ unsynced' = IF from \in unsynced THEN unsynced \cup {to}
                                        ELSE unsynced \ {to}
    /\ UNCHANGED <<current, survivors>>

FsRenameToCurrent(h) ==
    /\ live' = live \ {CurrentTmp}
    /\ sure' = sure \ {CurrentTmp}
    /\ current' = h
    /\ survivors' = survivors \cup {h}
                     \cup {t \in {TornCurrent} : CurrentTmp \in unsynced}
    /\ UNCHANGED <<maybe, torn, unsynced>>

FsRemove(n) ==
    /\ live' = live \ {n}
    /\ sure' = sure \ {n}
    /\ UNCHANGED <<maybe, torn, unsynced, current, survivors>>

FsSyncDir ==
    /\ sure' = live
    /\ maybe' = live
    /\ torn' = torn \cap live
    /\ unsynced' = unsynced \cap live
    /\ survivors' = {current} \cup (survivors \cap {TornCurrent})
    /\ UNCHANGED <<live, current>>

\* A call that fails part way through writing leaves a torn temporary file.
FsTear(n) ==
    /\ live' = live \cup {n}
    /\ maybe' = maybe \cup {n}
    /\ torn' = torn \cup {n}
    /\ unsynced' = unsynced \cup {n}
    /\ UNCHANGED <<sure, current, survivors>>

-----------------------------------------------------------------------------
(* Processes. *)

NoManifest == [generation |-> 0, previous |-> NoHash, model |-> 0,
               total |-> 0, segments |-> <<>>]

Calls == {"none", "create", "append", "push", "commit", "tidy"}
Steps == {"idle", "probe", "load", "walk", "list", "remove", "ready",
          "stageWrite", "stageSync", "stageRename", "stageDir",
          "swapWrite", "swapSync", "swapRename", "swapDir"}

BuilderRecord ==
    [pc : Steps,
     call : Calls,               \* the API call being executed
     draft : ManifestRecord,     \* IndexBuilder.manifest
     firstRow : Nat, added : Nat,
     originals : Seq(Vectors),   \* rows not yet in a segment
     poisoned : BOOLEAN,
     target : Names,             \* the file being staged
     walk : Nat, level : Nat,    \* cleanup's hash and generation
     keep : SUBSET Names, victims : SUBSET Names,
     pushed : Seq(Vectors)]      \* history: the rows push gave a RowId

NoBuilder ==
    [pc |-> "idle", call |-> "none", draft |-> NoManifest, firstRow |-> 0,
     added |-> 0, originals |-> <<>>, poisoned |-> FALSE, target |-> NoFile,
     walk |-> NoHash, level |-> 0, keep |-> {}, victims |-> {},
     pushed |-> <<>>]

ReaderRecord == [pc : {"idle", "load", "open", "serving"}, hash : Nat]
NoReader == [pc |-> "idle", hash |-> NoHash]

\* flock: a process holds the lock from acquire until its handle is dropped.
NoBuilderHolds == \A q \in Builders : builder[q].pc = "idle"
NoReaderHolds  == \A r \in Readers : reader[r].pc = "idle"

\* Seeded fault: a builder's lock acquired without regard to readers.
LockIgnoringReaders == NoBuilderHolds

CanLockExclusive == NoBuilderHolds /\ NoReaderHolds
CanLockShared    == NoBuilderHolds

At(p, step) == builder[p].pc = step

Become(p, b) == builder' = [builder EXCEPT ![p] = b]
Goto(p, step) == builder' = [builder EXCEPT ![p].pc = step]

\* Seeded fault: the builder stays usable after a push failed.
FailedUnpoisoned(b) ==
    IF b.call = "push"
    THEN [b EXCEPT !.pc = "ready", !.call = "none", !.target = NoFile]
    ELSE NoBuilder

\* Any error drops the builder, except that a failed push only poisons it.
Failed(b) ==
    IF b.call = "push"
    THEN [b EXCEPT !.pc = "ready", !.call = "none", !.poisoned = TRUE,
                   !.target = NoFile]
    ELSE NoBuilder

\* Cleanup after a published commit is best effort: the commit still succeeds.
Fail(p) ==
    /\ Become(p, Failed(builder[p]))
    /\ acked' = IF builder[p].call = "tidy" THEN current ELSE acked

Init ==
    /\ live = {} /\ sure = {} /\ maybe = {} /\ torn = {} /\ unsynced = {}
    /\ current = NoHash /\ survivors = {NoHash}
    /\ manifests = <<>> /\ segments = <<>>
    /\ builder = [p \in Builders |-> NoBuilder]
    /\ reader = [r \in Readers |-> NoReader]
    /\ acked = NoHash
    /\ mishaps = 0

-----------------------------------------------------------------------------
(* create and append. *)

\* create_with_fs up to its exclusive lock; IndexBusy changes nothing.
BeginCreate(p, m) ==
    /\ At(p, "idle")
    /\ CanLockExclusive
    /\ Become(p, [NoBuilder EXCEPT
           !.pc = "probe", !.call = "create",
           !.draft = [NoManifest EXCEPT !.model = m]])
    /\ UNCHANGED <<disk, tables, reader, acked, mishaps>>

\* CURRENT must be absent: AlreadyExists otherwise.  Then cleanup(None).
Probe(p) ==
    /\ At(p, "probe")
    /\ IF current = NoHash THEN Goto(p, "list") ELSE Become(p, NoBuilder)
    /\ UNCHANGED <<disk, tables, reader, acked, mishaps>>

BeginAppend(p) ==
    /\ At(p, "idle")
    /\ CanLockExclusive
    /\ Become(p, [NoBuilder EXCEPT !.pc = "load", !.call = "append"])
    /\ UNCHANGED <<disk, tables, reader, acked, mishaps>>

\* storage::load, then verify_segment of every entry, then cleanup(Some).
AppendLoad(p) ==
    /\ At(p, "load")
    /\ IF Readable(current) /\ Valid(manifests[current],
                                     manifests[current].generation)
       THEN Become(p, [builder[p] EXCEPT
                !.pc = "walk",
                !.draft = manifests[current],
                !.firstRow = manifests[current].total,
                !.walk = current,
                !.level = manifests[current].generation])
       ELSE Become(p, NoBuilder)
    /\ UNCHANGED <<disk, tables, reader, acked, mishaps>>

-----------------------------------------------------------------------------
(***************************************************************************)
(* storage::cleanup.  One Walk per turn of the loop over the committed     *)
(* predecessor chain; the chain must count generations down to 1.  Then    *)
(* the directory is listed, every owned name not kept is removed, and the  *)
(* directory is synced.                                                    *)
(***************************************************************************)
ChainError(h, level) ==
    \/ ~ (h \in DOMAIN manifests /\ File("manifest", h) \in live \ torn)
    \/ ~ Valid(manifests[h], level)
    \/ (level = 1) # (manifests[h].previous = NoHash)

\* Seeded fault: the loop never moves on to the predecessor.
WalkedInPlace(b) == [b EXCEPT !.keep = @ \cup FilesOf(b.walk)]

Walked(b) ==
    [b EXCEPT !.keep = @ \cup FilesOf(b.walk),
              !.walk = manifests[b.walk].previous,
              !.level = b.level - 1,
              !.pc = IF b.level = 1 THEN "list" ELSE "walk"]

Walk(p) ==
    LET b == builder[p] IN
    /\ At(p, "walk")
    /\ IF ChainError(b.walk, b.level)
       THEN Fail(p)
       ELSE Become(p, Walked(b)) /\ UNCHANGED acked
    /\ UNCHANGED <<disk, tables, reader, mishaps>>

\* Seeded fault: only the newest generation of the chain is kept.
ListKeepingNewest(p) ==
    /\ At(p, "list")
    /\ Become(p, [builder[p] EXCEPT !.pc = "remove",
                      !.victims = live \ IF current = NoHash THEN {}
                                                    ELSE FilesOf(current)])
    /\ UNCHANGED <<disk, tables, reader, acked, mishaps>>

\* Seeded fault: a temporary file's name is not recognised as owned.
ListIgnoringTmp(p) ==
    /\ At(p, "list")
    /\ Become(p, [builder[p] EXCEPT !.pc = "remove",
                      !.victims = {n \in live \ builder[p].keep : ~ n.tmp}])
    /\ UNCHANGED <<disk, tables, reader, acked, mishaps>>

List(p) ==
    /\ At(p, "list")
    /\ Become(p, [builder[p] EXCEPT !.pc = "remove",
                                    !.victims = live \ builder[p].keep])
    /\ UNCHANGED <<disk, tables, reader, acked, mishaps>>

RemoveOrphan(p) ==
    /\ At(p, "remove")
    /\ \E n \in builder[p].victims :
          /\ FsRemove(n)
          /\ Become(p, [builder[p] EXCEPT !.victims = @ \ {n}])
    /\ UNCHANGED <<tables, reader, acked, mishaps>>

\* The end of cleanup: create goes on to stage its model, append starts the
\* next generation, and commit returns Ok.
Cleaned(b) ==
    [b EXCEPT !.walk = NoHash, !.level = 0, !.keep = {}, !.victims = {}]

\* Seeded fault: the next generation does not name the one it extends.
SuccessorUnlinked(m) == [m EXCEPT !.generation = @ + 1]

\* The manifest append starts from: the loaded one, one generation on.
Successor(m) == [m EXCEPT !.generation = @ + 1, !.previous = current]

CleanupSync(p) ==
    LET b == Cleaned(builder[p]) IN
    /\ At(p, "remove")
    /\ builder[p].victims = {}
    /\ FsSyncDir
    /\ Become(p,
         CASE b.call = "create" ->
                [b EXCEPT !.pc = "stageWrite",
                          !.target = File("model", b.draft.model)]
           [] b.call = "append" ->
                [b EXCEPT !.pc = "ready", !.call = "none",
                          !.draft = Successor(@)]
           [] OTHER -> NoBuilder)
    /\ acked' = IF b.call = "tidy" THEN current ELSE acked
    /\ UNCHANGED <<tables, reader, mishaps>>

-----------------------------------------------------------------------------
(* push and commit, up to the file they stage first. *)

\* stage_segment with rows to stage: a fresh id, and its primary file first.
BeginSegment(b, call) ==
    [b EXCEPT !.pc = "stageWrite", !.call = call,
              !.target = File("primary", Len(segments) + 1)]

\* push returns the RowId of the row it took last.
Returned(b) == [b EXCEPT !.pushed = Append(@, b.originals[Len(b.originals)])]

Push(p, v) ==
    LET b == builder[p]
        taken == [b EXCEPT !.originals = Append(@, v), !.added = @ + 1]
    IN  /\ At(p, "ready")
        /\ ~ b.poisoned
        /\ b.firstRow + b.added < MaxRows                        \* RowLimit
        /\ b.originals # <<>> \/ Len(b.draft.segments) < MaxSegments
                                                             \* SegmentLimit
        /\ IF Len(taken.originals) = MaxSegmentRows
           THEN /\ Len(segments) < MaxSegmentIds
                /\ Become(p, BeginSegment(taken, "push"))
                /\ segments' = Append(segments, taken.originals)
           ELSE /\ Become(p, Returned(taken))
                /\ UNCHANGED segments
        /\ UNCHANGED <<disk, manifests, reader, acked, mishaps>>

\* The manifest of the new generation, and the step that stages it.
Sealed(b) == [b.draft EXCEPT !.total = b.firstRow + b.added]

BeginManifest(b) ==
    [b EXCEPT !.pc = "stageWrite", !.call = "commit", !.draft = Sealed(b),
              !.target = File("manifest", Len(manifests) + 1)]

SealManifest(p, b) ==
    IF Valid(Sealed(b), b.draft.generation)
    THEN /\ Become(p, BeginManifest(b))
         /\ manifests' = Append(manifests, Sealed(b))
    ELSE /\ Become(p, NoBuilder)
         /\ UNCHANGED manifests

\* commit of a poisoned or empty builder is an error, and consumes it.
CommitRefused(p) ==
    /\ At(p, "ready")
    /\ builder[p].poisoned \/ builder[p].added = 0
    /\ Become(p, NoBuilder)
    /\ UNCHANGED <<disk, tables, reader, acked, mishaps>>

Commit(p) ==
    LET b == builder[p] IN
    /\ At(p, "ready")
    /\ ~ b.poisoned /\ b.added > 0
    /\ Len(manifests) < MaxManifests
    /\ IF b.originals = <<>>
       THEN SealManifest(p, b) /\ UNCHANGED segments
       ELSE IF Len(b.draft.segments) >= MaxSegments          \* SegmentLimit
       THEN Become(p, NoBuilder) /\ UNCHANGED tables
       ELSE /\ Len(segments) < MaxSegmentIds
            /\ Become(p, BeginSegment(b, "commit"))
            /\ segments' = Append(segments, b.originals)
            /\ UNCHANGED manifests
    /\ UNCHANGED <<disk, reader, acked, mishaps>>

\* Dropping the builder publishes nothing and releases the lock.
DropBuilder(p) ==
    /\ At(p, "ready")
    /\ Become(p, NoBuilder)
    /\ UNCHANGED <<disk, tables, reader, acked, mishaps>>

-----------------------------------------------------------------------------
(***************************************************************************)
(* storage::stage: write and read back a temporary file, sync it, rename   *)
(* it to its final name, sync the directory.  What follows depends on the  *)
(* file that was staged.                                                   *)
(***************************************************************************)
StageWrite(p) ==
    /\ At(p, "stageWrite")
    /\ FsWrite(Tmp(builder[p].target))
    /\ Goto(p, "stageSync")
    /\ UNCHANGED <<tables, reader, acked, mishaps>>

\* Seeded fault: the staged file is renamed without having been synced.
StageUnsynced(p) ==
    /\ At(p, "stageSync")
    /\ Goto(p, "stageRename")
    /\ UNCHANGED <<disk, tables, reader, acked, mishaps>>

StageSync(p) ==
    /\ At(p, "stageSync")
    /\ FsSync(Tmp(builder[p].target))
    /\ Goto(p, "stageRename")
    /\ UNCHANGED <<tables, reader, acked, mishaps>>

StageRename(p) ==
    /\ At(p, "stageRename")
    /\ FsRename(Tmp(builder[p].target), builder[p].target)
    /\ Goto(p, "stageDir")
    /\ UNCHANGED <<tables, reader, acked, mishaps>>

Ready(b) == [b EXCEPT !.pc = "ready", !.call = "none", !.target = NoFile]

\* The segment's files are both durable: record it and free its originals.
Recorded(b) ==
    [b EXCEPT !.draft.segments = Append(@,
                  [id    |-> b.target.id,
                   first |-> b.firstRow + b.added - Len(b.originals),
                   count |-> Len(b.originals)]),
              !.originals = <<>>]

Staged(p, b) ==
    \/ /\ b.target.kind = "model"
       /\ Become(p, [Ready(b) EXCEPT !.draft.generation = 1])
       /\ UNCHANGED manifests
    \/ /\ b.target.kind = "primary"
       /\ Become(p, [b EXCEPT !.pc = "stageWrite",
                              !.target = File("residual", b.target.id)])
       /\ UNCHANGED manifests
    \/ /\ b.target.kind = "residual" /\ b.call = "push"
       /\ Become(p, Ready(Recorded(Returned(b))))
       /\ UNCHANGED manifests
    \/ /\ b.target.kind = "residual" /\ b.call = "commit"
       /\ SealManifest(p, Recorded(b))
    \/ /\ b.target.kind = "manifest"
       /\ Become(p, [b EXCEPT !.pc = "swapWrite"])
       /\ UNCHANGED manifests

StageDir(p) ==
    /\ At(p, "stageDir")
    /\ FsSyncDir
    /\ Staged(p, builder[p])
    /\ UNCHANGED <<segments, reader, acked, mishaps>>

-----------------------------------------------------------------------------
(* commit's publication: CURRENT.tmp is created exclusively, written,      *)
(* synced and renamed over CURRENT; then the directory is synced.          *)

SwapWrite(p) ==
    /\ At(p, "swapWrite")
    /\ IF CurrentTmp \in live
       THEN /\ Become(p, NoBuilder)
            /\ UNCHANGED disk
       ELSE /\ FsWrite(CurrentTmp)
            /\ Goto(p, "swapSync")
    /\ UNCHANGED <<tables, reader, acked, mishaps>>

\* Seeded fault: CURRENT.tmp is renamed without having been synced.
SwapUnsynced(p) ==
    /\ At(p, "swapSync")
    /\ Goto(p, "swapRename")
    /\ UNCHANGED <<disk, tables, reader, acked, mishaps>>

SwapSync(p) ==
    /\ At(p, "swapSync")
    /\ FsSync(CurrentTmp)
    /\ Goto(p, "swapRename")
    /\ UNCHANGED <<tables, reader, acked, mishaps>>

SwapRename(p) ==
    /\ At(p, "swapRename")
    /\ FsRenameToCurrent(builder[p].target.id)
    /\ Goto(p, "swapDir")
    /\ UNCHANGED <<tables, reader, acked, mishaps>>

\* Seeded fault: commit goes on to cleanup, and to Ok, without the sync.
SwapDirUnsynced(p) ==
    /\ At(p, "swapDir")
    /\ Become(p, [builder[p] EXCEPT
           !.pc = "walk", !.call = "tidy",
           !.walk = builder[p].target.id,
           !.level = builder[p].draft.generation])
    /\ UNCHANGED <<disk, tables, reader, acked, mishaps>>

\* A failure here is CommitOutcomeUnknown: see FsError.
SwapDir(p) ==
    /\ At(p, "swapDir")
    /\ FsSyncDir
    /\ Become(p, [builder[p] EXCEPT
           !.pc = "walk", !.call = "tidy",
           !.walk = builder[p].target.id,
           !.level = builder[p].draft.generation])
    /\ UNCHANGED <<tables, reader, acked, mishaps>>

-----------------------------------------------------------------------------
(* Readers: Index::open takes the shared lock, loads what CURRENT names,   *)
(* opens every segment, and holds the lock until the Index is dropped.     *)

OpenLock(r) ==
    /\ reader[r].pc = "idle"
    /\ CanLockShared
    /\ reader' = [reader EXCEPT ![r].pc = "load"]
    /\ UNCHANGED <<disk, tables, builder, acked, mishaps>>

OpenLoad(r) ==
    /\ reader[r].pc = "load"
    /\ reader' = [reader EXCEPT ![r] =
          IF /\ current \in DOMAIN manifests
             /\ {File("manifest", current),
                 File("model", manifests[current].model)} \subseteq live \ torn
             /\ Valid(manifests[current], manifests[current].generation)
          THEN [pc |-> "open", hash |-> current]
          ELSE NoReader]
    /\ UNCHANGED <<disk, tables, builder, acked, mishaps>>

OpenSegments(r) ==
    /\ reader[r].pc = "open"
    /\ reader' = [reader EXCEPT ![r] =
          IF Readable(reader[r].hash) THEN [@ EXCEPT !.pc = "serving"]
                                      ELSE NoReader]
    /\ UNCHANGED <<disk, tables, builder, acked, mishaps>>

CloseReader(r) ==
    /\ reader[r].pc # "idle"
    /\ reader' = [reader EXCEPT ![r] = NoReader]
    /\ UNCHANGED <<disk, tables, builder, acked, mishaps>>

-----------------------------------------------------------------------------
(* Failures. *)

Mishap == mishaps < MaxMishaps /\ mishaps' = mishaps + 1

\* A file-system call returns an error.  A failed write may leave a torn file.
FsError(p) ==
    /\ ~ At(p, "idle") /\ ~ At(p, "ready")
    /\ Mishap
    /\ Fail(p)
    /\ \/ UNCHANGED disk
       \/ At(p, "stageWrite") /\ FsTear(Tmp(builder[p].target))
       \/ At(p, "swapWrite") /\ CurrentTmp \notin live /\ FsTear(CurrentTmp)
    /\ UNCHANGED <<tables, reader>>

\* The builder's process is killed; the directory keeps what it did.
Kill(p) ==
    /\ ~ At(p, "idle")
    /\ Mishap
    /\ Become(p, NoBuilder)
    /\ UNCHANGED <<disk, tables, reader, acked>>

\* The machine stops.  Each unsettled entry is kept or lost on its own.
Crash ==
    /\ Mishap
    /\ \E kept \in SUBSET (maybe \ sure), lost \in SUBSET unsynced :
          /\ live' = sure \cup kept
          /\ torn' = (torn \cup lost) \cap (sure \cup kept)
    /\ sure' = live' /\ maybe' = live' /\ unsynced' = {}
    /\ \E h \in survivors : current' = h /\ survivors' = {h}
    /\ builder' = [p \in Builders |-> NoBuilder]
    /\ reader' = [r \in Readers |-> NoReader]
    /\ UNCHANGED <<tables, acked>>

-----------------------------------------------------------------------------
(* What a builder does inside a call, and what its caller chooses to do. *)

BuilderStep(p) ==
    \/ Probe(p) \/ AppendLoad(p)
    \/ Walk(p) \/ List(p) \/ RemoveOrphan(p) \/ CleanupSync(p)
    \/ StageWrite(p) \/ StageSync(p) \/ StageRename(p) \/ StageDir(p)
    \/ SwapWrite(p) \/ SwapSync(p) \/ SwapRename(p) \/ SwapDir(p)

BuilderCall(p) ==
    \/ \E m \in Models : BeginCreate(p, m)
    \/ BeginAppend(p)
    \/ \E v \in Vectors : Push(p, v)
    \/ CommitRefused(p) \/ Commit(p) \/ DropBuilder(p)

ReaderStep(r) == OpenLock(r) \/ OpenLoad(r) \/ OpenSegments(r) \/ CloseReader(r)

Next ==
    \/ \E p \in Builders : BuilderStep(p) \/ BuilderCall(p)
    \/ \E r \in Readers : ReaderStep(r)
    \/ \E p \in Builders : FsError(p) \/ Kill(p)
    \/ Crash

Spec == Init /\ [][Next]_vars

\* A call, once entered, runs: the code has no wait in it but the calls above.
FairSpec == Spec /\ \A p \in Builders : WF_vars(BuilderStep(p))

-----------------------------------------------------------------------------
(* Properties. *)

TypeOK ==
    /\ live \subseteq Names /\ sure \subseteq Names /\ maybe \subseteq Names
    /\ torn \subseteq Names /\ unsynced \subseteq Names
    /\ current \in Nat \cup {TornCurrent}
    /\ survivors \subseteq Nat \cup {TornCurrent}
    /\ manifests \in Seq(ManifestRecord)
    /\ segments \in Seq(Seq(Vectors))
    /\ builder \in [Builders -> BuilderRecord]
    /\ reader \in [Readers -> ReaderRecord]
    /\ acked \in Nat \cup {TornCurrent}
    /\ mishaps \in 0 .. MaxMishaps

\* At most one builder holds the index, and none while a reader holds it.
Exclusion ==
    /\ \A p, q \in Builders : ~ At(p, "idle") /\ ~ At(q, "idle") => p = q
    /\ ~ NoReaderHolds => NoBuilderHolds

\* Whatever a crash of the machine leaves in CURRENT, at any moment, it is
\* either absent or names a manifest all of whose files are whole and settled
\* on the disk ("A crash at any point leaves Absent, the previous generation,
\* or the new generation - never a mix").
Recoverable ==
    \A h \in survivors \ {NoHash} :
        /\ h \in DOMAIN manifests
        /\ FilesOf(h) \subseteq sure \ (torn \cup unsynced)

\* A reader that has the lock and has loaded a generation finds every file of
\* it, and that generation stays the published one until the reader lets go.
ReadersSeeCurrent ==
    \A r \in Readers : reader[r].pc \in {"open", "serving"} =>
        reader[r].hash = current /\ Readable(current)

\* The manifests a hash leads back to through the previous fields.
Chain(h) ==
    LET back[g \in 0 .. Len(manifests)] ==
            IF g = NoHash THEN {} ELSE {g} \cup back[manifests[g].previous]
    IN  back[h]

\* Cleanup keeps every committed predecessor, not only the newest: the files
\* of the whole chain of whatever CURRENT may hold after a crash are settled.
ChainKept ==
    \A h \in survivors : \A g \in Chain(h) :
        FilesOf(g) \subseteq sure \ (torn \cup unsynced)

\* A builder starts from a directory without leftovers: whatever earlier
\* builders, killed or failed anywhere, had staged is gone.
StartsClean ==
    \A p \in Builders : At(p, "ready") /\ builder[p].added = 0 =>
        live = {File("model", builder[p].draft.model)}
                  \cup UNION {FilesOf(g) : g \in Chain(current)}

\* Once commit has returned Ok, no crash takes the generation back: every
\* value CURRENT can be left with is that manifest or one built on it.
AckedSurvives ==
    acked # NoHash => \A h \in survivors : h # NoHash /\ acked \in Chain(h)

\* A commit that has rows to publish fails only if a file-system call or the
\* process does: push has already refused every row that would not fit, the
\* sealed manifest is valid, and no stale CURRENT.tmp is in the way.
CommitFailsOnlyOnMishap ==
    [][\A p \in Builders :
          Commit(p) \/ builder[p].call = "commit" =>
              builder'[p].pc # "idle" \/ mishaps' # mishaps]_vars

\* CURRENT is replaced only by the rename of a commit, and only by the next
\* generation on top of what it held; a commit that fails before its rename
\* leaves it alone.
PublishesSuccessor ==
    [][current' # current /\ current' \notin survivors =>
          \E p \in Builders :
              /\ At(p, "swapRename")
              /\ manifests[current'].previous = current
              /\ manifests[current'].generation =
                    IF current = NoHash THEN 1
                    ELSE manifests[current].generation + 1]_vars

\* Every call of a builder returns.
CallsReturn ==
    \A p \in Builders :
        builder[p].pc \notin {"idle", "ready"} ~>
            builder[p].pc \in {"idle", "ready"}
=============================================================================
