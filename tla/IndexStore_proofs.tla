------------------------- MODULE IndexStore_proofs --------------------------
(***************************************************************************)
(* The safety of IndexStore for every number of builders, readers, rows,   *)
(* generations and failures.  First IInv, which is inductive, and what     *)
(* follows from it.  Then what a reader of the index may rely on over its  *)
(* whole history: that no committed generation is ever damaged, that a     *)
(* commit once acknowledged stays, that a builder starts clean, that       *)
(* commit publishes the rows that were pushed, and that the store          *)
(* implements CommittedIndex.  Four invariants are proved on top of IInv,  *)
(* each from the ones before it: ChainInv, CleanInv, FitInv and RowInv.    *)
(* Recursion, over a chain or over a sequence, is taken apart by least     *)
(* counterexample (LeastNatural).                                          *)
(***************************************************************************)
EXTENDS IndexStoreRefinement, TLAPS, WellFoundedInduction, SequenceTheorems

\* The names that outlast a crash with all their bytes.
Durable == sure \ (torn \cup unsynced)

Staging  == {"stageWrite", "stageSync", "stageRename", "stageDir"}
Swapping == {"swapWrite", "swapSync", "swapRename"}

NextGeneration ==
    IF current = NoHash THEN 1 ELSE manifests[current].generation + 1

\* A builder whose draft the next commit may publish.
Drafting(b) ==
    \/ b.pc = "ready"
    \/ b.pc \in Staging /\ b.target.kind # "model"
    \/ b.pc \in Swapping

\* The draft extends the published generation, which nothing else can change
\* meanwhile, and the files it already lists are settled.
DraftSound(b) ==
    Drafting(b) =>
        /\ survivors = {current}
        /\ b.draft.previous = current
        /\ b.draft.generation = NextGeneration
        /\ PartsOf(b.draft) \subseteq Durable

\* Cleanup has yet to visit a generation a crash may leave, or keeps its files.
WalkSound(b) ==
    b.pc = "walk" =>
        /\ b.call \in {"append", "tidy"}
        /\ \A h \in survivors \ {NoHash} :
              \/ FilesOf(h) \subseteq b.keep
              \/ h = b.walk
              \/ b.walk = current /\ h = manifests[current].previous

\* Cleanup keeps, and never removes, what a crash may leave published.
KeepSound(b) ==
    /\ b.pc \in {"list", "remove"} =>
          /\ b.call \in {"create", "append", "tidy"}
          /\ \A h \in survivors \ {NoHash} : FilesOf(h) \subseteq b.keep
    /\ b.pc = "remove" => b.victims \cap b.keep = {}

\* What a call knows of CURRENT from the moment it has read it.
CallSound(b) ==
    /\ b.pc = "probe" => b.call = "create"
    /\ b.pc = "load" => b.call = "append"
    /\ b.pc = "ready" => b.call = "none"
    /\ b.call = "push" => b.pc \in Staging /\ b.target.kind # "model"
    /\ b.call = "create" =>
          /\ b.draft.previous = NoHash /\ b.draft.segments = <<>>
          /\ b.pc # "probe" => current = NoHash
    /\ b.call = "append" /\ b.pc \in {"walk", "list", "remove"} =>
          /\ current \in DOMAIN manifests
          /\ b.draft = manifests[current]

\* A builder stages a segment only for rows it has.
RowsSound(b) ==
    /\ Len(b.originals) <= b.added
    /\ b.pc \in Staging /\ b.target.kind \in {"primary", "residual"} =>
          b.originals # <<>>

\* How far the file being staged has got.
StageSound(b) ==
    /\ b.pc \in Staging =>
          /\ b.target = File(b.target.kind, b.target.id)
          /\ \/ /\ b.target.kind = "model" /\ b.call = "create"
                /\ b.target.id = b.draft.model
             \/ b.target.kind = "primary" /\ b.call \in {"push", "commit"}
             \/ /\ b.target.kind = "residual" /\ b.call \in {"push", "commit"}
                /\ File("primary", b.target.id) \in Durable
             \/ /\ b.target.kind = "manifest" /\ b.call = "commit"
                /\ b.target.id \in DOMAIN manifests
                /\ manifests[b.target.id] = b.draft
    /\ b.pc = "stageSync" => Tmp(b.target) \notin torn
    /\ b.pc = "stageRename" => Tmp(b.target) \notin torn \cup unsynced
    /\ b.pc = "stageDir" => b.target \in live \ (torn \cup unsynced)

\* The manifest being published, and all it lists, is settled.
SwapSound(b) ==
    /\ b.pc \in Swapping \cup {"swapDir"} =>
          /\ b.call = "commit"
          /\ b.target.id \in DOMAIN manifests
          /\ manifests[b.target.id] = b.draft
          /\ FilesOf(b.target.id) \subseteq Durable
    /\ b.pc = "swapRename" => CurrentTmp \notin unsynced
    /\ b.pc = "swapDir" => current = b.target.id

\* What holds of a builder that is not idle, that is, has the lock.
Sound(b) ==
    b.pc # "idle" =>
        /\ DraftSound(b) /\ WalkSound(b) /\ KeepSound(b) /\ CallSound(b)
        /\ RowsSound(b) /\ StageSound(b) /\ SwapSound(b)

\* CURRENT and the one other value a crash may leave in it.
CurrentSound ==
    /\ current \in survivors
    /\ \A h \in survivors :
          \/ h = current
          \/ current \in DOMAIN manifests /\ h = manifests[current].previous

\* A reader that has loaded a generation has loaded the published one.
ReaderSound ==
    \A r \in Readers : reader[r].pc \in {"open", "serving"} =>
        reader[r].hash = current /\ current \in DOMAIN manifests

\* The inductive invariant.
IInv ==
    /\ TypeOK
    /\ Exclusion
    /\ sure \subseteq live
    /\ CurrentSound
    /\ Recoverable
    /\ ReaderSound
    /\ \A p \in Builders : Sound(builder[p])

-----------------------------------------------------------------------------

\* Every name the model builds is a file name.
LEMMA NameType ==
    /\ \A k \in Kinds, i \in Nat : File(k, i) \in Names
    /\ \A n \in Names : Tmp(n) \in Names
    /\ CurrentTmp \in Names /\ NoFile \in Names
    /\ \A m \in ManifestRecord : PartsOf(m) \subseteq Names
  <1>1. \A k \in Kinds, i \in Nat : File(k, i) \in Names
    BY DEF File, Names
  <1>2. \A n \in Names : Tmp(n) \in Names
    BY DEF Tmp, Names
  <1>3. CurrentTmp \in Names /\ NoFile \in Names
    BY DEF CurrentTmp, NoFile, Names, Kinds
  <1>4. ASSUME NEW m \in ManifestRecord PROVE PartsOf(m) \subseteq Names
    <2>1. m.model \in Nat /\ \A i \in DOMAIN m.segments : m.segments[i].id \in Nat
      <3>1. m.model \in Nat /\ m.segments \in Seq(SegmentEntry)
        BY DEF ManifestRecord
      <3>2. \A i \in DOMAIN m.segments : m.segments[i] \in SegmentEntry
        BY <3>1
      <3> QED BY <3>1, <3>2 DEF SegmentEntry
    <2> QED BY <1>1, <2>1 DEF PartsOf, Kinds
  <1> QED BY <1>1, <1>2, <1>3, <1>4

\* A dropped builder is a builder record.
LEMMA NoBuilderType == NoBuilder \in BuilderRecord
  BY NameType DEF NoBuilder, BuilderRecord, NoManifest, ManifestRecord, NoHash,
     Steps, Calls

\* So is what a failed call leaves,
LEMMA FailedType ==
    ASSUME NEW b \in BuilderRecord PROVE Failed(b) \in BuilderRecord
  <1>1. CASE b.call = "push"
    <2>1. [b EXCEPT !.pc = "ready", !.call = "none", !.poisoned = TRUE, !.target = NoFile] \in BuilderRecord
      BY NameType DEF BuilderRecord, Steps, Calls
    <2> QED BY <1>1, <2>1 DEF Failed
  <1>2. CASE b.call # "push"
    BY <1>2, NoBuilderType DEF Failed
  <1> QED BY <1>1, <1>2

\* a builder whose call has returned,
LEMMA ReadyType ==
    ASSUME NEW b \in BuilderRecord PROVE Ready(b) \in BuilderRecord
  BY NameType DEF Ready, BuilderRecord, Steps, Calls

\* a builder whose push has returned a RowId,
LEMMA ReturnedType ==
    ASSUME NEW b \in BuilderRecord, b.originals # <<>> PROVE Returned(b) \in BuilderRecord
  <1>1. b.originals \in Seq(Vectors) /\ b.pushed \in Seq(Vectors)
    BY DEF BuilderRecord
  <1>2. b.originals[Len(b.originals)] \in Vectors
    BY <1>1
  <1>3. Append(b.pushed, b.originals[Len(b.originals)]) \in Seq(Vectors)
    BY <1>1, <1>2
  <1> QED BY <1>3 DEF Returned, BuilderRecord

\* a builder that has recorded a segment, whose first row is then no
\* lower than 0,
LEMMA RecordedType ==
    ASSUME NEW b \in BuilderRecord, Len(b.originals) <= b.added
    PROVE Recorded(b) \in BuilderRecord
  <1> DEFINE e == [id    |-> b.target.id,
                   first |-> b.firstRow + b.added - Len(b.originals),
                   count |-> Len(b.originals)]
             d == [b.draft EXCEPT !.segments = Append(@, e)]
  <1>1. /\ b.target \in Names /\ b.firstRow \in Nat /\ b.added \in Nat
        /\ b.originals \in Seq(Vectors) /\ b.draft \in ManifestRecord
    BY DEF BuilderRecord
  <1>2. e \in SegmentEntry
    BY <1>1 DEF SegmentEntry, Names
  <1> HIDE DEF e
  <1>3. d \in ManifestRecord
    <2>1. b.draft.segments \in Seq(SegmentEntry)
      BY <1>1 DEF ManifestRecord
    <2>2. Append(b.draft.segments, e) \in Seq(SegmentEntry)
      BY <1>2, <2>1
    <2> QED BY <1>1, <2>2 DEF ManifestRecord
  <1>4. Recorded(b) = [b EXCEPT !.draft = d, !.originals = <<>>]
    BY DEF e, Recorded, BuilderRecord, ManifestRecord
  <1>5. <<>> \in Seq(Vectors) OBVIOUS
  <1> HIDE DEF d
  <1> QED BY <1>3, <1>4, <1>5 DEF BuilderRecord

\* the manifest a commit seals,
LEMMA SealedType ==
    ASSUME NEW b \in BuilderRecord
    PROVE Sealed(b) \in ManifestRecord
  <1>1. b.draft \in ManifestRecord /\ b.firstRow \in Nat /\ b.added \in Nat
    BY DEF BuilderRecord
  <1>2. b.firstRow + b.added \in Nat
    BY <1>1
  <1> QED BY <1>1, <1>2 DEF Sealed, ManifestRecord

\* the manifest an append starts from,
LEMMA SuccessorType ==
    ASSUME NEW m \in ManifestRecord, current \in Nat
    PROVE  Successor(m) \in ManifestRecord
  <1>1. m.generation + 1 \in Nat
    BY DEF ManifestRecord
  <1> QED BY <1>1 DEF Successor, ManifestRecord

\* and a builder at the end of its cleanup.
LEMMA CleanedType ==
    ASSUME NEW b \in BuilderRecord
    PROVE Cleaned(b) \in BuilderRecord
  BY  DEF Cleaned, BuilderRecord, NoHash

-----------------------------------------------------------------------------
\* TypeOK without the builders and the readers.
StoreTypeOK ==
    /\ live \subseteq Names /\ sure \subseteq Names /\ maybe \subseteq Names
    /\ torn \subseteq Names /\ unsynced \subseteq Names
    /\ current \in Nat \cup {TornCurrent}
    /\ survivors \subseteq Nat \cup {TornCurrent}
    /\ manifests \in Seq(ManifestRecord)
    /\ segments \in Seq(Seq(Vectors))
    /\ acked \in Nat \cup {TornCurrent}
    /\ mishaps \in 0 .. MaxMishaps

\* Manifests are only ever added.
Grows ==
    \A h \in DOMAIN manifests :
        h \in DOMAIN manifests' /\ manifests'[h] = manifests[h]

\* No settled file is lost, but for temporary ones.
StillDurable == \A n \in Durable : ~ n.tmp => n \in Durable'

\* No manifest needs a temporary file.
LEMMA PartsFinal ==
    /\ \A m \in ManifestRecord : \A n \in PartsOf(m) : ~ n.tmp
    /\ \A h : \A n \in FilesOf(h) : h \in DOMAIN manifests /\ TypeOK => ~ n.tmp
  <1>1. \A m \in ManifestRecord : \A n \in PartsOf(m) : ~ n.tmp
    BY DEF PartsOf, File
  <1>2. \A h : \A n \in FilesOf(h) : h \in DOMAIN manifests /\ TypeOK => ~ n.tmp
    BY <1>1 DEF FilesOf, File, TypeOK
  <1> QED BY <1>1, <1>2

\* A step of one builder, which has the lock or can have it, keeps the lock
\* exclusive and what is known of readers and of the other builders.
LEMMA BuilderMove ==
    ASSUME IInv, NEW p \in Builders, At(p, "idle") => CanLockExclusive,
           NEW b \in BuilderRecord, builder' = [builder EXCEPT ![p] = b],
           reader' = reader
    PROVE  /\ builder' \in [Builders -> BuilderRecord]
           /\ builder'[p] = b
           /\ Exclusion' /\ ReaderSound'
           /\ Sound(builder[p])' => \A q \in Builders : Sound(builder[q])'
  <1>1. builder' \in [Builders -> BuilderRecord] /\ builder'[p] = b
    BY DEF IInv, TypeOK
  <1>2. NoReaderHolds /\ \A q \in Builders \ {p} : builder[q].pc = "idle"
    BY DEF IInv, Exclusion, At, CanLockExclusive, NoReaderHolds, NoBuilderHolds
  <1>3. \A q \in Builders \ {p} : builder'[q].pc = "idle"
    BY <1>2 DEF IInv, TypeOK
  <1>4. Exclusion'
    BY <1>2, <1>3 DEF Exclusion, NoReaderHolds, At
  <1>5. ReaderSound'
    BY <1>2 DEF NoReaderHolds, ReaderSound
  <1>6. \A q \in Builders \ {p} : Sound(builder[q])'
    BY <1>3 DEF Sound
  <1> QED BY <1>1, <1>4, <1>5, <1>6

\* A manifest that was there keeps its files when others are added.
LEMMA SameFiles ==
    ASSUME Grows, NEW h \in DOMAIN manifests
    PROVE  FilesOf(h)' = FilesOf(h)
  BY DEF Grows, FilesOf, PartsOf, File

\* The hash that ends a chain of predecessors names no manifest.
LEMMA NoHashEndsChain ==
    ASSUME TypeOK PROVE NoHash \notin DOMAIN manifests
  <1>1. manifests \in Seq(ManifestRecord)
    BY DEF TypeOK
  <1>2. DOMAIN manifests = 1 .. Len(manifests)
    BY <1>1
  <1> QED BY <1>2 DEF NoHash

\* A step that leaves CURRENT alone and loses no settled file keeps what a
\* crash may leave recoverable.
LEMMA CalmDisk ==
    ASSUME IInv, StoreTypeOK', Grows, StillDurable, current' = current,
           survivors' = survivors \/ survivors' = {current}
    PROVE  CurrentSound' /\ Recoverable'
  <1>1. CurrentSound'
    BY DEF IInv, CurrentSound, Grows
  <1>2. Recoverable'
    <2> SUFFICES ASSUME NEW h \in survivors', h # NoHash
                 PROVE  h \in DOMAIN manifests' /\ FilesOf(h)' \subseteq Durable'
      BY DEF Recoverable, Durable
    <2>1. h \in survivors
      BY DEF IInv, CurrentSound
    <2>2. h \in DOMAIN manifests /\ FilesOf(h) \subseteq Durable
      BY <2>1 DEF IInv, Recoverable, Durable
    <2>3. \A n \in FilesOf(h) : ~ n.tmp
      BY <2>2, PartsFinal DEF IInv
    <2>4. FilesOf(h)' = FilesOf(h)
      BY <2>2, SameFiles
    <2> QED BY <2>2, <2>3, <2>4 DEF StillDurable, Grows
  <1> QED BY <1>1, <1>2

\* The directory's steps.
DirOK == StoreTypeOK' /\ (sure \subseteq live)' /\ StillDurable

\* Each step of the directory keeps its types, and every settled file that
\* is not temporary stays settled: no step at all,
LEMMA SameDisk ==
    ASSUME IInv, UNCHANGED disk, UNCHANGED segments \/ segments' \in Seq(Seq(Vectors)),
           manifests' \in Seq(ManifestRecord), acked' \in {acked, current},
           mishaps' \in 0 .. MaxMishaps
    PROVE  DirOK
  BY DEF IInv, TypeOK, disk, DirOK, StoreTypeOK, StillDurable, Durable

\* the writing of a temporary file, to its end or not,
LEMMA WriteDisk ==
    ASSUME IInv, NEW n \in Names, n.tmp, FsWrite(n) \/ FsTear(n), UNCHANGED tables,
           acked' \in {acked, current}, mishaps' \in 0 .. MaxMishaps
    PROVE  DirOK
  BY DEF IInv, TypeOK, FsWrite, FsTear, tables, DirOK, StoreTypeOK,
     StillDurable, Durable

\* the sync of a file,
LEMMA SyncDisk ==
    ASSUME IInv, NEW n \in Names, FsSync(n), UNCHANGED <<tables, acked, mishaps>>
    PROVE  DirOK
  BY DEF IInv, TypeOK, FsSync, tables, DirOK, StoreTypeOK, StillDurable,
     Durable

\* the rename of a synced temporary file to its final name,
LEMMA RenameDisk ==
    ASSUME IInv, NEW n \in Names, FsRename(Tmp(n), n), Tmp(n) \notin torn \cup unsynced,
           UNCHANGED <<tables, acked, mishaps>>
    PROVE  DirOK
  <1>1. Tmp(n) \in Names /\ Tmp(n).tmp
    BY DEF Names, Tmp
  <1> QED
    BY <1>1 DEF IInv, TypeOK, FsRename, tables, DirOK, StoreTypeOK,
       StillDurable, Durable

\* and the sync of the directory, which also settles CURRENT.
LEMMA SyncDirDisk ==
    ASSUME IInv, FsSyncDir, UNCHANGED segments, manifests' \in Seq(ManifestRecord),
           acked' \in {acked, current}, UNCHANGED mishaps
    PROVE  DirOK /\ current' = current /\ survivors' = {current}
  <1>1. TornCurrent \notin survivors
    BY DEF IInv, Recoverable, TornCurrent, NoHash, TypeOK
  <1> QED
    BY <1>1 DEF IInv, TypeOK, FsSyncDir, tables, DirOK, StoreTypeOK,
       StillDurable, Durable

\* A builder's step that leaves CURRENT alone keeps the invariant if it keeps
\* the builder's own part of it.
LEMMA CalmMove ==
    ASSUME IInv, NEW p \in Builders, At(p, "idle") => CanLockExclusive,
           NEW b \in BuilderRecord, builder' = [builder EXCEPT ![p] = b],
           reader' = reader,
           DirOK, Grows, current' = current,
           survivors' = survivors \/ survivors' = {current},
           Sound(builder[p])'
    PROVE  IInv'
  <1>1. CurrentSound' /\ Recoverable'
    BY CalmDisk DEF DirOK
  <1>2. /\ builder' \in [Builders -> BuilderRecord]
        /\ Exclusion' /\ ReaderSound'
        /\ \A q \in Builders : Sound(builder[q])'
    BY BuilderMove
  <1>3. TypeOK'
    BY <1>2 DEF DirOK, StoreTypeOK, TypeOK, IInv
  <1> QED BY <1>1, <1>2, <1>3 DEF IInv, DirOK

\* create takes the lock when no other process has it.
LEMMA BeginCreateStep ==
    ASSUME IInv, NEW p \in Builders, NEW m \in Models, BeginCreate(p, m)
    PROVE  IInv'
  <1> DEFINE d == [NoManifest EXCEPT !.model = m]
             b == [NoBuilder EXCEPT !.pc = "probe", !.call = "create", !.draft = d]
  <1>1. d \in ManifestRecord /\ d.previous = NoHash /\ d.segments = <<>>
    <2>1. /\ NoManifest \in ManifestRecord
          /\ NoManifest.previous = NoHash /\ NoManifest.segments = <<>>
      BY DEF NoManifest, ManifestRecord, NoHash
    <2> QED BY <2>1, StoreAssumption DEF ManifestRecord
  <1> HIDE DEF d
  <1>2. b \in BuilderRecord
    BY <1>1, NoBuilderType DEF BuilderRecord, Steps, Calls
  <1>3. /\ b.pc = "probe" /\ b.call = "create" /\ b.draft = d
        /\ Len(b.originals) = 0 /\ b.added = 0
    BY DEF NoBuilder
  <1>4. builder' = [builder EXCEPT ![p] = b] /\ reader' = reader
    BY DEF BeginCreate, Become, d
  <1>5. builder'[p] = b
    BY <1>4 DEF IInv, TypeOK
  <1> HIDE DEF b
  <1>6. Sound(builder[p])'
    BY <1>1, <1>3, <1>5 DEF Sound, DraftSound, Drafting, WalkSound, KeepSound,
       CallSound, RowsSound, StageSound, SwapSound, Staging, Swapping
  <1>7. DirOK /\ Grows /\ UNCHANGED <<current, survivors>>
    BY SameDisk DEF BeginCreate, IInv, TypeOK, Grows, tables, disk
  <1> QED BY <1>2, <1>4, <1>6, <1>7, CalmMove DEF BeginCreate

\* No file that is kept becomes a victim.
LEMMA ListStep ==
    ASSUME IInv, NEW p \in Builders, List(p)
    PROVE  IInv'
  <1> DEFINE b == [builder[p] EXCEPT !.pc = "remove", !.victims = live \ builder[p].keep]
  <1>1. builder[p] \in BuilderRecord /\ Sound(builder[p]) /\ live \subseteq Names
    BY DEF IInv, TypeOK
  <1>3. b \in BuilderRecord
    BY <1>1 DEF BuilderRecord, Steps
  <1>4. builder' = [builder EXCEPT ![p] = b] /\ reader' = reader
    BY DEF List, Become
  <1>5. builder'[p] = b
    BY <1>4 DEF IInv, TypeOK
  <1>7. DirOK /\ Grows /\ UNCHANGED <<disk, tables>>
    BY SameDisk DEF List, IInv, TypeOK, Grows, tables, disk
  <1>6. Sound(builder[p])'
    BY <1>1, <1>5, <1>7 DEF List, Sound, DraftSound, Drafting, WalkSound,
       KeepSound, CallSound, RowsSound, StageSound, SwapSound, Staging,
       Swapping, BuilderRecord, disk, tables, Durable, At, FilesOf, PartsOf
  <1> HIDE DEF b
  <1> QED BY <1>3, <1>4, <1>6, <1>7, CalmMove DEF disk, List, At

\* A call that ends, however it ends, leaves nothing to be kept of its builder.
LEMMA DropMove ==
    ASSUME IInv, NEW p \in Builders, ~ At(p, "idle"), Become(p, NoBuilder),
           reader' = reader, DirOK, Grows, current' = current,
           survivors' = survivors \/ survivors' = {current}
    PROVE  IInv'
  <1>1. builder' = [builder EXCEPT ![p] = NoBuilder]
    BY DEF Become
  <1>2. builder'[p] = NoBuilder
    BY <1>1 DEF IInv, TypeOK
  <1>3. Sound(builder[p])'
    BY <1>2 DEF Sound, NoBuilder
  <1> QED BY <1>1, <1>3, NoBuilderType, CalmMove

\* What a draft relies on survives a step that leaves CURRENT alone.
LEMMA DraftKept ==
    ASSUME IInv, NEW p \in Builders, Drafting(builder[p]), DirOK, Grows,
           current' = current, survivors' = survivors \/ survivors' = {current}
    PROVE  /\ survivors' = {current'}
           /\ builder[p].draft.previous = current'
           /\ builder[p].draft.generation = NextGeneration'
           /\ PartsOf(builder[p].draft) \subseteq Durable'
  <1>1. DraftSound(builder[p]) /\ builder[p].draft \in ManifestRecord
    BY DEF IInv, Sound, Drafting, Staging, Swapping, TypeOK, BuilderRecord
  <1>2. current = NoHash \/ current \in DOMAIN manifests
    BY DEF IInv, CurrentSound, Recoverable
  <1>3. NextGeneration' = NextGeneration
    BY <1>2 DEF NextGeneration, Grows
  <1>4. \A n \in PartsOf(builder[p].draft) : ~ n.tmp
    BY <1>1, PartsFinal
  <1> QED BY <1>1, <1>3, <1>4 DEF DraftSound, DirOK, StillDurable

\* A call that fails keeps the invariant, a poisoned builder included.
LEMMA FailMove ==
    ASSUME IInv, NEW p \in Builders, ~ At(p, "idle"),
           Become(p, Failed(builder[p])), reader' = reader, DirOK, Grows,
           UNCHANGED <<current, survivors>>
    PROVE  IInv'
  <1> DEFINE b == Failed(builder[p])
  <1>1. CASE builder[p].call = "push"
    <2>1. builder[p] \in BuilderRecord /\ Sound(builder[p]) /\ Drafting(builder[p])
      BY <1>1 DEF IInv, TypeOK, Sound, CallSound, Drafting, At
    <2>2. /\ b \in BuilderRecord
          /\ b.pc = "ready" /\ b.call = "none" /\ b.draft = builder[p].draft
          /\ b.originals = builder[p].originals /\ b.added = builder[p].added
      BY <1>1, <2>1, FailedType DEF Failed, BuilderRecord
    <2> HIDE DEF b
    <2>3. builder' = [builder EXCEPT ![p] = b]
      BY DEF Become, b
    <2>4. builder'[p] = b
      BY <2>3 DEF IInv, TypeOK
    <2>5. DraftSound(builder[p])'
      BY <2>1, <2>2, <2>4, DraftKept DEF DraftSound
    <2>6. Len(b.originals) <= b.added
      BY <2>1, <2>2 DEF Sound, RowsSound, At
    <2>7. Sound(builder[p])'
      BY <2>2, <2>4, <2>5, <2>6 DEF Sound, WalkSound, KeepSound, CallSound,
         RowsSound, StageSound, SwapSound, Staging, Swapping
    <2> QED BY <2>2, <2>3, <2>7, CalmMove
  <1>2. CASE builder[p].call # "push"
    BY <1>2, DropMove DEF Failed
  <1> QED BY <1>1, <1>2

\* When create finds no CURRENT there is nothing to keep.
LEMMA ProbeStep ==
    ASSUME IInv, NEW p \in Builders, Probe(p)
    PROVE  IInv'
  <1>1. DirOK /\ Grows /\ UNCHANGED <<disk, tables>>
    BY SameDisk DEF Probe, IInv, TypeOK, Grows, tables, disk
  <1>2. CASE current = NoHash
    <2> DEFINE b == [builder[p] EXCEPT !.pc = "list"]
    <2>1. builder[p] \in BuilderRecord /\ Sound(builder[p])
      BY DEF IInv, TypeOK
    <2>2. b \in BuilderRecord
      BY <2>1 DEF BuilderRecord, Steps
    <2>3. builder' = [builder EXCEPT ![p] = b]
      BY <1>2 DEF Probe, Goto
    <2>4. builder'[p] = b
      BY <2>3 DEF IInv, TypeOK
    <2>5. survivors = {NoHash}
      BY <1>2, NoHashEndsChain DEF IInv, CurrentSound
    <2>6. Sound(builder[p])'
      BY <1>1, <1>2, <2>1, <2>4, <2>5 DEF Probe, At, disk, BuilderRecord,
         Sound, DraftSound, Drafting, WalkSound, KeepSound, CallSound,
         RowsSound, StageSound, SwapSound, Staging, Swapping
    <2> HIDE DEF b
    <2> QED BY <1>1, <2>2, <2>3, <2>6, CalmMove DEF Probe, At, disk
  <1>3. CASE current # NoHash
    BY <1>1, <1>3, DropMove DEF Probe, At, disk
  <1> QED BY <1>2, <1>3

\* append takes the lock when no other process has it.
LEMMA BeginAppendStep ==
    ASSUME IInv, NEW p \in Builders, BeginAppend(p)
    PROVE  IInv'
  <1> DEFINE b == [NoBuilder EXCEPT !.pc = "load", !.call = "append"]
  <1>1. b \in BuilderRecord
    BY NoBuilderType DEF BuilderRecord, Steps, Calls
  <1>2. b.pc = "load" /\ b.call = "append" /\ Len(b.originals) = 0 /\ b.added = 0
    BY DEF NoBuilder
  <1>3. builder' = [builder EXCEPT ![p] = b] /\ reader' = reader
    BY DEF BeginAppend, Become
  <1>4. builder'[p] = b
    BY <1>3 DEF IInv, TypeOK
  <1> HIDE DEF b
  <1>5. Sound(builder[p])'
    BY <1>2, <1>4 DEF Sound, DraftSound, Drafting, WalkSound, KeepSound,
       CallSound, RowsSound, StageSound, SwapSound, Staging, Swapping
  <1>6. DirOK /\ Grows /\ UNCHANGED <<current, survivors>>
    BY SameDisk DEF BeginAppend, IInv, TypeOK, Grows, tables, disk
  <1> QED BY <1>1, <1>3, <1>5, <1>6, CalmMove DEF BeginAppend

\* append starts its walk at CURRENT, so a crash can only leave that or the
\* predecessor its walk comes to next.
LEMMA AppendLoadStep ==
    ASSUME IInv, NEW p \in Builders, AppendLoad(p)
    PROVE  IInv'
  <1>1. DirOK /\ Grows /\ UNCHANGED <<disk, tables>>
    BY SameDisk DEF AppendLoad, IInv, TypeOK, Grows, tables, disk
  <1> DEFINE m == manifests[current]
             b == [builder[p] EXCEPT !.pc = "walk", !.draft = m, !.firstRow = m.total,
                                     !.walk = current, !.level = m.generation]
  <1>2. CASE Become(p, NoBuilder)
    BY <1>1, <1>2, DropMove DEF AppendLoad, At, disk
  <1>3. CASE Readable(current) /\ Become(p, b)
    <2>1. builder[p] \in BuilderRecord /\ Sound(builder[p])
      BY DEF IInv, TypeOK
    <2>2. current \in DOMAIN manifests /\ m \in ManifestRecord /\ current \in Nat
      BY <1>3 DEF Readable, IInv, TypeOK
    <2>3. m.total \in Nat /\ m.generation \in Nat
      BY <2>2 DEF ManifestRecord
    <2> HIDE DEF m
    <2>4. b \in BuilderRecord
      BY <2>1, <2>2, <2>3 DEF BuilderRecord, Steps
    <2>5. builder' = [builder EXCEPT ![p] = b] /\ reader' = reader
      BY <1>3 DEF Become, AppendLoad
    <2>6. builder'[p] = b
      BY <2>5 DEF IInv, TypeOK
    <2>7. /\ b.pc = "walk" /\ b.call = "append" /\ b.draft = m /\ b.walk = current
          /\ b.originals = builder[p].originals /\ b.added = builder[p].added
      BY <2>1 DEF BuilderRecord, Sound, CallSound, AppendLoad, At
    <2>8. \A h \in survivors \ {NoHash} : h = current \/ h = manifests[current].previous
      BY DEF IInv, CurrentSound
    <2> HIDE DEF b
    <2>9. Sound(builder[p])'
      BY <1>1, <2>1, <2>2, <2>6, <2>7, <2>8 DEF m, AppendLoad, At, disk,
         tables, Sound, DraftSound, Drafting, WalkSound, KeepSound, CallSound,
         RowsSound, StageSound, SwapSound, Staging, Swapping
    <2> QED BY <1>1, <2>4, <2>5, <2>9, CalmMove DEF AppendLoad, At, disk
  <1> QED BY <1>2, <1>3 DEF AppendLoad

\* The walk keeps the files of every generation a crash may leave: it visits
\* CURRENT first and its predecessor second.
LEMMA WalkStep ==
    ASSUME IInv, NEW p \in Builders, Walk(p)
    PROVE  IInv'
  <1>1. DirOK /\ Grows /\ UNCHANGED <<disk, tables>> /\ reader' = reader /\ ~ At(p, "idle")
    BY SameDisk DEF Walk, Fail, IInv, TypeOK, Grows, tables, disk, At
  <1> DEFINE c == builder[p]
             b == Walked(c)
  <1>2. CASE Fail(p)
    BY <1>1, <1>2, FailMove DEF Fail, disk
  <1>3. CASE ~ ChainError(c.walk, c.level) /\ Become(p, b)
    <2>1. c \in BuilderRecord /\ Sound(c) /\ c.pc = "walk"
      BY DEF IInv, TypeOK, Walk, At
    <2>2. /\ c.walk \in DOMAIN manifests
          /\ Valid(manifests[c.walk], c.level)
          /\ c.level = 1 => manifests[c.walk].previous = NoHash
      BY <1>3 DEF ChainError
    <2>3. manifests[c.walk] \in ManifestRecord
      BY <2>2 DEF IInv, TypeOK
    <2>4. manifests[c.walk].previous \in Nat /\ c.level \in Nat /\ c.level # 0
      BY <2>1, <2>2, <2>3 DEF ManifestRecord, BuilderRecord, Valid, Validate
    <2>5. FilesOf(c.walk) \subseteq Names
      <3>1. File("manifest", c.walk) \in Names
        BY <2>1, NameType DEF BuilderRecord, Kinds
      <3> QED BY <2>3, <3>1, NameType DEF FilesOf
    <2> HIDE DEF c
    <2>6. b \in BuilderRecord
      <3>1. c.level - 1 \in Nat /\ c.keep \cup FilesOf(c.walk) \subseteq Names
        BY <2>1, <2>4, <2>5 DEF BuilderRecord
      <3>2. (IF c.level = 1 THEN "list" ELSE "walk") \in Steps
        BY DEF Steps
      <3> QED BY <2>1, <2>4, <3>1, <3>2 DEF Walked, BuilderRecord
    <2>7. /\ b.pc = (IF c.level = 1 THEN "list" ELSE "walk")
          /\ b.call = c.call /\ b.draft = c.draft
          /\ b.keep = c.keep \cup FilesOf(c.walk)
          /\ b.walk = manifests[c.walk].previous
          /\ b.originals = c.originals /\ b.added = c.added
      BY <2>1 DEF Walked, BuilderRecord
    <2>8. builder' = [builder EXCEPT ![p] = b]
      BY <1>3 DEF Become
    <2>9. builder'[p] = b
      BY <2>8 DEF IInv, TypeOK
    <2> HIDE DEF b
    <2>10. \A h \in survivors \ {NoHash} :
              FilesOf(h) \subseteq b.keep \/ h = b.walk
      BY <2>1, <2>7 DEF Sound, WalkSound
    <2>11. b.pc = "list" => b.walk = NoHash
      BY <2>2, <2>7
    <2>12. DraftSound(builder[p])' /\ RowsSound(builder[p])' /\ SwapSound(builder[p])'
      BY <2>1, <2>7, <2>9 DEF Sound, DraftSound, Drafting, RowsSound,
         SwapSound, Staging, Swapping
    <2>13. WalkSound(builder[p])' /\ KeepSound(builder[p])'
      <3>1. UNCHANGED <<survivors, manifests, current>>
        BY <1>1 DEF disk, tables
      <3>2. b.call \in {"append", "tidy"}
        BY <2>1, <2>7 DEF Sound, WalkSound
      <3>3. \A h : FilesOf(h)' = FilesOf(h)
        BY <3>1 DEF FilesOf, PartsOf, File
      <3> QED BY <2>7, <2>9, <2>10, <2>11, <3>1, <3>2, <3>3 DEF WalkSound,
         KeepSound
    <2>14. CallSound(builder[p])' /\ StageSound(builder[p])'
      BY <1>1, <2>1, <2>7, <2>9 DEF Sound, WalkSound, CallSound, StageSound,
         Staging, disk, tables
    <2> QED BY <1>1, <2>6, <2>8, <2>9, <2>12, <2>13, <2>14, CalmMove DEF Sound,
       disk
  <1> QED BY <1>2, <1>3 DEF Walk

\* A builder that goes away keeps the invariant.
LEMMA DropSteps ==
    ASSUME IInv, NEW p \in Builders, CommitRefused(p) \/ DropBuilder(p) \/ Kill(p)
    PROVE  IInv'
  <1>1. mishaps' \in 0 .. MaxMishaps
    BY StoreAssumption DEF CommitRefused, DropBuilder, Kill, Mishap, IInv,
       TypeOK
  <1>2. DirOK /\ Grows /\ UNCHANGED disk
    BY <1>1, SameDisk DEF CommitRefused, DropBuilder, Kill, Mishap, IInv,
       TypeOK, Grows, tables, disk
  <1> QED BY <1>2, DropMove DEF CommitRefused, DropBuilder, Kill, At, disk

\* The end of cleanup: the next draft follows what is published and settled.
LEMMA CleanupSyncStep ==
    ASSUME IInv, NEW p \in Builders, CleanupSync(p)
    PROVE  IInv'
  <1>1. DirOK /\ UNCHANGED current /\ survivors' = {current}
    BY SyncDirDisk DEF CleanupSync, IInv, TypeOK, tables
  <1>2. Grows /\ UNCHANGED manifests
    BY DEF CleanupSync, tables, Grows
  <1> DEFINE c == builder[p]
  <1>3. c \in BuilderRecord /\ Sound(c) /\ c.pc = "remove" /\ reader' = reader
    BY DEF IInv, TypeOK, CleanupSync, At
  <1>0. Cleaned(c).call = c.call /\ Cleaned(c).draft = c.draft
    BY <1>3 DEF Cleaned, BuilderRecord
  <1>4. CASE c.call = "create"
    <2> DEFINE b == [Cleaned(c) EXCEPT !.pc = "stageWrite",
                                       !.target = File("model", c.draft.model)]
    <2>1. c.draft.model \in Nat
      BY <1>3 DEF BuilderRecord, ManifestRecord
    <2>2. File("model", c.draft.model) \in Names
      BY <2>1, NameType DEF Kinds
    <2> HIDE DEF c
    <2>3. b \in BuilderRecord
      BY <1>3, <2>2, CleanedType DEF BuilderRecord, Steps
    <2>4. /\ b.pc = "stageWrite" /\ b.call = "create" /\ b.draft = c.draft
          /\ b.target = File("model", c.draft.model)
          /\ b.originals = c.originals /\ b.added = c.added
      BY <1>3, <1>4 DEF Cleaned, BuilderRecord
    <2>5. builder' = [builder EXCEPT ![p] = b]
      BY <1>0, <1>4, <2>4 DEF CleanupSync, Become, c
    <2>6. builder'[p] = b
      BY <2>5 DEF IInv, TypeOK
    <2> HIDE DEF b
    <2>8. /\ b.target.kind = "model" /\ b.target = File(b.target.kind, b.target.id)
          /\ b.target.id = b.draft.model
      BY <2>4 DEF File
    <2>7. Sound(builder[p])'
      BY <1>1, <1>3, <1>4, <2>4, <2>6, <2>8 DEF Sound, DraftSound, Drafting,
         WalkSound, KeepSound, CallSound, RowsSound, StageSound, SwapSound,
         Staging, Swapping
    <2> QED BY <1>1, <1>2, <1>3, <2>3, <2>5, <2>7, CalmMove DEF At, c
  <1>5. CASE c.call = "append"
    <2> DEFINE b == [Cleaned(c) EXCEPT !.pc = "ready", !.call = "none",
                                       !.draft = Successor(@)]
    <2>1. /\ current \in DOMAIN manifests /\ c.draft = manifests[current]
          /\ c.draft \in ManifestRecord
      BY <1>3, <1>5 DEF Sound, CallSound, BuilderRecord
    <2>2. current \in Nat /\ current # NoHash
      BY <2>1, NoHashEndsChain DEF IInv, TypeOK
    <2> HIDE DEF c
    <2>3. b = [Cleaned(c) EXCEPT !.pc = "ready", !.call = "none",
                                 !.draft = Successor(c.draft)]
      BY <1>3 DEF Cleaned, BuilderRecord
    <2>4. Successor(c.draft) \in ManifestRecord
      BY <2>1, <2>2, SuccessorType
    <2>5. b \in BuilderRecord
      <3>1. Cleaned(c) \in BuilderRecord
        BY <1>3, CleanedType
      <3>2. "ready" \in Steps /\ "none" \in Calls
        BY DEF Steps, Calls
      <3>3. QED
        BY <2>3, <2>4, <3>1, <3>2 DEF BuilderRecord
    <2>6. /\ b.pc = "ready" /\ b.call = "none" /\ b.draft = Successor(c.draft)
          /\ b.originals = c.originals /\ b.added = c.added
      BY <1>3 DEF Cleaned, BuilderRecord
    <2>7. builder' = [builder EXCEPT ![p] = b]
      BY <1>0, <1>5 DEF CleanupSync, Become, c
    <2>8. builder'[p] = b
      BY <2>7 DEF IInv, TypeOK
    <2> HIDE DEF b
    <2>9. /\ b.draft.previous = current
          /\ b.draft.generation = NextGeneration'
          /\ PartsOf(b.draft) = PartsOf(manifests[current])
      BY <1>1, <1>2, <2>1, <2>2, <2>6 DEF Successor, NextGeneration, PartsOf,
         ManifestRecord
    <2>10. PartsOf(b.draft) \subseteq Durable'
      <3>1. PartsOf(manifests[current]) \subseteq Durable
        BY <2>1, <2>2 DEF IInv, CurrentSound, Recoverable, Durable, FilesOf
      <3>2. \A n \in PartsOf(manifests[current]) : ~ n.tmp
        BY <2>1, PartsFinal
      <3> QED BY <1>1, <2>9, <3>1, <3>2 DEF DirOK, StillDurable
    <2>11. Sound(builder[p])'
      BY <1>1, <1>3, <2>6, <2>8, <2>9, <2>10 DEF Sound, DraftSound, Drafting,
         WalkSound, KeepSound, CallSound, RowsSound, StageSound, SwapSound,
         Staging, Swapping
    <2> QED BY <1>1, <1>2, <1>3, <2>5, <2>7, <2>11, CalmMove DEF At, c
  <1>6. CASE c.call \notin {"create", "append"}
    <2>1. Become(p, NoBuilder)
      BY <1>0, <1>6 DEF CleanupSync
    <2> QED BY <1>1, <1>2, <1>3, <2>1, DropMove DEF At
  <1> QED BY <1>4, <1>5, <1>6

\* Removing an orphan takes no file of a generation a crash may leave.
LEMMA RemoveOrphanStep ==
    ASSUME IInv, NEW p \in Builders, RemoveOrphan(p)
    PROVE  IInv'
  <1> DEFINE c == builder[p]
  <1>1. PICK n \in c.victims :
           FsRemove(n) /\ Become(p, [c EXCEPT !.victims = @ \ {n}])
    BY DEF RemoveOrphan
  <1>2. /\ c \in BuilderRecord /\ Sound(c) /\ c.pc = "remove" /\ reader' = reader
        /\ UNCHANGED <<current, survivors, manifests>>
    BY <1>1 DEF IInv, TypeOK, RemoveOrphan, At, FsRemove, tables
  <1>3. Grows
    BY <1>2 DEF Grows
  <1>4. StoreTypeOK' /\ (sure \subseteq live)'
    BY <1>1 DEF RemoveOrphan, IInv, TypeOK, FsRemove, StoreTypeOK, tables
  <1>5. Durable' = Durable \ {n}
    BY <1>1 DEF Durable, FsRemove
  <1>6. \A h \in survivors \ {NoHash} : n \notin FilesOf(h)
    BY <1>2 DEF Sound, KeepSound
  <1>7. \A h : FilesOf(h)' = FilesOf(h)
    BY <1>2 DEF FilesOf, PartsOf, File
  <1>8. CurrentSound' /\ Recoverable'
    BY <1>2, <1>5, <1>6, <1>7 DEF IInv, CurrentSound, Recoverable, Durable
  <1> DEFINE b == [c EXCEPT !.victims = @ \ {n}]
  <1>9. builder' = [builder EXCEPT ![p] = b]
    BY <1>1 DEF Become
  <1> HIDE DEF c
  <1>10. b \in BuilderRecord
    BY <1>2 DEF BuilderRecord
  <1>11. /\ b.pc = "remove" /\ b.call = c.call /\ b.draft = c.draft /\ b.keep = c.keep
         /\ b.victims = c.victims \ {n}
         /\ b.originals = c.originals /\ b.added = c.added
    BY <1>2 DEF BuilderRecord
  <1> HIDE DEF b
  <1>12. builder'[p] = b
    BY <1>9 DEF IInv, TypeOK
  <1>13. Sound(builder[p])'
    BY <1>2, <1>7, <1>11, <1>12 DEF Sound, DraftSound, Drafting, WalkSound,
       KeepSound, CallSound, RowsSound, StageSound, SwapSound, Staging,
       Swapping
  <1>14. /\ builder' \in [Builders -> BuilderRecord]
         /\ Exclusion' /\ ReaderSound'
         /\ \A q \in Builders : Sound(builder[q])'
    BY <1>2, <1>9, <1>10, <1>13, BuilderMove DEF At, c
  <1>15. TypeOK'
    BY <1>2, <1>4, <1>14 DEF TypeOK, StoreTypeOK, IInv
  <1> QED BY <1>4, <1>8, <1>14, <1>15 DEF IInv

\* Starting a segment gives a builder record.
LEMMA BeginSegmentType ==
    ASSUME NEW b \in BuilderRecord, NEW call \in Calls, segments \in Seq(Seq(Vectors))
    PROVE  BeginSegment(b, call) \in BuilderRecord
  <1>1. File("primary", Len(segments) + 1) \in Names
    BY NameType DEF Kinds
  <1> QED BY <1>1 DEF BeginSegment, BuilderRecord, Steps

\* push keeps the invariant, with and without a segment to stage.
LEMMA PushStep ==
    ASSUME IInv, NEW p \in Builders, NEW v \in Vectors, Push(p, v)
    PROVE  IInv'
  <1> DEFINE c == builder[p]
             taken == [c EXCEPT !.originals = Append(@, v), !.added = @ + 1]
  <1>1. c \in BuilderRecord /\ Sound(c) /\ c.pc = "ready" /\ reader' = reader
        /\ segments \in Seq(Seq(Vectors)) /\ UNCHANGED <<disk, manifests>>
    BY DEF IInv, TypeOK, Push, At
  <1>2. /\ Append(c.originals, v) \in Seq(Vectors) /\ c.added + 1 \in Nat
        /\ Len(Append(c.originals, v)) = Len(c.originals) + 1
        /\ Len(c.originals) <= c.added /\ c.added \in Nat /\ Len(c.originals) \in Nat
    BY <1>1 DEF BuilderRecord, Sound, RowsSound
  <1>3. segments' \in Seq(Seq(Vectors))
    <2>1. taken.originals = Append(c.originals, v)
      BY <1>1 DEF BuilderRecord
    <2>2. Append(segments, taken.originals) \in Seq(Seq(Vectors))
      BY <1>1, <1>2, <2>1
    <2>3. segments' = segments \/ segments' = Append(segments, taken.originals)
      BY DEF Push
    <2> QED BY <1>1, <2>2, <2>3
  <1>4. DirOK /\ Grows /\ UNCHANGED <<current, survivors>>
    BY <1>1, <1>3, SameDisk DEF Push, IInv, TypeOK, Grows, disk
  <1>5. Drafting(c)
    BY <1>1 DEF Drafting
  <1>6. DraftSound(c) /\ PartsOf(c.draft) \subseteq Durable'
        /\ survivors' = {current'} /\ c.draft.previous = current'
        /\ c.draft.generation = NextGeneration'
    BY <1>1, <1>4, <1>5, DraftKept DEF Sound
  <1> HIDE DEF c
  <1>7. /\ taken \in BuilderRecord
        /\ taken.pc = "ready" /\ taken.call = c.call /\ taken.draft = c.draft
        /\ taken.originals = Append(c.originals, v) /\ taken.added = c.added + 1
    BY <1>1, <1>2 DEF BuilderRecord
  <1>8. taken.originals # <<>> /\ Len(taken.originals) <= taken.added
    BY <1>2, <1>7
  <1>9. c.call = "none"
    BY <1>1 DEF Sound, CallSound
  <1> HIDE DEF taken
  <1>10. CASE Become(p, Returned(taken))
    <2> DEFINE b == Returned(taken)
    <2>1. b \in BuilderRecord
      BY <1>7, <1>8, ReturnedType
    <2>2. /\ b.pc = "ready" /\ b.call = c.call /\ b.draft = c.draft
          /\ b.originals = taken.originals /\ b.added = taken.added
      BY <1>7 DEF Returned, BuilderRecord
    <2> HIDE DEF b
    <2>3. builder' = [builder EXCEPT ![p] = b]
      BY <1>10 DEF Become, b
    <2>4. builder'[p] = b
      BY <2>3 DEF IInv, TypeOK
    <2>5. Sound(builder[p])'
      BY <1>6, <1>8, <1>9, <2>2, <2>4 DEF Sound, DraftSound, Drafting,
         WalkSound, KeepSound, CallSound, RowsSound, StageSound, SwapSound,
         Staging, Swapping
    <2> QED BY <1>1, <1>4, <2>1, <2>3, <2>5, CalmMove DEF At, c
  <1>11. CASE Become(p, BeginSegment(taken, "push"))
    <2> DEFINE b == BeginSegment(taken, "push")
    <2>1. b \in BuilderRecord
      BY <1>1, <1>7, BeginSegmentType DEF Calls
    <2>2. /\ b.pc = "stageWrite" /\ b.call = "push" /\ b.draft = c.draft
          /\ b.target = File(b.target.kind, b.target.id) /\ b.target.kind = "primary"
          /\ b.originals = taken.originals /\ b.added = taken.added
      BY <1>7 DEF BeginSegment, BuilderRecord, File
    <2> HIDE DEF b
    <2>3. builder' = [builder EXCEPT ![p] = b]
      BY <1>11 DEF Become, b
    <2>4. builder'[p] = b
      BY <2>3 DEF IInv, TypeOK
    <2>5. Sound(builder[p])'
      BY <1>6, <1>8, <2>2, <2>4 DEF Sound, DraftSound, Drafting, WalkSound,
         KeepSound, CallSound, RowsSound, StageSound, SwapSound, Staging,
         Swapping
    <2> QED BY <1>1, <1>4, <2>1, <2>3, <2>5, CalmMove DEF At, c
  <1> QED BY <1>10, <1>11 DEF Push, c, taken

\* A sealed manifest extends what is published and its parts are settled.
LEMMA SealManifestStep ==
    ASSUME IInv, NEW p \in Builders, NEW c \in BuilderRecord, SealManifest(p, c),
           ~ At(p, "idle"), reader' = reader, StoreTypeOK' , (sure \subseteq live)',
           StillDurable, current' = current, survivors' = {current},
           c.draft.previous = current, c.draft.generation = NextGeneration,
           PartsOf(c.draft) \subseteq Durable', Len(c.originals) <= c.added
    PROVE  IInv'
  <1>1. Sealed(c) \in ManifestRecord /\ manifests \in Seq(ManifestRecord)
    BY SealedType DEF IInv, TypeOK
  <1>2. Grows
    BY <1>1 DEF SealManifest, Grows
  <1>3. CASE Become(p, NoBuilder)
    BY <1>2, <1>3, DropMove DEF DirOK
  <1>4. CASE Become(p, BeginManifest(c)) /\ manifests' = Append(manifests, Sealed(c))
    <2> DEFINE b == BeginManifest(c)
    <2>1. File("manifest", Len(manifests) + 1) \in Names
      BY <1>1, NameType DEF Kinds
    <2>2. b \in BuilderRecord
      BY <1>1, <2>1 DEF BeginManifest, BuilderRecord, Steps, Calls
    <2>3. /\ b.pc = "stageWrite" /\ b.call = "commit" /\ b.draft = Sealed(c)
          /\ b.target = File(b.target.kind, b.target.id) /\ b.target.kind = "manifest"
          /\ b.target.id = Len(manifests) + 1
          /\ b.originals = c.originals /\ b.added = c.added
      BY DEF BeginManifest, BuilderRecord, File
    <2>4. /\ b.target.id \in DOMAIN manifests'
          /\ manifests'[b.target.id] = b.draft
      BY <1>1, <1>4, <2>3
    <2>5. /\ b.draft.previous = current' /\ b.draft.generation = NextGeneration
          /\ PartsOf(b.draft) = PartsOf(c.draft)
      BY <2>3 DEF Sealed, BuilderRecord, ManifestRecord, PartsOf
    <2>6. NextGeneration' = NextGeneration
      BY <1>2 DEF IInv, CurrentSound, Recoverable, NextGeneration, Grows
    <2> HIDE DEF b
    <2>7. builder' = [builder EXCEPT ![p] = b]
      BY <1>4 DEF Become, b
    <2>8. builder'[p] = b
      BY <2>7 DEF IInv, TypeOK
    <2>9. Sound(builder[p])'
      BY <2>3, <2>4, <2>5, <2>6, <2>8 DEF Sound, DraftSound, Drafting,
         WalkSound, KeepSound, CallSound, RowsSound, StageSound, SwapSound,
         Staging, Swapping
    <2> QED BY <1>2, <2>2, <2>7, <2>9, CalmMove DEF DirOK
  <1> QED BY <1>3, <1>4 DEF SealManifest

\* commit keeps the invariant, with and without rows left to stage.
LEMMA CommitStep ==
    ASSUME IInv, NEW p \in Builders, Commit(p)
    PROVE  IInv'
  <1> DEFINE c == builder[p]
  <1>1. /\ c \in BuilderRecord /\ Sound(c) /\ c.pc = "ready" /\ reader' = reader
        /\ segments \in Seq(Seq(Vectors)) /\ UNCHANGED disk
    BY DEF IInv, TypeOK, Commit, At
  <1>2. /\ survivors = {current} /\ c.draft.previous = current
        /\ c.draft.generation = NextGeneration /\ PartsOf(c.draft) \subseteq Durable
        /\ Len(c.originals) <= c.added /\ c.call = "none"
    BY <1>1 DEF Sound, DraftSound, Drafting, RowsSound, CallSound
  <1>3. Durable' = Durable
    BY <1>1 DEF Durable, disk
  <1>4. segments' \in Seq(Seq(Vectors)) /\ manifests' \in Seq(ManifestRecord)
    <2>1. Append(segments, c.originals) \in Seq(Seq(Vectors))
      BY <1>1 DEF BuilderRecord
    <2>2. Append(manifests, Sealed(c)) \in Seq(ManifestRecord) /\ manifests \in Seq(ManifestRecord)
      BY <1>1, SealedType DEF IInv, TypeOK
    <2> QED BY <1>1, <2>1, <2>2 DEF Commit, SealManifest, tables
  <1>5. DirOK /\ UNCHANGED <<current, survivors>>
    BY <1>1, <1>4, SameDisk DEF Commit, IInv, TypeOK, disk
  <1>6. CASE SealManifest(p, c)
    BY <1>1, <1>2, <1>3, <1>5, <1>6, SealManifestStep DEF DirOK, At
  <1>7. CASE Become(p, NoBuilder) /\ UNCHANGED tables
    BY <1>1, <1>5, <1>7, DropMove DEF At, Grows, tables
  <1>8. CASE c.originals # <<>> /\ Become(p, BeginSegment(c, "commit")) /\ UNCHANGED manifests
    <2> DEFINE b == BeginSegment(c, "commit")
    <2>1. b \in BuilderRecord
      BY <1>1, BeginSegmentType DEF Calls
    <2> HIDE DEF c
    <2>2. /\ b.pc = "stageWrite" /\ b.call = "commit" /\ b.draft = c.draft
          /\ b.target = File(b.target.kind, b.target.id) /\ b.target.kind = "primary"
          /\ b.originals = c.originals /\ b.added = c.added
      BY <1>1 DEF BeginSegment, BuilderRecord, File
    <2> HIDE DEF b
    <2>3. builder' = [builder EXCEPT ![p] = b]
      BY <1>8 DEF Become, b
    <2>4. builder'[p] = b
      BY <2>3 DEF IInv, TypeOK
    <2>5. Grows /\ NextGeneration' = NextGeneration
      BY <1>5, <1>8 DEF Grows, NextGeneration
    <2>6. Sound(builder[p])'
      BY <1>2, <1>3, <1>5, <1>8, <2>2, <2>4, <2>5 DEF Sound, DraftSound,
         Drafting, WalkSound, KeepSound, CallSound, RowsSound, StageSound,
         SwapSound, Staging, Swapping
    <2> QED BY <1>1, <1>5, <2>1, <2>3, <2>5, <2>6, CalmMove DEF At, c
  <1> QED BY <1>6, <1>7, <1>8 DEF Commit

\* A step of stage that only moves on leaves the draft and the target as they were.
LEMMA StageMove ==
    ASSUME IInv, NEW p \in Builders, NEW step \in Staging \ {"stageWrite"},
           builder[p].pc \in Staging, Goto(p, step), reader' = reader,
           UNCHANGED <<tables, current, survivors>>, DirOK,
           step = "stageSync" => Tmp(builder[p].target) \notin torn',
           step = "stageRename" => Tmp(builder[p].target) \notin (torn \cup unsynced)',
           step = "stageDir" => builder[p].target \in (live \ (torn \cup unsynced))'
    PROVE  IInv'
  <1> DEFINE c == builder[p]
             b == [c EXCEPT !.pc = step]
  <1>1. c \in BuilderRecord /\ Sound(c) /\ c.pc \in Staging
    BY DEF IInv, TypeOK
  <1>2. builder' = [builder EXCEPT ![p] = b]
    BY DEF Goto
  <1>3. Grows
    BY DEF Grows, tables
  <1>4. b \in BuilderRecord
    BY <1>1 DEF BuilderRecord, Steps, Staging
  <1>5. /\ b.pc = step /\ b.call = c.call /\ b.draft = c.draft /\ b.target = c.target
        /\ b.originals = c.originals /\ b.added = c.added
    BY <1>1 DEF BuilderRecord
  <1>6. builder'[p] = b
    BY <1>2 DEF IInv, TypeOK
  <1>7. Drafting(c) => /\ survivors' = {current'} /\ c.draft.previous = current'
                       /\ c.draft.generation = NextGeneration'
                       /\ PartsOf(c.draft) \subseteq Durable'
    BY <1>3, DraftKept
  <1>8. \A i \in Nat : File("primary", i) \in Durable => File("primary", i) \in Durable'
    BY DEF DirOK, StillDurable, File
  <1>9. c.target.id \in Nat
    BY <1>1 DEF BuilderRecord, Names
  <1> HIDE DEF b, c
  <1>10. DraftSound(builder[p])'
    BY <1>1, <1>5, <1>6, <1>7 DEF DraftSound, Drafting, Staging, Swapping
  <1>11. StageSound(builder[p])'
    BY <1>1, <1>5, <1>6, <1>8, <1>9 DEF Sound, StageSound, Staging, tables, c
  <1>12. WalkSound(builder[p])' /\ KeepSound(builder[p])' /\ CallSound(builder[p])'
           /\ RowsSound(builder[p])' /\ SwapSound(builder[p])'
    BY <1>1, <1>5, <1>6 DEF Sound, WalkSound, KeepSound, CallSound, RowsSound,
       SwapSound, Staging, Swapping, tables
  <1> QED BY <1>1, <1>2, <1>3, <1>4, <1>10, <1>11, <1>12, CalmMove DEF Sound,
     Staging, At, c

\* Writing, syncing and renaming a staged file keep the invariant.
LEMMA StageSteps ==
    ASSUME IInv, NEW p \in Builders, StageWrite(p) \/ StageSync(p) \/ StageRename(p)
    PROVE  IInv'
  <1> DEFINE t == builder[p].target
  <1>1. /\ t \in Names /\ Tmp(t) \in Names /\ Tmp(t).tmp
        /\ builder[p].pc \in Staging /\ Sound(builder[p]) /\ reader' = reader
    BY NameType DEF IInv, TypeOK, BuilderRecord, Tmp, Names, Staging,
       StageWrite, StageSync, StageRename, At
  <1> HIDE DEF t
  <1>2. CASE StageWrite(p)
    <2>1. DirOK
      BY <1>1, <1>2, WriteDisk DEF StageWrite, IInv, TypeOK, t
    <2> QED BY <1>1, <1>2, <2>1, StageMove DEF StageWrite, FsWrite, Staging, t
  <1>3. CASE StageSync(p)
    <2>1. DirOK
      BY <1>1, <1>3, SyncDisk DEF StageSync, t
    <2>2. Tmp(t) \notin (torn \cup unsynced)'
      BY <1>1, <1>3 DEF StageSync, FsSync, Sound, StageSound, At, t
    <2> QED BY <1>1, <1>3, <2>1, <2>2, StageMove DEF StageSync, FsSync,
       Staging, t
  <1>4. CASE StageRename(p)
    <2>1. Tmp(t) \notin torn \cup unsynced
      BY <1>1, <1>4 DEF StageRename, Sound, StageSound, At, t
    <2>2. DirOK
      BY <1>1, <1>4, <2>1, RenameDisk DEF StageRename, t
    <2>3. t \in (live \ (torn \cup unsynced))'
      BY <1>4, <2>1 DEF StageRename, FsRename, t
    <2> QED BY <1>1, <1>4, <2>2, <2>3, StageMove DEF StageRename, FsRename,
       Staging, t
  <1> QED BY <1>2, <1>3, <1>4

\* The sync that ends the staging of a file settles it; what follows depends
\* on the file.
LEMMA StageDirStep ==
    ASSUME IInv, NEW p \in Builders, StageDir(p)
    PROVE  IInv'
  <1> DEFINE c == builder[p]
             t == c.target
  <1>1. /\ c \in BuilderRecord /\ Sound(c) /\ c.pc = "stageDir" /\ reader' = reader
        /\ UNCHANGED <<segments, acked, mishaps>>
    BY DEF IInv, TypeOK, StageDir, At
  <1>2. /\ t \in Names /\ c.draft \in ManifestRecord /\ c.call \in Calls
        /\ Len(c.originals) <= c.added
    BY <1>1 DEF BuilderRecord, Sound, RowsSound
  <1>3. t = File(t.kind, t.id) /\ t \in live \ (torn \cup unsynced)
    BY <1>1 DEF Sound, StageSound, Staging
  <1>4. t \in Durable'
    BY <1>3 DEF StageDir, FsSyncDir, Durable
  <1> HIDE DEF t
  <1>5. manifests' \in Seq(ManifestRecord) /\ Grows
    <2>1. manifests' = manifests \/ \E b \in {c, Recorded(c)} : manifests' = Append(manifests, Sealed(b))
      BY DEF StageDir, Staged, SealManifest
    <2>2. \A b \in {c, Recorded(c)} : Sealed(b) \in ManifestRecord
      BY <1>1, <1>2, RecordedType, SealedType
    <2>3. manifests \in Seq(ManifestRecord)
      BY DEF IInv, TypeOK
    <2> HIDE DEF c
    <2> QED BY <2>1, <2>2, <2>3 DEF Grows
  <1>6. DirOK /\ current' = current /\ survivors' = {current}
    BY <1>1, <1>5, SyncDirDisk DEF StageDir
  <1>7. t.kind # "model" =>
          /\ c.draft.previous = current' /\ c.draft.generation = NextGeneration'
          /\ PartsOf(c.draft) \subseteq Durable'
    BY <1>1, <1>5, <1>6, DraftKept DEF Drafting, Staging, t
  <1>8. ~ At(p, "idle")
    BY <1>1 DEF At
  <1> DEFINE b == builder'[p]
  <1>9. CASE t.kind = "model" /\ UNCHANGED manifests
             /\ Become(p, [Ready(c) EXCEPT !.draft.generation = 1])
    <2> DEFINE d == [c.draft EXCEPT !.generation = 1]
               e == [Ready(c) EXCEPT !.draft = d]
    <2>1. /\ c.call = "create" /\ t.id = c.draft.model /\ c.draft.segments = <<>>
          /\ c.draft.previous = NoHash /\ current = NoHash
      BY <1>1, <1>9 DEF Sound, StageSound, CallSound, Staging, t
    <2> HIDE DEF c
    <2>2. [Ready(c) EXCEPT !.draft.generation = 1] = e
      BY <1>1 DEF Ready, BuilderRecord, ManifestRecord
    <2>3. d \in ManifestRecord /\ d.generation = 1 /\ d.previous = c.draft.previous
          /\ d.model = c.draft.model /\ d.segments = c.draft.segments
      BY <1>2 DEF ManifestRecord
    <2> HIDE DEF d
    <2>4. /\ e \in BuilderRecord /\ e.pc = "ready" /\ e.call = "none" /\ e.draft = d
          /\ e.originals = c.originals /\ e.added = c.added
      BY <1>1, <2>3, ReadyType DEF Ready, BuilderRecord
    <2> HIDE DEF e
    <2>5. builder' = [builder EXCEPT ![p] = e]
      BY <1>9, <2>2 DEF Become
    <2>6. builder'[p] = e
      BY <2>5 DEF IInv, TypeOK
    <2>7. PartsOf(d) = {t}
      BY <1>3, <1>9, <2>1, <2>3 DEF PartsOf
    <2>8. DraftSound(builder[p])'
      BY <1>4, <1>6, <2>1, <2>3, <2>4, <2>6, <2>7 DEF DraftSound,
         NextGeneration
    <2>9. Sound(builder[p])'
      BY <1>2, <2>4, <2>6, <2>8 DEF Sound, WalkSound, KeepSound, CallSound,
         RowsSound, StageSound, SwapSound, Staging, Swapping
    <2> QED BY <1>1, <1>5, <1>6, <1>8, <2>4, <2>5, <2>9, CalmMove
  <1>10. CASE t.kind = "primary" /\ UNCHANGED manifests
              /\ Become(p, [c EXCEPT !.pc = "stageWrite", !.target = File("residual", t.id)])
    <2> DEFINE e == [c EXCEPT !.pc = "stageWrite", !.target = File("residual", t.id)]
    <2>1. t.id \in Nat /\ File("residual", t.id) \in Names
      BY <1>2, NameType DEF Names, Kinds
    <2>2. /\ c.call \in {"push", "commit"} /\ c.originals # <<>>
      BY <1>1, <1>10 DEF Sound, StageSound, RowsSound, Staging, t
    <2> HIDE DEF c
    <2>3. /\ e \in BuilderRecord /\ e.pc = "stageWrite" /\ e.call = c.call
          /\ e.draft = c.draft /\ e.target = File("residual", t.id)
          /\ e.originals = c.originals /\ e.added = c.added
      BY <1>1, <2>1 DEF BuilderRecord, Steps
    <2> HIDE DEF e
    <2>4. e.target.kind = "residual" /\ e.target.id = t.id
      BY <2>3 DEF File
    <2>5. builder' = [builder EXCEPT ![p] = e]
      BY <1>10 DEF Become, e
    <2>6. builder'[p] = e
      BY <2>5 DEF IInv, TypeOK
    <2>7. Sound(builder[p])'
      BY <1>2, <1>3, <1>4, <1>6, <1>7, <1>10, <2>2, <2>3, <2>4, <2>6 DEF Sound,
         DraftSound, Drafting, WalkSound, KeepSound, CallSound, RowsSound,
         StageSound, SwapSound, Staging, Swapping
    <2> QED BY <1>1, <1>5, <1>6, <1>8, <2>3, <2>5, <2>7, CalmMove
  <1>11. ASSUME t.kind = "residual"
         PROVE  /\ Recorded(c) \in BuilderRecord
                /\ Recorded(c).draft.previous = c.draft.previous
                /\ Recorded(c).draft.generation = c.draft.generation
                /\ PartsOf(Recorded(c).draft) \subseteq Durable'
                /\ Recorded(c).originals = <<>>
    <2> DEFINE e == [id |-> t.id, first |-> c.firstRow + c.added - Len(c.originals),
                     count |-> Len(c.originals)]
    <2>1. File("primary", t.id) \in Durable'
      <3>1. File("primary", t.id) \in Durable
        BY <1>1, <1>11 DEF Sound, StageSound, Staging, t
      <3> QED BY <1>6, <3>1 DEF DirOK, StillDurable, File
    <2>2. File("residual", t.id) \in Durable'
      BY <1>3, <1>4, <1>11
    <2>3. Recorded(c) \in BuilderRecord
      BY <1>1, <1>2, RecordedType
    <2> HIDE DEF c
    <2>4. /\ Recorded(c).draft = [c.draft EXCEPT !.segments = Append(@, e)]
          /\ Recorded(c).originals = <<>>
      BY <1>1, <1>2 DEF Recorded, BuilderRecord, ManifestRecord, t, c
    <2>5. /\ e.id = t.id
      OBVIOUS
    <2> HIDE DEF e
    <2>6. /\ Recorded(c).draft.previous = c.draft.previous
          /\ Recorded(c).draft.generation = c.draft.generation
          /\ Recorded(c).draft.model = c.draft.model
          /\ Recorded(c).draft.segments = Append(c.draft.segments, e)
          /\ c.draft.segments \in Seq(SegmentEntry)
      BY <1>2, <2>4 DEF ManifestRecord
    <2>7. \A i \in DOMAIN Append(c.draft.segments, e) :
             \/ i \in DOMAIN c.draft.segments
                 /\ Append(c.draft.segments, e)[i] = c.draft.segments[i]
             \/ Append(c.draft.segments, e)[i] = e
      BY <2>6
    <2>8. PartsOf(Recorded(c).draft) \subseteq
            PartsOf(c.draft) \cup {File("primary", t.id), File("residual", t.id)}
      BY <2>5, <2>6, <2>7 DEF PartsOf
    <2> QED BY <1>7, <1>11, <2>1, <2>2, <2>3, <2>4, <2>6, <2>8
  <1>12. CASE t.kind = "residual" /\ UNCHANGED manifests
              /\ Become(p, Ready(Recorded(Returned(c))))
    <2> DEFINE r == Returned(c)
               e == Ready(Recorded(r))
    <2>1. c.originals # <<>>
      BY <1>1, <1>12 DEF Sound, RowsSound, Staging, t
    <2>2. /\ r \in BuilderRecord /\ r.originals = c.originals /\ r.added = c.added
          /\ r.draft = c.draft /\ r.target = c.target /\ r.firstRow = c.firstRow
      BY <1>1, <2>1, ReturnedType DEF Returned, BuilderRecord
    <2> HIDE DEF r, c
    <2>3. Recorded(r) \in BuilderRecord
      BY <1>2, <2>2, RecordedType
    <2>4. /\ Recorded(r).draft = Recorded(c).draft /\ Recorded(r).originals = <<>>
          /\ Recorded(r).added = c.added
      BY <1>1, <2>2 DEF Recorded, BuilderRecord
    <2>5. /\ e \in BuilderRecord /\ e.pc = "ready" /\ e.call = "none"
          /\ e.draft = Recorded(c).draft /\ e.originals = <<>> /\ e.added = c.added
      BY <2>3, <2>4, ReadyType DEF Ready, BuilderRecord
    <2>6. builder' = [builder EXCEPT ![p] = e]
      BY <1>12 DEF Become, r, c
    <2>7. builder'[p] = e
      BY <2>6 DEF IInv, TypeOK
    <2>8. Len(e.originals) <= e.added
      BY <1>1, <2>5 DEF BuilderRecord
    <2> HIDE DEF e
    <2>9. DraftSound(builder[p])'
      BY <1>6, <1>7, <1>11, <1>12, <2>5, <2>7 DEF DraftSound
    <2>10. Sound(builder[p])'
      BY <2>5, <2>7, <2>8, <2>9 DEF Sound, WalkSound, KeepSound, CallSound,
         RowsSound, StageSound, SwapSound, Staging, Swapping
    <2> QED BY <1>1, <1>5, <1>6, <1>8, <2>5, <2>6, <2>10, CalmMove
  <1>13. CASE t.kind = "residual" /\ SealManifest(p, Recorded(c))
    <2>1. Len(Recorded(c).originals) <= Recorded(c).added
      BY <1>11, <1>13 DEF BuilderRecord
    <2>2. NextGeneration' = NextGeneration
      BY <1>5, <1>6 DEF IInv, CurrentSound, Recoverable, NextGeneration, Grows
    <2> HIDE DEF c
    <2> QED BY <1>1, <1>6, <1>7, <1>8, <1>11, <1>13, <2>1, <2>2,
       SealManifestStep DEF DirOK
  <1>14. CASE t.kind = "manifest" /\ UNCHANGED manifests
              /\ Become(p, [c EXCEPT !.pc = "swapWrite"])
    <2> DEFINE e == [c EXCEPT !.pc = "swapWrite"]
    <2>1. /\ c.call = "commit" /\ t.id \in DOMAIN manifests /\ manifests[t.id] = c.draft
      BY <1>1, <1>14 DEF Sound, StageSound, Staging, t
    <2> HIDE DEF c
    <2>2. /\ e \in BuilderRecord /\ e.pc = "swapWrite" /\ e.call = c.call
          /\ e.draft = c.draft /\ e.target = c.target
          /\ e.originals = c.originals /\ e.added = c.added
      BY <1>1 DEF BuilderRecord, Steps
    <2> HIDE DEF e
    <2>3. builder' = [builder EXCEPT ![p] = e]
      BY <1>14 DEF Become, e
    <2>4. builder'[p] = e
      BY <2>3 DEF IInv, TypeOK
    <2>5. c.target = File("manifest", c.target.id)
      BY <1>3, <1>14 DEF t
    <2>6. FilesOf(builder[p].target.id)' = {c.target} \cup PartsOf(c.draft)
      <3>1. builder'[p].target.id = c.target.id /\ manifests'[c.target.id] = c.draft
        BY <1>14, <2>1, <2>2, <2>4 DEF t
      <3> QED BY <2>5, <3>1 DEF FilesOf
    <2>7. {c.target} \cup PartsOf(c.draft) \subseteq Durable'
      BY <1>3, <1>6, <1>7, <1>14, <2>5 DEF StageDir, FsSyncDir, Durable, t
    <2>8. SwapSound(builder[p])'
      BY <1>14, <2>1, <2>2, <2>4, <2>6, <2>7 DEF SwapSound, t
    <2>9. Sound(builder[p])'
      BY <1>2, <1>6, <1>7, <1>14, <2>1, <2>2, <2>4, <2>8 DEF Sound, DraftSound,
         Drafting, WalkSound, KeepSound, CallSound, RowsSound, StageSound,
         Staging, Swapping
    <2> QED BY <1>1, <1>5, <1>6, <1>8, <2>2, <2>3, <2>9, CalmMove
  <1> QED BY <1>9, <1>10, <1>12, <1>13, <1>14 DEF StageDir, Staged, t

\* A step of commit's publication that only moves on keeps the invariant.
LEMMA SwapMove ==
    ASSUME IInv, NEW p \in Builders, NEW step \in {"swapSync", "swapRename"},
           builder[p].pc \in Swapping, Goto(p, step), reader' = reader,
           UNCHANGED <<tables, current, survivors>>, DirOK,
           step = "swapRename" => CurrentTmp \notin unsynced'
    PROVE  IInv'
  <1> DEFINE c == builder[p]
             b == [c EXCEPT !.pc = step]
  <1>1. c \in BuilderRecord /\ Sound(c) /\ c.pc \in Swapping
    BY DEF IInv, TypeOK
  <1>2. builder' = [builder EXCEPT ![p] = b]
    BY DEF Goto
  <1>3. Grows /\ manifests' = manifests
    BY DEF Grows, tables
  <1>4. /\ b \in BuilderRecord
        /\ b.pc = step /\ b.call = c.call /\ b.draft = c.draft /\ b.target = c.target
        /\ b.originals = c.originals /\ b.added = c.added
    BY <1>1 DEF BuilderRecord, Steps
  <1>5. builder'[p] = b
    BY <1>2 DEF IInv, TypeOK
  <1>6. /\ survivors' = {current'} /\ c.draft.previous = current'
        /\ c.draft.generation = NextGeneration'
        /\ PartsOf(c.draft) \subseteq Durable'
    BY <1>1, <1>3, DraftKept DEF Drafting
  <1>7. /\ c.call = "commit" /\ c.target.id \in DOMAIN manifests
        /\ manifests[c.target.id] = c.draft
        /\ File("manifest", c.target.id) \in Durable
    <2>1. /\ c.call = "commit" /\ c.target.id \in DOMAIN manifests
          /\ manifests[c.target.id] = c.draft
          /\ FilesOf(c.target.id) \subseteq Durable
      BY <1>1 DEF Sound, SwapSound, Swapping
    <2> QED BY <2>1 DEF FilesOf
  <1>8. File("manifest", c.target.id) \in Durable'
    BY <1>7 DEF DirOK, StillDurable, File
  <1>9. FilesOf(builder[p].target.id)' = {File("manifest", c.target.id)} \cup PartsOf(c.draft)
    BY <1>3, <1>4, <1>5, <1>7 DEF FilesOf
  <1> HIDE DEF b, c
  <1>10. SwapSound(builder[p])'
    BY <1>3, <1>4, <1>5, <1>6, <1>7, <1>8, <1>9 DEF SwapSound
  <1>11. Sound(builder[p])'
    BY <1>1, <1>4, <1>5, <1>6, <1>7, <1>10 DEF Sound, DraftSound, Drafting,
       WalkSound, KeepSound, CallSound, RowsSound, StageSound, Staging,
       Swapping
  <1> QED BY <1>1, <1>2, <1>3, <1>4, <1>11, CalmMove DEF Swapping, At, c

\* Writing and syncing CURRENT.tmp keep the invariant.
LEMMA SwapSteps ==
    ASSUME IInv, NEW p \in Builders, SwapWrite(p) \/ SwapSync(p)
    PROVE  IInv'
  <1>1. builder[p].pc \in Swapping /\ CurrentTmp \in Names /\ CurrentTmp.tmp
    BY NameType DEF SwapWrite, SwapSync, At, Swapping, CurrentTmp
  <1>2. CASE SwapWrite(p) /\ FsWrite(CurrentTmp) /\ Goto(p, "swapSync")
    <2>1. DirOK
      BY <1>1, <1>2, WriteDisk DEF SwapWrite, IInv, TypeOK
    <2> QED BY <1>1, <1>2, <2>1, SwapMove DEF SwapWrite, FsWrite
  <1>3. CASE SwapSync(p)
    <2>1. DirOK
      BY <1>1, <1>3, SyncDisk DEF SwapSync
    <2> QED BY <1>1, <1>3, <2>1, SwapMove DEF SwapSync, FsSync
  <1>4. CASE SwapWrite(p) /\ Become(p, NoBuilder) /\ UNCHANGED disk
    <2>1. DirOK /\ Grows
      BY <1>4, SameDisk DEF SwapWrite, IInv, TypeOK, tables, Grows
    <2> QED BY <1>4, <2>1, DropMove DEF SwapWrite, At, disk
  <1> QED BY <1>2, <1>3, <1>4 DEF SwapWrite

\* The rename over CURRENT: a crash may now leave the old generation or the
\* new one, and the files of both are settled.
LEMMA SwapRenameStep ==
    ASSUME IInv, NEW p \in Builders, SwapRename(p)
    PROVE  IInv'
  <1> DEFINE c == builder[p]
             b == [c EXCEPT !.pc = "swapDir"]
             t == c.target.id
  <1>1. /\ c \in BuilderRecord /\ Sound(c) /\ c.pc = "swapRename" /\ reader' = reader
        /\ UNCHANGED <<tables, acked, mishaps>>
    BY DEF IInv, TypeOK, SwapRename, At
  <1>2. /\ c.call = "commit" /\ t \in DOMAIN manifests /\ manifests[t] = c.draft
        /\ FilesOf(t) \subseteq Durable /\ CurrentTmp \notin unsynced
        /\ survivors = {current} /\ c.draft.previous = current
    BY <1>1 DEF Sound, SwapSound, DraftSound, Drafting, Swapping
  <1>3. t \in Nat
    BY <1>1 DEF BuilderRecord, Names
  <1>4. /\ current' = t /\ survivors' = {current, t} /\ manifests' = manifests
        /\ \A n \in Durable : ~ n.tmp => n \in Durable'
    BY <1>1, <1>2 DEF SwapRename, FsRenameToCurrent, Durable, CurrentTmp,
       tables
  <1>5. StoreTypeOK' /\ (sure \subseteq live)'
    BY <1>1, <1>2, <1>3, <1>4 DEF SwapRename, FsRenameToCurrent, IInv, TypeOK,
       StoreTypeOK, tables
  <1>6. CurrentSound'
    BY <1>2, <1>4 DEF CurrentSound
  <1>7. \A h \in DOMAIN manifests : FilesOf(h) \subseteq Durable => FilesOf(h)' \subseteq Durable'
    BY <1>4, PartsFinal DEF IInv, FilesOf
  <1>8. Recoverable'
    BY <1>2, <1>4, <1>7 DEF IInv, Recoverable, Durable
  <1>9. builder' = [builder EXCEPT ![p] = b]
    BY DEF SwapRename, Goto
  <1>10. builder'[p] = b
    BY <1>9 DEF IInv, TypeOK
  <1>11. /\ b \in BuilderRecord
         /\ b.pc = "swapDir" /\ b.call = c.call /\ b.draft = c.draft /\ b.target = c.target
         /\ b.originals = c.originals /\ b.added = c.added
    BY <1>1 DEF BuilderRecord, Steps
  <1>12. FilesOf(builder[p].target.id)' = FilesOf(t)
    BY <1>4, <1>10, <1>11 DEF FilesOf
  <1>13. FilesOf(t) \subseteq Durable'
    BY <1>2, <1>4, PartsFinal DEF IInv
  <1> HIDE DEF b
  <1>14. SwapSound(builder[p])'
    BY <1>2, <1>4, <1>10, <1>11, <1>12, <1>13 DEF SwapSound
  <1>15. Sound(builder[p])'
    BY <1>1, <1>2, <1>10, <1>11, <1>14 DEF Sound, DraftSound, Drafting,
       WalkSound, KeepSound, CallSound, RowsSound, StageSound, Staging,
       Swapping
  <1>16. /\ builder' \in [Builders -> BuilderRecord]
         /\ Exclusion' /\ ReaderSound'
         /\ \A q \in Builders : Sound(builder[q])'
    BY <1>1, <1>9, <1>11, <1>15, BuilderMove DEF At
  <1>17. TypeOK'
    BY <1>1, <1>5, <1>16 DEF TypeOK, StoreTypeOK, IInv
  <1> QED BY <1>5, <1>6, <1>8, <1>16, <1>17 DEF IInv

\* The sync after the rename leaves only the new generation, and its cleanup
\* starts there.
LEMMA SwapDirStep ==
    ASSUME IInv, NEW p \in Builders, SwapDir(p)
    PROVE  IInv'
  <1> DEFINE c == builder[p]
             b == [c EXCEPT !.pc = "walk", !.call = "tidy", !.walk = c.target.id,
                            !.level = c.draft.generation]
  <1>1. /\ c \in BuilderRecord /\ Sound(c) /\ c.pc = "swapDir" /\ reader' = reader
        /\ UNCHANGED <<tables, acked, mishaps>>
    BY DEF IInv, TypeOK, SwapDir, At
  <1>2. current = c.target.id /\ c.target.id \in Nat /\ c.draft.generation \in Nat
    BY <1>1 DEF Sound, SwapSound, BuilderRecord, Names, ManifestRecord
  <1>3. DirOK /\ UNCHANGED current /\ survivors' = {current} /\ Grows
    BY <1>1, SyncDirDisk DEF SwapDir, IInv, TypeOK, tables, Grows
  <1>4. builder' = [builder EXCEPT ![p] = b]
    BY DEF SwapDir, Become
  <1>5. builder'[p] = b
    BY <1>4 DEF IInv, TypeOK
  <1>6. /\ b \in BuilderRecord
        /\ b.pc = "walk" /\ b.call = "tidy" /\ b.walk = current
        /\ b.originals = c.originals /\ b.added = c.added
    BY <1>1, <1>2 DEF BuilderRecord, Steps, Calls
  <1> HIDE DEF b
  <1>7. Sound(builder[p])'
    BY <1>1, <1>3, <1>5, <1>6 DEF Sound, DraftSound, Drafting, WalkSound,
       KeepSound, CallSound, RowsSound, StageSound, SwapSound, Staging,
       Swapping
  <1> QED BY <1>1, <1>3, <1>4, <1>6, <1>7, CalmMove DEF At

\* A file-system call that fails keeps the invariant, torn files included.
LEMMA FsErrorStep ==
    ASSUME IInv, NEW p \in Builders, FsError(p)
    PROVE  IInv'
  <1>1. mishaps' \in 0 .. MaxMishaps /\ acked' \in {acked, current}
    BY StoreAssumption DEF FsError, Fail, Mishap, IInv, TypeOK
  <1>2. Tmp(builder[p].target) \in Names /\ Tmp(builder[p].target).tmp
    BY NameType DEF IInv, TypeOK, BuilderRecord, Tmp, Names
  <1>3. CurrentTmp \in Names /\ CurrentTmp.tmp
    BY NameType DEF CurrentTmp
  <1>4. UNCHANGED tables /\ Grows /\ reader' = reader
    BY DEF FsError, Grows, tables
  <1>5. DirOK /\ UNCHANGED <<current, survivors>>
    <2>1. CASE UNCHANGED disk
      BY <1>1, <1>4, <2>1, SameDisk DEF IInv, TypeOK, tables, disk
    <2>2. CASE FsTear(Tmp(builder[p].target))
      BY <1>1, <1>2, <1>4, <2>2, WriteDisk DEF FsTear
    <2>3. CASE FsTear(CurrentTmp)
      BY <1>1, <1>3, <1>4, <2>3, WriteDisk DEF FsTear
    <2> QED BY <2>1, <2>2, <2>3 DEF FsError
  <1> QED BY <1>4, <1>5, FailMove DEF FsError, Fail

\* A crash loses no settled file, and leaves no builder and no reader.
LEMMA CrashStep ==
    ASSUME IInv, Crash
    PROVE  IInv'
  <1>1. PICK h \in survivors : current' = h /\ survivors' = {h}
    BY DEF Crash
  <1>2. UNCHANGED <<tables, acked>> /\ sure' = live' /\ mishaps' \in 0 .. MaxMishaps
    BY StoreAssumption DEF Crash, Mishap, IInv, TypeOK
  <1>3. /\ builder' = [p \in Builders |-> NoBuilder]
        /\ reader' = [r \in Readers |-> NoReader]
    BY DEF Crash
  <1>4. Durable \subseteq Durable'
    BY DEF Crash, Durable
  <1>5. TypeOK'
    <2>1. builder' \in [Builders -> BuilderRecord] /\ reader' \in [Readers -> ReaderRecord]
      BY <1>3, NoBuilderType DEF NoReader, ReaderRecord, NoHash
    <2>2. live' \subseteq Names /\ torn' \subseteq Names /\ maybe' = live' /\ unsynced' = {}
      BY DEF Crash, IInv, TypeOK
    <2> QED BY <1>1, <1>2, <2>1, <2>2 DEF TypeOK, IInv, tables
  <1>6. Exclusion' /\ ReaderSound' /\ \A p \in Builders : Sound(builder[p])'
    BY <1>3 DEF Exclusion, NoReaderHolds, NoBuilderHolds, ReaderSound, Sound,
       At, NoBuilder, NoReader
  <1>7. CurrentSound'
    BY <1>1 DEF CurrentSound
  <1>8. FilesOf(h)' = FilesOf(h)
    BY <1>2 DEF FilesOf, PartsOf, File, tables
  <1>9. Recoverable'
    BY <1>1, <1>2, <1>4, <1>8 DEF IInv, Recoverable, Durable, tables
  <1> QED BY <1>2, <1>5, <1>6, <1>7, <1>9 DEF IInv

\* What is said of the directory alone survives a step that leaves it alone.
LEMMA DiskKept ==
    ASSUME sure \subseteq live, CurrentSound, Recoverable,
           UNCHANGED <<live, sure, maybe, torn, unsynced, current, survivors>>,
           UNCHANGED <<manifests, segments>>
    PROVE  (sure \subseteq live)' /\ CurrentSound' /\ Recoverable'
  <1>1. (sure \subseteq live)'
    OBVIOUS
  <1>2. CurrentSound'
    BY DEF CurrentSound
  <1>3. \A h : FilesOf(h)' = FilesOf(h)
    BY DEF FilesOf, PartsOf
  <1>4. Recoverable'
    BY <1>3 DEF Recoverable
  <1>5. QED
    BY <1>1, <1>2, <1>4

\* A reader with the lock reads what is published and changes nothing.
LEMMA ReaderSteps ==
    ASSUME IInv, NEW r \in Readers, ReaderStep(r)
    PROVE  IInv'
  <1>1. UNCHANGED <<disk, tables, builder, acked, mishaps>>
    BY DEF ReaderStep, OpenLock, OpenLoad, OpenSegments, CloseReader
  <1>2. \E x \in ReaderRecord :
           /\ reader' = [reader EXCEPT ![r] = x]
           /\ x.pc # "idle" => NoBuilderHolds
           /\ x.pc \in {"open", "serving"} => x.hash = current /\ current \in DOMAIN manifests
    <2>1. reader[r] \in ReaderRecord /\ NoReader \in ReaderRecord /\ NoReader.pc = "idle"
      BY DEF IInv, TypeOK, NoReader, ReaderRecord, NoHash
    <2>2. reader[r].pc # "idle" => NoBuilderHolds
      BY DEF IInv, Exclusion, NoReaderHolds
    <2>3. reader[r].pc \in {"open", "serving"} =>
             reader[r].hash = current /\ current \in DOMAIN manifests
      BY DEF IInv, ReaderSound
    <2>4. CASE OpenLock(r)
      <3> DEFINE x == [reader[r] EXCEPT !.pc = "load"]
      <3>1. x \in ReaderRecord /\ x.pc = "load"
        BY <2>1 DEF ReaderRecord
      <3>2. reader' = [reader EXCEPT ![r] = x]
        BY <2>4 DEF OpenLock
      <3> QED BY <2>4, <3>1, <3>2 DEF OpenLock, CanLockShared
    <2>5. CASE OpenLoad(r)
      <3> DEFINE x == [pc |-> "open", hash |-> current]
      <3>1. CASE current \in DOMAIN manifests /\ reader' = [reader EXCEPT ![r] = x]
        <4>1. x \in ReaderRecord /\ x.pc # "idle" /\ x.hash = current
          BY <3>1 DEF ReaderRecord, IInv, TypeOK
        <4> QED BY <2>2, <2>5, <3>1, <4>1 DEF OpenLoad
      <3>2. CASE reader' = [reader EXCEPT ![r] = NoReader]
        BY <2>1, <3>2
      <3> QED BY <2>5, <3>1, <3>2 DEF OpenLoad
    <2>6. CASE OpenSegments(r)
      <3> DEFINE x == [reader[r] EXCEPT !.pc = "serving"]
      <3>1. CASE reader' = [reader EXCEPT ![r] = x]
        <4>1. x \in ReaderRecord /\ x.hash = reader[r].hash
          BY <2>1 DEF ReaderRecord
        <4> QED BY <2>2, <2>3, <2>6, <3>1, <4>1 DEF OpenSegments
      <3>2. CASE reader' = [reader EXCEPT ![r] = NoReader]
        BY <2>1, <3>2
      <3> QED BY <2>1, <2>6, <3>1, <3>2 DEF OpenSegments, IInv, TypeOK
    <2>7. CASE CloseReader(r)
      BY <2>1, <2>7 DEF CloseReader
    <2> QED BY <2>4, <2>5, <2>6, <2>7 DEF ReaderStep
  <1>3. /\ reader' \in [Readers -> ReaderRecord]
        /\ ReaderSound' /\ Exclusion'
    BY <1>1, <1>2 DEF IInv, TypeOK, Exclusion, ReaderSound, NoReaderHolds,
       NoBuilderHolds, disk, tables, At
  <1>4. TypeOK'
    BY <1>1, <1>3 DEF TypeOK, IInv, disk, tables
  <1>5. /\ UNCHANGED <<live, sure, maybe, torn, unsynced, current, survivors>>
        /\ UNCHANGED <<manifests, segments>>
    BY <1>1 DEF disk, tables
  <1>6. (sure \subseteq live)' /\ CurrentSound' /\ Recoverable'
    BY <1>5, DiskKept DEF IInv
  <1>7. ASSUME NEW p \in Builders PROVE Sound(builder[p])'
    <2>1. /\ builder' = builder
          /\ UNCHANGED <<live, sure, torn, unsynced, current, survivors>>
          /\ manifests' = manifests
      BY <1>1, <1>5
    <2>2. Durable' = Durable
      BY <2>1 DEF Durable
    <2>3. \A h : FilesOf(h)' = FilesOf(h)
      BY <2>1 DEF FilesOf, PartsOf
    <2> HIDE <1>1, <1>2, <1>3, <1>4, <1>5, <1>6
    <2>4. DraftSound(builder[p])' = DraftSound(builder[p])
      BY <2>1, <2>2 DEF DraftSound, Drafting, NextGeneration, PartsOf
    <2>5. WalkSound(builder[p])' = WalkSound(builder[p])
      BY <2>1, <2>3 DEF WalkSound
    <2>6. KeepSound(builder[p])' = KeepSound(builder[p])
      BY <2>1, <2>3 DEF KeepSound
    <2>7. CallSound(builder[p])' = CallSound(builder[p])
      BY <2>1 DEF CallSound
    <2>8. RowsSound(builder[p])' = RowsSound(builder[p])
      BY <2>1 DEF RowsSound
    <2>9. StageSound(builder[p])' = StageSound(builder[p])
      BY <2>1, <2>2 DEF StageSound
    <2>10. SwapSound(builder[p])' = SwapSound(builder[p])
      BY <2>1, <2>2, <2>3 DEF SwapSound
    <2>11. Sound(builder[p])
      BY DEF IInv
    <2> QED BY <2>1, <2>4, <2>5, <2>6, <2>7, <2>8, <2>9, <2>10, <2>11 DEF Sound
  <1> QED BY <1>3, <1>4, <1>6, <1>7 DEF IInv

\* The invariant holds of an empty directory,
LEMMA IInvInit == Init => IInv
  <1> SUFFICES ASSUME Init PROVE IInv
    OBVIOUS
  <1>1. TypeOK
    BY NoBuilderType, StoreAssumption DEF Init, TypeOK, NoHash, NoReader,
       ReaderRecord
  <1>2. Exclusion /\ ReaderSound /\ \A p \in Builders : Sound(builder[p])
    BY DEF Init, Exclusion, NoReaderHolds, NoBuilderHolds, ReaderSound, Sound,
       At, NoBuilder, NoReader
  <1>3. sure \subseteq live /\ CurrentSound /\ Recoverable
    BY DEF Init, CurrentSound, Recoverable
  <1> QED BY <1>1, <1>2, <1>3 DEF IInv

\* and every step keeps it.
LEMMA IInvStep == IInv /\ [Next]_vars => IInv'
  <1> SUFFICES ASSUME IInv, [Next]_vars PROVE IInv'
    OBVIOUS
  <1>1. ASSUME NEW p \in Builders, BuilderStep(p) PROVE IInv'
    BY <1>1, ProbeStep, AppendLoadStep, WalkStep, ListStep, RemoveOrphanStep,
       CleanupSyncStep, StageSteps, StageDirStep, SwapSteps, SwapRenameStep,
       SwapDirStep DEF BuilderStep
  <1>2. ASSUME NEW p \in Builders, BuilderCall(p) PROVE IInv'
    BY <1>2, BeginCreateStep, BeginAppendStep, PushStep, CommitStep, DropSteps
       DEF BuilderCall
  <1>3. ASSUME NEW r \in Readers, ReaderStep(r) PROVE IInv'
    BY <1>3, ReaderSteps
  <1>4. ASSUME NEW p \in Builders, FsError(p) \/ Kill(p) PROVE IInv'
    BY <1>4, FsErrorStep, DropSteps
  <1>5. CASE Crash
    BY <1>5, CrashStep
  <1>6. CASE UNCHANGED vars
    <2>1. UNCHANGED <<disk, tables, builder, reader, acked, mishaps>>
      BY <1>6 DEF vars
    <2>2. TypeOK' /\ Exclusion' /\ ReaderSound'
      BY <2>1 DEF IInv, TypeOK, Exclusion, ReaderSound, NoReaderHolds,
         NoBuilderHolds, At, disk, tables
    <2>3. (sure \subseteq live)' /\ CurrentSound' /\ Recoverable'
      <3>1. /\ UNCHANGED <<live, sure, maybe, torn, unsynced, current, survivors>>
            /\ UNCHANGED <<manifests, segments>>
        BY <2>1 DEF disk, tables
      <3>2. QED
        BY <3>1, DiskKept DEF IInv
    <2>4. \A p \in Builders : Sound(builder[p])'
      BY <2>1 DEF IInv, Sound, DraftSound, Drafting, WalkSound, KeepSound,
         CallSound, RowsSound, StageSound, SwapSound, Durable, NextGeneration,
         FilesOf, PartsOf, disk, tables
    <2> QED BY <2>2, <2>3, <2>4 DEF IInv
  <1> QED BY <1>1, <1>2, <1>3, <1>4, <1>5, <1>6 DEF Next

\* IInv holds at every moment of every behaviour.
THEOREM Inductive == Spec => []IInv
  BY IInvInit, IInvStep, PTL DEF Spec

-----------------------------------------------------------------------------
\* Every variable keeps its type, for any bounds: in particular the level of
\* cleanup's walk never goes below zero and a segment's first row never does.
THEOREM TypeCorrect == Spec => []TypeOK
  <1>1. IInv => TypeOK
    BY DEF IInv
  <1> QED BY <1>1, Inductive, PTL

\* The lock of lock.rs works: at most one builder holds the index, and none
\* while a reader does.
THEOREM LockExcludes == Spec => []Exclusion
  <1>1. IInv => Exclusion
    BY DEF IInv
  <1> QED BY <1>1, Inductive, PTL

\* However many failures, kills and crashes there are and wherever they fall,
\* CURRENT is absent or names a generation that is whole and on the disk.
THEOREM CrashRecovers == Spec => []Recoverable
  <1>1. IInv => Recoverable
    BY DEF IInv
  <1> QED BY <1>1, Inductive, PTL

\* An open Index keeps reading the generation that is published, and no
\* builder's cleanup removes a file from under it.
THEOREM ReadersUndisturbed == Spec => []ReadersSeeCurrent
  <1>1. IInv => ReadersSeeCurrent
    <2> SUFFICES ASSUME IInv, NEW r \in Readers, reader[r].pc \in {"open", "serving"}
                 PROVE  reader[r].hash = current /\ Readable(current)
      BY DEF ReadersSeeCurrent
    <2>1. reader[r].hash = current /\ current \in DOMAIN manifests
      BY DEF IInv, ReaderSound
    <2>2. current # NoHash
      BY <2>1, NoHashEndsChain DEF IInv
    <2>3. FilesOf(current) \subseteq live \ torn
      BY <2>2 DEF IInv, CurrentSound, Recoverable
    <2> QED BY <2>1, <2>3 DEF Readable
  <1> QED BY <1>1, Inductive, PTL

\* CURRENT changes only by a commit's rename, to the successor of what it
\* held, or by a crash to something it may already be left with.
THEOREM CommitsSucceed == Spec => PublishesSuccessor
  <1> DEFINE Succeeds ==
        current' # current /\ current' \notin survivors =>
          \E p \in Builders :
              /\ At(p, "swapRename")
              /\ manifests[current'].previous = current
              /\ manifests[current'].generation =
                    IF current = NoHash THEN 1
                    ELSE manifests[current].generation + 1
  <1>1. ASSUME IInv, [Next]_vars PROVE [Succeeds]_vars
    <2> SUFFICES ASSUME Next, current' # current, current' \notin survivors
                 PROVE  \E p \in Builders :
                          /\ At(p, "swapRename")
                          /\ manifests[current'].previous = current
                          /\ manifests[current'].generation = NextGeneration
      BY <1>1 DEF NextGeneration
    <2>1. PICK p \in Builders : SwapRename(p)
      <3>1. ASSUME NEW p \in Builders, BuilderStep(p) PROVE SwapRename(p)
        BY <3>1 DEF BuilderStep, Probe, AppendLoad, Walk, List, RemoveOrphan,
           CleanupSync, StageWrite, StageSync, StageRename, StageDir, SwapWrite,
           SwapSync, SwapDir, FsWrite, FsSync, FsRename, FsRemove, FsSyncDir, disk
      <3>2. ASSUME NEW p \in Builders, BuilderCall(p) PROVE FALSE
        BY <3>2 DEF BuilderCall, BeginCreate, BeginAppend, Push, CommitRefused,
           Commit, DropBuilder, disk
      <3>3. ASSUME NEW r \in Readers, ReaderStep(r) PROVE FALSE
        BY <3>3 DEF ReaderStep, OpenLock, OpenLoad, OpenSegments, CloseReader, disk
      <3>4. ASSUME NEW p \in Builders, FsError(p) \/ Kill(p) PROVE FALSE
        BY <3>4 DEF FsError, Kill, FsTear, disk
      <3>5. ASSUME Crash PROVE FALSE
        BY <3>5 DEF Crash
      <3>6. QED
        BY <3>1, <3>2, <3>3, <3>4, <3>5 DEF Next
    <2>2. Sound(builder[p]) /\ builder[p].pc = "swapRename"
      BY <1>1, <2>1 DEF IInv, SwapRename, At
    <2>3. current' = builder[p].target.id
      BY <2>1 DEF SwapRename, FsRenameToCurrent
    <2>4. /\ manifests[builder[p].target.id] = builder[p].draft
          /\ builder[p].draft.previous = current
          /\ builder[p].draft.generation = NextGeneration
      BY <2>2 DEF Sound, SwapSound, DraftSound, Drafting, Swapping
    <2> QED BY <2>2, <2>3, <2>4 DEF At
  <1> QED BY <1>1, Inductive, PTL DEF Spec, PublishesSuccessor

-----------------------------------------------------------------------------
(* The chain of predecessors, as a function of the manifests alone.        *)

\* back collects the chain of each of the hashes up to n.
ChainsTo(back, ms, n) ==
    back = [g \in 0 .. n |->
               IF g = NoHash THEN {} ELSE {g} \cup back[ms[g].previous]]

ChainOf(ms, h) ==
    LET back[g \in 0 .. Len(ms)] ==
            IF g = NoHash THEN {} ELSE {g} \cup back[ms[g].previous]
    IN  back[h]

\* Every manifest names a predecessor that was there before it.
Backward(ms) == \A g \in DOMAIN ms : ms[g].previous < g

LEMMA ChainIsChainOf ==
    \A h : Chain(h) = ChainOf(manifests, h) /\ Chain(h)' = ChainOf(manifests', h)
  BY DEF Chain, ChainOf

\* A set of naturals that is not empty has a least member.
LEMMA LeastNatural ==
    ASSUME NEW T, T \subseteq Nat, T # {}
    PROVE  \E x \in T : \A y \in T : ~ (y < x)
  <1> DEFINE R == {ss \in Nat \X Nat : ss[1] < ss[2]}
  <1>0. IsWellFoundedOn(R, Nat)
    BY NatLessThanWellFounded DEF OpToRel
  <1> HIDE DEF R
  <1>1. PICK x \in T : \A y \in T : ~ (<<y, x>> \in R)
    BY <1>0, WFMin
  <1>2. ASSUME NEW y \in T, y < x PROVE <<y, x>> \in R
    BY <1>2 DEF R
  <1>3. QED
    BY <1>1, <1>2

\* The recursion that defines a chain has a solution, because it goes back.
LEMMA ChainsExist ==
    ASSUME NEW ms \in Seq(ManifestRecord), Backward(ms), NEW n \in 0 .. Len(ms)
    PROVE  \E back : ChainsTo(back, ms, n)
  <1> DEFINE Without == {k \in 0 .. n : ~ \E back : ChainsTo(back, ms, k)}
  <1>0. n \in 0 .. n
    BY SMT
  <1>1. SUFFICES ASSUME Without # {} PROVE FALSE
    BY <1>0
  <1>2. PICK k \in Without : \A y \in Without : ~ (y < k)
    <2>1. Without \subseteq Nat
      BY SMT
    <2>2. QED
      BY <1>1, <2>1, LeastNatural
  <1>3. k \in 0 .. n /\ ~ \E back : ChainsTo(back, ms, k)
    BY <1>2
  <1>4. CASE k = 0
    <2> DEFINE f == [g \in 0 .. 0 |-> {}]
    <2>1. \A g \in 0 .. 0 :
             {} = IF g = NoHash THEN {} ELSE {g} \cup f[ms[g].previous]
      BY SMT DEF NoHash
    <2>2. ChainsTo(f, ms, 0)
      BY <2>1 DEF ChainsTo
    <2>3. QED
      BY <1>3, <1>4, <2>2
  <1>5. CASE k # 0
    <2>1. k - 1 \in 0 .. n /\ k - 1 < k /\ k \in 1 .. Len(ms)
      BY <1>3, <1>5, SMT
    <2>2. PICK b : ChainsTo(b, ms, k - 1)
      BY <1>2, <2>1
    <2>3. /\ \A g \in 0 .. k - 1 :
                b[g] = IF g = NoHash THEN {} ELSE {g} \cup b[ms[g].previous]
      BY <2>2 DEF ChainsTo
    <2>4. \A g \in 1 .. k : ms[g].previous \in 0 .. g - 1
      <3>1. \A g \in 1 .. k : g \in DOMAIN ms /\ ms[g] \in ManifestRecord
        BY <2>1, SMT
      <3>2. \A g \in 1 .. k : ms[g].previous \in Nat /\ ms[g].previous < g
        BY <3>1 DEF Backward, ManifestRecord
      <3>3. QED
        BY <2>1, <3>2, SMT
    <2> DEFINE e == {k} \cup b[ms[k].previous]
               f == [g \in 0 .. k |-> IF g = k THEN e ELSE b[g]]
    <2>5. ASSUME NEW g \in 0 .. k
          PROVE  f[g] = IF g = NoHash THEN {} ELSE {g} \cup f[ms[g].previous]
      <3>1. CASE g = NoHash
        <4>1. g # k /\ g \in 0 .. k - 1
          BY <1>5, <2>1, <3>1, SMT DEF NoHash
        <4>2. f[g] = b[g]
          BY <4>1
        <4>3. QED
          BY <2>3, <3>1, <4>1, <4>2
      <3>2. CASE g # NoHash
        <4>1. g \in 1 .. k
          BY <2>1, <3>2, SMT DEF NoHash
        <4>2. ms[g].previous \in 0 .. g - 1
          BY <2>4, <4>1
        <4> DEFINE q == ms[g].previous
        <4>3. q \in 0 .. k /\ q # k
          BY <2>1, <4>1, <4>2, SMT
        <4> HIDE DEF q
        <4>4. f[q] = b[q]
          BY <4>3
        <4>5. CASE g = k
          <5>1. f[g] = e
            BY <4>5
          <5>2. QED
            BY <3>2, <4>4, <4>5, <5>1 DEF q
        <4>6. CASE g # k
          <5>1. g \in 0 .. k - 1
            BY <2>1, <4>1, <4>6, SMT
          <5>2. f[g] = b[g]
            BY <4>6
          <5>3. QED
            BY <2>3, <3>2, <4>4, <5>1, <5>2 DEF q
        <4>7. QED
          BY <4>5, <4>6
      <3>3. QED
        BY <3>1, <3>2
    <2>6. f = [g \in 0 .. k |->
                 IF g = NoHash THEN {} ELSE {g} \cup f[ms[g].previous]]
      <3>1. \A g \in 0 .. k : (IF g = k THEN e ELSE b[g])
                = IF g = NoHash THEN {} ELSE {g} \cup f[ms[g].previous]
        <4>1. \A g \in 0 .. k : f[g] = IF g = k THEN e ELSE b[g]
          OBVIOUS
        <4> HIDE DEF f, e
        <4>2. QED
          BY <2>5, <4>1
      <3>2. QED
        BY <3>1
    <2>7. ChainsTo(f, ms, k)
      BY <2>6 DEF ChainsTo
    <2>8. QED
      BY <1>3, <2>7
  <1>6. QED
    BY <1>4, <1>5

\* So a chain is the manifest and the chain of its predecessor.
LEMMA ChainUnfolds ==
    ASSUME NEW ms \in Seq(ManifestRecord), Backward(ms)
    PROVE  /\ ChainOf(ms, NoHash) = {}
           /\ \A g \in DOMAIN ms :
                 /\ ms[g].previous \in 0 .. g - 1
                 /\ ChainOf(ms, g) = {g} \cup ChainOf(ms, ms[g].previous)
  <1> DEFINE n == Len(ms)
             back == CHOOSE x : ChainsTo(x, ms, n)
  <1>1. n \in 0 .. n /\ DOMAIN ms = 1 .. n /\ n \in Nat
    BY SMT
  <1>2. ChainsTo(back, ms, n)
    BY <1>1, ChainsExist
  <1>3. \A h : ChainOf(ms, h) = back[h]
    BY Zenon DEF ChainOf, ChainsTo
  <1> HIDE DEF back
  <1>4. \A g \in 0 .. n :
           back[g] = IF g = NoHash THEN {} ELSE {g} \cup back[ms[g].previous]
    BY <1>2 DEF ChainsTo
  <1>5. ASSUME NEW g \in DOMAIN ms
        PROVE  /\ ms[g].previous \in 0 .. g - 1
               /\ back[g] = {g} \cup back[ms[g].previous]
    <2>1. ms[g] \in ManifestRecord
      BY <1>1
    <2>2. ms[g].previous \in Nat /\ ms[g].previous < g
      BY <2>1 DEF Backward, ManifestRecord
    <2>3. g \in 0 .. n /\ g # NoHash
      BY <1>1, SMT DEF NoHash
    <2>4. ms[g].previous \in 0 .. g - 1
      BY <1>1, <2>2, SMT
    <2>5. QED
      BY <1>4, <2>3, <2>4
  <1>6. back[NoHash] = {}
    <2>1. NoHash \in 0 .. n
      BY <1>1, SMT DEF NoHash
    <2>2. QED
      BY <1>4, <2>1
  <1>7. QED
    BY <1>3, <1>5, <1>6

\* The members of a chain are manifests, none of them later than its head.
LEMMA ChainMembers ==
    ASSUME NEW ms \in Seq(ManifestRecord), Backward(ms), NEW h \in 0 .. Len(ms)
    PROVE  ChainOf(ms, h) \subseteq 1 .. h
  <1> DEFINE Bad == {k \in 0 .. Len(ms) : ~ (ChainOf(ms, k) \subseteq 1 .. k)}
  <1>1. SUFFICES ASSUME Bad # {} PROVE FALSE
    OBVIOUS
  <1>2. PICK k \in Bad : \A y \in Bad : ~ (y < k)
    <2>1. Bad \subseteq Nat
      BY SMT
    <2>2. QED
      BY <1>1, <2>1, LeastNatural
  <1>3. k \in 0 .. Len(ms) /\ ~ (ChainOf(ms, k) \subseteq 1 .. k)
    BY <1>2
  <1>4. k # NoHash
    BY <1>3, ChainUnfolds DEF NoHash
  <1>5. k \in DOMAIN ms
    BY <1>3, <1>4, SMT DEF NoHash
  <1> DEFINE q == ms[k].previous
  <1>6. q \in 0 .. k - 1 /\ ChainOf(ms, k) = {k} \cup ChainOf(ms, q)
    BY <1>5, ChainUnfolds
  <1> HIDE DEF q
  <1>7. q \in 0 .. Len(ms) /\ q < k
    BY <1>3, <1>6, SMT
  <1>8. q \notin Bad
    BY <1>2, <1>7
  <1>9. ChainOf(ms, q) \subseteq 1 .. q
    BY <1>7, <1>8
  <1>10. 1 .. q \subseteq 1 .. k /\ k \in 1 .. k
    BY <1>3, <1>4, <1>6, SMT DEF NoHash
  <1>11. QED
    BY <1>3, <1>6, <1>9, <1>10

\* A chain is the same when manifests are added behind it.
LEMMA ChainStays ==
    ASSUME NEW ms \in Seq(ManifestRecord), NEW ns \in Seq(ManifestRecord),
           Backward(ms), Backward(ns),
           \A g \in DOMAIN ms : g \in DOMAIN ns /\ ns[g] = ms[g],
           NEW h \in 0 .. Len(ms)
    PROVE  ChainOf(ns, h) = ChainOf(ms, h)
  <1> DEFINE Bad == {k \in 0 .. Len(ms) : ChainOf(ns, k) # ChainOf(ms, k)}
  <1>1. SUFFICES ASSUME Bad # {} PROVE FALSE
    OBVIOUS
  <1>2. PICK k \in Bad : \A y \in Bad : ~ (y < k)
    <2>1. Bad \subseteq Nat
      BY SMT
    <2>2. QED
      BY <1>1, <2>1, LeastNatural
  <1>3. k \in 0 .. Len(ms) /\ ChainOf(ns, k) # ChainOf(ms, k)
    BY <1>2
  <1>4. k # NoHash
    BY <1>3, ChainUnfolds
  <1>5. k \in DOMAIN ms
    BY <1>3, <1>4, SMT DEF NoHash
  <1>6. k \in DOMAIN ns /\ ns[k] = ms[k]
    BY <1>5
  <1> DEFINE q == ms[k].previous
  <1>7. /\ q \in 0 .. k - 1 /\ ChainOf(ms, k) = {k} \cup ChainOf(ms, q)
        /\ ChainOf(ns, k) = {k} \cup ChainOf(ns, q)
    BY <1>5, <1>6, ChainUnfolds
  <1> HIDE DEF q
  <1>8. q \in 0 .. Len(ms) /\ q < k
    BY <1>3, <1>7, SMT
  <1>9. q \notin Bad
    BY <1>2, <1>8
  <1>10. QED
    BY <1>3, <1>7, <1>8, <1>9

-----------------------------------------------------------------------------
(* The four invariants. *)

\* The files of the generations a hash leads back to.
ChainFiles(h) == UNION {FilesOf(g) : g \in Chain(h)}

\* What cleanup's walk still has to visit and what it already keeps make up
\* the published chain; commit's own cleanup runs on a settled CURRENT.
WalkWhole(b) ==
    /\ b.pc = "idle" => b = NoBuilder
    /\ b.pc \notin {"walk", "list", "remove"} => b.keep = {}
    /\ b.pc = "walk" =>
          /\ b.walk \in DOMAIN manifests
          /\ ChainFiles(current) = b.keep \cup ChainFiles(b.walk)
    /\ b.pc \in {"list", "remove"} => b.keep = ChainFiles(current)
    /\ b.call = "tidy" => survivors = {current} /\ current # NoHash

ChainInv ==
    /\ Backward(manifests)
    /\ ChainFiles(current) \subseteq Durable
    /\ acked # NoHash => \A h \in survivors : h # NoHash /\ acked \in Chain(h)
    /\ \A p \in Builders : WalkWhole(builder[p])

\* What the directory can hold when a builder is about to stage its first
\* file, and that no CURRENT.tmp is left when one is about to be made.
DirectoryClean(b) ==
    /\ b.call = "push" => b.added > 0
    /\ b.pc = "remove" => live \subseteq b.keep \cup b.victims
    /\ b.pc \in Staging /\ b.target.kind = "model" =>
          live = CASE b.pc = "stageWrite" -> {}
                   [] b.pc = "stageDir"   -> {b.target}
                   [] OTHER               -> {Tmp(b.target)}
    /\ b.pc = "ready" /\ b.added = 0 =>
          live = {File("model", b.draft.model)} \cup ChainFiles(current)
    /\ Drafting(b) /\ b.pc \notin {"swapSync", "swapRename"} =>
          CurrentTmp \notin live

CleanInv == \A p \in Builders : DirectoryClean(builder[p])

\* The id of every listed segment is one that was given out, and below n.
IdsBelow(m, n) == \A i \in DOMAIN m.segments : m.segments[i].id \in 1 .. n

\* A draft's segments, and the rows not yet in one, account for every row
\* taken, within every limit.
RowsFit(b, n) ==
    /\ \A i \in DOMAIN b.draft.segments : EntryError(b.draft.segments, i) = "Ok"
    /\ NextRow(b.draft.segments, Len(b.draft.segments) + 1) + Len(b.originals)
          = b.firstRow + b.added
    /\ b.firstRow + b.added <= MaxRows
    /\ Len(b.draft.segments) <= MaxSegments
    /\ b.originals # <<>> => Len(b.draft.segments) < MaxSegments
    /\ Len(b.originals) <= MaxSegmentRows
    /\ IdsBelow(b.draft, n)

StagesSegment(b) == b.pc \in Staging /\ b.target.kind \in {"primary", "residual"}

\* The segments given out, without the one whose files are being staged.
Settled(b) == IF StagesSegment(b) THEN Len(segments) - 1 ELSE Len(segments)

\* So a draft always seals to a valid manifest.
DraftFits(b) ==
    /\ b.poisoned => b.pc = "ready"
    /\ b.call \in {"create", "append"} =>
          /\ b.added = 0 /\ b.originals = <<>> /\ b.pushed = <<>>
          /\ b.firstRow = b.draft.total
          /\ b.call = "create" => b.draft.total = 0
    /\ b.call = "commit" => b.added > 0
    /\ Drafting(b) =>
          /\ RowsFit(b, Settled(b))
          /\ b.pc = "ready" /\ ~ b.poisoned => Len(b.originals) < MaxSegmentRows
          /\ StagesSegment(b) => b.target.id = Len(segments) /\ Len(segments) # 0

ManifestFits(m, n) == Valid(m, m.generation) /\ IdsBelow(m, n)

FitInv ==
    /\ \A h \in DOMAIN manifests : ManifestFits(manifests[h], Len(segments))
    /\ \A p \in Builders : DraftFits(builder[p])

\* The rows of the generation a draft extends.
BaseRows(b) ==
    IF b.draft.previous = NoHash THEN <<>> ELSE RowsOf(manifests[b.draft.previous])

\* The rows a builder has taken, whether or not push has returned the last.
TakenRows(b) ==
    IF b.call = "push" THEN Append(b.pushed, b.originals[Len(b.originals)])
                       ELSE b.pushed

Sealing(b) ==
    \/ b.pc \in Swapping
    \/ b.pc \in Staging /\ b.target.kind = "manifest"

\* A draft holds the rows it extends and the rows taken since, in order.
RowsKept(b) ==
    Drafting(b) /\ ~ b.poisoned =>
        /\ RowsOf(b.draft) \o b.originals = BaseRows(b) \o TakenRows(b)
        /\ Len(TakenRows(b)) = b.added
        /\ StagesSegment(b) => segments[b.target.id] = b.originals
        /\ Sealing(b) => b.originals = <<>>

RowInv == \A p \in Builders : RowsKept(builder[p])

-----------------------------------------------------------------------------
(***************************************************************************)
(* What each step does to the builder that takes it, field by field.  In   *)
(* these lemmas c is the builder before the step and b the builder after.  *)
(***************************************************************************)
SameDraft(b, c) ==
    /\ b.draft = c.draft /\ b.firstRow = c.firstRow /\ b.added = c.added
    /\ b.originals = c.originals /\ b.poisoned = c.poisoned
    /\ b.pushed = c.pushed

\* A builder that has taken no row yet.
Blank(b) ==
    /\ b.firstRow = 0 /\ b.added = 0 /\ b.originals = <<>> /\ b.pushed = <<>>
    /\ b.poisoned = FALSE /\ b.keep = {}

\* A builder whose process can take a step has the lock or can have it, so
\* no other builder is doing anything.
LEMMA OthersIdle ==
    ASSUME IInv, NEW p \in Builders, At(p, "idle") => CanLockExclusive
    PROVE  /\ \A q \in Builders \ {p} : builder[q].pc = "idle"
           /\ \A b : Become(p, b) => builder'[p] = b
                 /\ \A q \in Builders \ {p} : builder'[q] = builder[q]
  BY DEF IInv, TypeOK, Exclusion, At, CanLockExclusive, NoBuilderHolds, Become

\* A step that only moves on,
LEMMA GotoEffect ==
    ASSUME IInv, NEW p \in Builders, NEW step, Goto(p, step)
    PROVE  LET c == builder[p] b == builder'[p] IN
           /\ b.pc = step /\ b.call = c.call /\ b.target = c.target
           /\ b.keep = c.keep /\ SameDraft(b, c)
           /\ \A q \in Builders \ {p} : builder'[q] = builder[q]
  <1> DEFINE c == builder[p]
             b == [c EXCEPT !.pc = step]
  <1>1. /\ c \in BuilderRecord /\ builder'[p] = b
        /\ \A q \in Builders \ {p} : builder'[q] = builder[q]
    BY DEF IInv, TypeOK, Goto
  <1> HIDE DEF c
  <1>2. /\ b.pc = step /\ b.call = c.call /\ b.target = c.target
        /\ b.keep = c.keep /\ SameDraft(b, c)
    BY <1>1 DEF BuilderRecord, SameDraft
  <1> HIDE DEF b
  <1>3. QED
    BY <1>1, <1>2 DEF c

\* the calls that take the lock,
LEMMA BeginEffect ==
    ASSUME IInv, NEW p \in Builders,
           (\E m \in Models : BeginCreate(p, m)) \/ BeginAppend(p)
    PROVE  LET c == builder[p] b == builder'[p] IN
           /\ c.pc = "idle" /\ Blank(b) /\ UNCHANGED <<disk, tables, reader, acked, mishaps>>
           /\ b.draft.total = 0
           /\ \/ b.pc = "probe" /\ b.call = "create"
              \/ b.pc = "load" /\ b.call = "append"
  <1>1. \A b : Become(p, b) => builder'[p] = b
    BY DEF Become, IInv, TypeOK
  <1>2. CASE BeginAppend(p)
    <2> DEFINE b == [NoBuilder EXCEPT !.pc = "load", !.call = "append"]
    <2>1. /\ b.pc = "load" /\ b.call = "append" /\ Blank(b) /\ b.draft.total = 0
      BY DEF NoBuilder, NoManifest, Blank
    <2>2. /\ builder[p].pc = "idle" /\ builder'[p] = b
          /\ UNCHANGED <<disk, tables, reader, acked, mishaps>>
      BY <1>1, <1>2 DEF BeginAppend, At
    <2> HIDE DEF b
    <2>3. QED
      BY <2>1, <2>2
  <1>3. CASE \E m \in Models : BeginCreate(p, m)
    <2>1. PICK m \in Models : BeginCreate(p, m)
      BY <1>3
    <2> DEFINE d == [NoManifest EXCEPT !.model = m]
               b == [NoBuilder EXCEPT !.pc = "probe", !.call = "create", !.draft = d]
    <2>2. d.total = 0
      BY DEF NoManifest
    <2> HIDE DEF d
    <2>3. /\ b.pc = "probe" /\ b.call = "create" /\ Blank(b) /\ b.draft.total = 0
      BY <2>2 DEF NoBuilder, Blank
    <2>4. /\ builder[p].pc = "idle" /\ builder'[p] = b
          /\ UNCHANGED <<disk, tables, reader, acked, mishaps>>
      BY <1>1, <2>1 DEF BeginCreate, At, d
    <2> HIDE DEF b
    <2>5. QED
      BY <2>3, <2>4
  <1>4. QED
    BY <1>2, <1>3

\* the end of a builder,
LEMMA DropEffect ==
    ASSUME IInv, NEW p \in Builders, CommitRefused(p) \/ DropBuilder(p) \/ Kill(p)
    PROVE  /\ builder'[p] = NoBuilder /\ builder[p].pc # "idle"
           /\ UNCHANGED <<disk, tables, reader, acked>>
           /\ mishaps' # mishaps \/ builder[p].pc = "ready"
  BY DEF CommitRefused, DropBuilder, Kill, Mishap, Become, At, IInv, TypeOK

\* what create and append first read,
LEMMA ProbeEffect ==
    ASSUME IInv, NEW p \in Builders, Probe(p)
    PROVE  LET c == builder[p] b == builder'[p] IN
           /\ c.pc = "probe" /\ UNCHANGED <<disk, tables, reader, acked, mishaps>>
           /\ \/ b = NoBuilder
              \/ /\ current = NoHash /\ b.pc = "list" /\ b.call = c.call
                 /\ b.keep = c.keep /\ SameDraft(b, c)
  <1>1. /\ builder[p].pc = "probe" /\ UNCHANGED <<disk, tables, reader, acked, mishaps>>
        /\ \/ builder'[p] = NoBuilder
           \/ current = NoHash /\ Goto(p, "list")
    BY DEF Probe, At, Become, IInv, TypeOK
  <1>2. QED
    BY <1>1, GotoEffect

LEMMA AppendLoadEffect ==
    ASSUME IInv, NEW p \in Builders, AppendLoad(p)
    PROVE  LET c == builder[p] b == builder'[p] IN
           /\ c.pc = "load" /\ UNCHANGED <<disk, tables, reader, acked, mishaps>>
           /\ \/ b = NoBuilder
              \/ /\ current \in DOMAIN manifests
                 /\ Valid(manifests[current], manifests[current].generation)
                 /\ b.pc = "walk" /\ b.call = c.call /\ b.keep = c.keep
                 /\ b.walk = current /\ b.draft = manifests[current]
                 /\ b.firstRow = manifests[current].total
                 /\ b.added = c.added /\ b.originals = c.originals
                 /\ b.pushed = c.pushed /\ b.poisoned = c.poisoned
  <1> DEFINE c == builder[p]
             m == manifests[current]
             b == [c EXCEPT !.pc = "walk", !.draft = m, !.firstRow = m.total,
                            !.walk = current, !.level = m.generation]
  <1>1. c \in BuilderRecord
    BY DEF IInv, TypeOK
  <1>2. /\ c.pc = "load" /\ UNCHANGED <<disk, tables, reader, acked, mishaps>>
        /\ \/ builder'[p] = NoBuilder
           \/ Readable(current) /\ Valid(m, m.generation) /\ builder'[p] = b
    BY DEF AppendLoad, At, Become, IInv, TypeOK
  <1> HIDE DEF c, m
  <1>3. /\ b.pc = "walk" /\ b.call = c.call /\ b.keep = c.keep /\ b.walk = current
        /\ b.draft = m /\ b.firstRow = m.total /\ b.added = c.added
        /\ b.originals = c.originals /\ b.pushed = c.pushed /\ b.poisoned = c.poisoned
    BY <1>1 DEF BuilderRecord
  <1> HIDE DEF b
  <1>4. QED
    BY <1>2, <1>3 DEF Readable, c, m

\* the failure of a call,
LEMMA FailEffect ==
    ASSUME IInv, NEW p \in Builders, Fail(p)
    PROVE  LET c == builder[p] b == builder'[p] IN
           /\ acked' = (IF c.call = "tidy" THEN current ELSE acked)
           /\ \/ c.call # "push" /\ b = NoBuilder
              \/ /\ c.call = "push" /\ b.pc = "ready" /\ b.call = "none"
                 /\ b.poisoned = TRUE /\ b.draft = c.draft
                 /\ b.firstRow = c.firstRow /\ b.added = c.added
                 /\ b.originals = c.originals /\ b.pushed = c.pushed
                 /\ b.keep = c.keep
  <1>1. /\ builder[p] \in BuilderRecord
        /\ \A b : Become(p, b) => builder'[p] = b
    BY DEF Become, IInv, TypeOK
  <1>2. QED
    BY <1>1 DEF Fail, Failed, BuilderRecord

\* the steps of cleanup,
LEMMA WalkEffect ==
    ASSUME IInv, NEW p \in Builders, Walk(p)
    PROVE  LET c == builder[p] b == builder'[p] IN
           /\ c.pc = "walk" /\ UNCHANGED <<disk, tables, reader, mishaps>>
           /\ \/ Fail(p)
              \/ /\ ~ ChainError(c.walk, c.level) /\ acked' = acked
                 /\ b.call = c.call /\ SameDraft(b, c)
                 /\ b.keep = c.keep \cup FilesOf(c.walk)
                 /\ b.walk = manifests[c.walk].previous
                 /\ b.pc = (IF c.level = 1 THEN "list" ELSE "walk")
  <1> DEFINE c == builder[p]
             b == Walked(c)
  <1>1. c \in BuilderRecord
    BY DEF IInv, TypeOK
  <1>2. /\ c.pc = "walk" /\ UNCHANGED <<disk, tables, reader, mishaps>>
        /\ \/ Fail(p)
           \/ ~ ChainError(c.walk, c.level) /\ acked' = acked /\ builder'[p] = b
    BY DEF Walk, At, Become, IInv, TypeOK
  <1> HIDE DEF c
  <1>3. /\ b.call = c.call /\ SameDraft(b, c)
        /\ b.keep = c.keep \cup FilesOf(c.walk)
        /\ b.walk = manifests[c.walk].previous
        /\ b.pc = (IF c.level = 1 THEN "list" ELSE "walk")
    BY <1>1 DEF Walked, BuilderRecord, SameDraft
  <1> HIDE DEF b
  <1>4. QED
    BY <1>2, <1>3 DEF c

LEMMA ListEffect ==
    ASSUME IInv, NEW p \in Builders, List(p)
    PROVE  LET c == builder[p] b == builder'[p] IN
           /\ c.pc = "list" /\ UNCHANGED <<disk, tables, reader, acked, mishaps>>
           /\ b.pc = "remove" /\ b.call = c.call /\ b.keep = c.keep
           /\ b.victims = live \ c.keep /\ SameDraft(b, c)
  <1> DEFINE c == builder[p]
             b == [c EXCEPT !.pc = "remove", !.victims = live \ c.keep]
  <1>1. c \in BuilderRecord
    BY DEF IInv, TypeOK
  <1>2. /\ c.pc = "list" /\ UNCHANGED <<disk, tables, reader, acked, mishaps>>
        /\ builder'[p] = b
    BY DEF List, At, Become, IInv, TypeOK
  <1> HIDE DEF c
  <1>3. /\ b.pc = "remove" /\ b.call = c.call /\ b.keep = c.keep
        /\ b.victims = live \ c.keep /\ SameDraft(b, c)
    BY <1>1 DEF BuilderRecord, SameDraft
  <1> HIDE DEF b
  <1>4. QED
    BY <1>2, <1>3 DEF c

LEMMA RemoveOrphanEffect ==
    ASSUME IInv, NEW p \in Builders, RemoveOrphan(p)
    PROVE  LET c == builder[p] b == builder'[p] IN
           /\ c.pc = "remove" /\ UNCHANGED <<tables, reader, acked, mishaps>>
           /\ b.pc = "remove" /\ b.call = c.call /\ b.keep = c.keep /\ SameDraft(b, c)
           /\ \E n \in c.victims : FsRemove(n) /\ b.victims = c.victims \ {n}
  <1> DEFINE c == builder[p]
  <1>1. c \in BuilderRecord
    BY DEF IInv, TypeOK
  <1>2. PICK n \in c.victims : FsRemove(n) /\ Become(p, [c EXCEPT !.victims = @ \ {n}])
    BY DEF RemoveOrphan
  <1> DEFINE b == [c EXCEPT !.victims = @ \ {n}]
  <1>3. /\ c.pc = "remove" /\ UNCHANGED <<tables, reader, acked, mishaps>>
        /\ builder'[p] = b
    BY <1>2 DEF RemoveOrphan, At, Become, IInv, TypeOK
  <1> HIDE DEF c
  <1>4. /\ b.pc = c.pc /\ b.call = c.call /\ b.keep = c.keep
        /\ b.victims = c.victims \ {n} /\ SameDraft(b, c)
    BY <1>1 DEF BuilderRecord, SameDraft
  <1> HIDE DEF b
  <1>5. QED
    BY <1>2, <1>3, <1>4 DEF c

LEMMA CleanupSyncEffect ==
    ASSUME IInv, NEW p \in Builders, CleanupSync(p)
    PROVE  LET c == builder[p] b == builder'[p] IN
           /\ c.pc = "remove" /\ c.victims = {} /\ FsSyncDir
           /\ UNCHANGED <<tables, reader, mishaps>>
           /\ acked' = (IF c.call = "tidy" THEN current ELSE acked)
           /\ \/ /\ c.call = "create" /\ b.call = "create" /\ b.pc = "stageWrite"
                 /\ b.target = File("model", c.draft.model) /\ b.keep = {}
                 /\ SameDraft(b, c)
              \/ /\ c.call = "append" /\ b.call = "none" /\ b.pc = "ready"
                 /\ b.draft = Successor(c.draft) /\ b.keep = {}
                 /\ b.firstRow = c.firstRow /\ b.added = c.added
                 /\ b.originals = c.originals /\ b.pushed = c.pushed
                 /\ b.poisoned = c.poisoned
              \/ /\ c.call \notin {"create", "append"} /\ b = NoBuilder
  <1>1. /\ builder[p] \in BuilderRecord
        /\ \A b : Become(p, b) => builder'[p] = b
    BY DEF Become, IInv, TypeOK
  <1> DEFINE c == builder[p]
             d == Cleaned(c)
  <1>2. /\ d \in BuilderRecord /\ d.call = c.call /\ d.keep = {} /\ SameDraft(d, c)
    BY <1>1, CleanedType DEF Cleaned, BuilderRecord, SameDraft
  <1>3. /\ c.pc = "remove" /\ c.victims = {} /\ FsSyncDir
        /\ UNCHANGED <<tables, reader, mishaps>>
        /\ acked' = (IF c.call = "tidy" THEN current ELSE acked)
    <2>1. c.pc = "remove" /\ c.victims = {}
      BY DEF CleanupSync, At
    <2>2. FsSyncDir
      BY DEF CleanupSync
    <2>3. UNCHANGED <<tables, reader, mishaps>>
      BY DEF CleanupSync
    <2>4. acked' = (IF c.call = "tidy" THEN current ELSE acked)
      <3>1. acked' = (IF d.call = "tidy" THEN current ELSE acked)
        BY DEF CleanupSync
      <3>2. QED
        BY <1>2, <3>1
    <2>5. QED
      BY <2>1, <2>2, <2>3, <2>4
  <1> HIDE DEF c, d
  <1>4. CASE c.call = "create"
    <2>1. builder'[p] = [d EXCEPT !.pc = "stageWrite", !.target = File("model", d.draft.model)]
      BY <1>1, <1>2, <1>4 DEF CleanupSync, c, d
    <2>2. QED
      BY <1>2, <1>3, <1>4, <2>1 DEF BuilderRecord, SameDraft, c
  <1>5. CASE c.call = "append"
    <2>1. builder'[p] = [d EXCEPT !.pc = "ready", !.call = "none", !.draft = Successor(@)]
      BY <1>1, <1>2, <1>5 DEF CleanupSync, c, d
    <2>2. QED
      BY <1>2, <1>3, <1>5, <2>1 DEF BuilderRecord, SameDraft, c
  <1>6. CASE c.call \notin {"create", "append"}
    <2>1. builder'[p] = NoBuilder
      BY <1>1, <1>2, <1>6 DEF CleanupSync, c, d
    <2>2. QED
      BY <1>2, <1>3, <1>6, <2>1 DEF c
  <1>7. QED
    BY <1>4, <1>5, <1>6

\* push, with and without a segment to stage,
LEMMA PushEffect ==
    ASSUME IInv, NEW p \in Builders, NEW v \in Vectors, Push(p, v)
    PROVE  LET c == builder[p] b == builder'[p] IN
           /\ c.pc = "ready" /\ ~ c.poisoned /\ c.firstRow + c.added < MaxRows
           /\ c.originals # <<>> \/ Len(c.draft.segments) < MaxSegments
           /\ UNCHANGED <<disk, manifests, reader, acked, mishaps>>
           /\ b.draft = c.draft /\ b.firstRow = c.firstRow /\ b.poisoned = c.poisoned
           /\ b.keep = c.keep /\ b.added = c.added + 1
           /\ b.originals = Append(c.originals, v)
           /\ \/ /\ Len(b.originals) = MaxSegmentRows
                 /\ b.pc = "stageWrite" /\ b.call = "push"
                 /\ b.target = File("primary", Len(segments) + 1)
                 /\ b.pushed = c.pushed /\ segments' = Append(segments, b.originals)
              \/ /\ Len(b.originals) # MaxSegmentRows
                 /\ b.pc = "ready" /\ b.call = c.call
                 /\ b.pushed = Append(c.pushed, v) /\ UNCHANGED segments
  <1> DEFINE c == builder[p]
             taken == [c EXCEPT !.originals = Append(@, v), !.added = @ + 1]
  <1>1. c \in BuilderRecord /\ \A x : Become(p, x) => builder'[p] = x
    BY DEF IInv, TypeOK, Become
  <1>2. /\ c.pc = "ready" /\ ~ c.poisoned /\ c.firstRow + c.added < MaxRows
        /\ c.originals # <<>> \/ Len(c.draft.segments) < MaxSegments
        /\ UNCHANGED <<disk, manifests, reader, acked, mishaps>>
    BY DEF Push, At
  <1>3. \/ /\ Len(taken.originals) = MaxSegmentRows
           /\ builder'[p] = BeginSegment(taken, "push")
           /\ segments' = Append(segments, taken.originals)
        \/ /\ Len(taken.originals) # MaxSegmentRows
           /\ builder'[p] = Returned(taken) /\ UNCHANGED segments
    BY <1>1 DEF Push
  <1> HIDE DEF c
  <1>4. c.originals \in Seq(Vectors) /\ c.added \in Nat /\ c.pushed \in Seq(Vectors)
    BY <1>1 DEF BuilderRecord
  <1>5. /\ Append(c.originals, v) \in Seq(Vectors) /\ c.added + 1 \in Nat
        /\ Append(c.originals, v)[Len(Append(c.originals, v))] = v
    BY <1>4
  <1>6. /\ taken \in BuilderRecord /\ taken.pc = c.pc /\ taken.call = c.call
        /\ taken.draft = c.draft /\ taken.firstRow = c.firstRow
        /\ taken.poisoned = c.poisoned /\ taken.keep = c.keep
        /\ taken.pushed = c.pushed /\ taken.added = c.added + 1
        /\ taken.originals = Append(c.originals, v)
    BY <1>1, <1>5 DEF BuilderRecord
  <1> HIDE DEF taken
  <1> DEFINE s == BeginSegment(taken, "push")
             r == Returned(taken)
  <1>7. /\ s.pc = "stageWrite" /\ s.call = "push" /\ s.draft = taken.draft
        /\ s.target = File("primary", Len(segments) + 1)
        /\ s.firstRow = taken.firstRow /\ s.poisoned = taken.poisoned
        /\ s.keep = taken.keep /\ s.added = taken.added
        /\ s.originals = taken.originals /\ s.pushed = taken.pushed
    BY <1>6 DEF BeginSegment, BuilderRecord
  <1>8. /\ r.pc = taken.pc /\ r.call = taken.call /\ r.draft = taken.draft
        /\ r.firstRow = taken.firstRow /\ r.poisoned = taken.poisoned
        /\ r.keep = taken.keep /\ r.added = taken.added
        /\ r.originals = taken.originals /\ r.pushed = Append(taken.pushed, v)
    BY <1>5, <1>6 DEF Returned, BuilderRecord
  <1> HIDE DEF s, r
  <1>9. CASE builder'[p] = s
    BY <1>2, <1>3, <1>6, <1>7, <1>8, <1>9 DEF c, s, r
  <1>10. CASE builder'[p] = r
    BY <1>2, <1>3, <1>6, <1>7, <1>8, <1>10 DEF c, s, r
  <1>11. QED
    BY <1>3, <1>9, <1>10 DEF s, r

\* the sealing of a manifest,
LEMMA SealEffect ==
    ASSUME IInv, NEW p \in Builders, NEW c \in BuilderRecord, SealManifest(p, c)
    PROVE  LET b == builder'[p] IN
           \/ /\ Valid(Sealed(c), c.draft.generation)
              /\ manifests' = Append(manifests, Sealed(c))
              /\ b.pc = "stageWrite" /\ b.call = "commit" /\ b.draft = Sealed(c)
              /\ b.target = File("manifest", Len(manifests) + 1)
              /\ b.firstRow = c.firstRow /\ b.added = c.added
              /\ b.originals = c.originals /\ b.poisoned = c.poisoned
              /\ b.pushed = c.pushed /\ b.keep = c.keep
           \/ /\ ~ Valid(Sealed(c), c.draft.generation)
              /\ b = NoBuilder /\ UNCHANGED manifests
  <1> DEFINE b == BeginManifest(c)
  <1>1. /\ b.pc = "stageWrite" /\ b.call = "commit" /\ b.draft = Sealed(c)
        /\ b.target = File("manifest", Len(manifests) + 1)
        /\ b.firstRow = c.firstRow /\ b.added = c.added
        /\ b.originals = c.originals /\ b.poisoned = c.poisoned
        /\ b.pushed = c.pushed /\ b.keep = c.keep
    BY DEF BeginManifest, BuilderRecord
  <1>2. \/ /\ Valid(Sealed(c), c.draft.generation) /\ builder'[p] = b
           /\ manifests' = Append(manifests, Sealed(c))
        \/ /\ ~ Valid(Sealed(c), c.draft.generation) /\ builder'[p] = NoBuilder
           /\ UNCHANGED manifests
    <2>1. \A x : Become(p, x) => builder'[p] = x
      BY DEF IInv, TypeOK, Become
    <2>2. QED
      BY <2>1 DEF SealManifest
  <1> HIDE DEF b
  <1>3. QED
    BY <1>1, <1>2

\* commit, up to what it stages first,
LEMMA CommitEffect ==
    ASSUME IInv, NEW p \in Builders, Commit(p)
    PROVE  LET c == builder[p] b == builder'[p] IN
           /\ c.pc = "ready" /\ ~ c.poisoned /\ c.added > 0
           /\ UNCHANGED <<disk, reader, acked, mishaps>>
           /\ \/ c.originals = <<>> /\ SealManifest(p, c) /\ UNCHANGED segments
              \/ /\ c.originals # <<>> /\ Len(c.draft.segments) >= MaxSegments
                 /\ b = NoBuilder /\ UNCHANGED tables
              \/ /\ c.originals # <<>> /\ UNCHANGED manifests
                 /\ segments' = Append(segments, c.originals)
                 /\ b.pc = "stageWrite" /\ b.call = "commit" /\ SameDraft(b, c)
                 /\ b.target = File("primary", Len(segments) + 1)
                 /\ b.keep = c.keep
  <1> DEFINE c == builder[p]
             b == BeginSegment(c, "commit")
  <1>1. c \in BuilderRecord /\ \A x : Become(p, x) => builder'[p] = x
    BY DEF IInv, TypeOK, Become
  <1>2. /\ c.pc = "ready" /\ ~ c.poisoned /\ c.added > 0
        /\ UNCHANGED <<disk, reader, acked, mishaps>>
    BY DEF Commit, At
  <1>3. \/ c.originals = <<>> /\ SealManifest(p, c) /\ UNCHANGED segments
        \/ /\ c.originals # <<>> /\ Len(c.draft.segments) >= MaxSegments
           /\ builder'[p] = NoBuilder /\ UNCHANGED tables
        \/ /\ c.originals # <<>> /\ UNCHANGED manifests
           /\ segments' = Append(segments, c.originals) /\ builder'[p] = b
    BY <1>1 DEF Commit
  <1> HIDE DEF c
  <1>4. /\ b.pc = "stageWrite" /\ b.call = "commit" /\ SameDraft(b, c)
        /\ b.target = File("primary", Len(segments) + 1) /\ b.keep = c.keep
    BY <1>1 DEF BeginSegment, BuilderRecord, SameDraft
  <1> HIDE DEF b
  <1>5. QED
    BY <1>2, <1>3, <1>4 DEF c

\* The draft once the segment being staged is recorded in it.
Entry(c) == [id    |-> c.target.id,
             first |-> c.firstRow + c.added - Len(c.originals),
             count |-> Len(c.originals)]

RecordedDraft(c) == [c.draft EXCEPT !.segments = Append(@, Entry(c))]

LEMMA RecordedFields ==
    ASSUME NEW c \in BuilderRecord
    PROVE  LET b == Recorded(c) IN
           /\ b.draft = RecordedDraft(c) /\ b.originals = <<>> /\ b.pc = c.pc
           /\ b.call = c.call /\ b.firstRow = c.firstRow /\ b.added = c.added
           /\ b.poisoned = c.poisoned /\ b.pushed = c.pushed /\ b.keep = c.keep
  <1> DEFINE d == RecordedDraft(c)
  <1>1. Recorded(c) = [c EXCEPT !.draft = d, !.originals = <<>>]
    BY DEF Recorded, RecordedDraft, Entry, BuilderRecord, ManifestRecord
  <1> HIDE DEF d
  <1>2. QED
    BY <1>1 DEF BuilderRecord, d

\* the end of stage,
LEMMA StageDirEffect ==
    ASSUME IInv, NEW p \in Builders, StageDir(p)
    PROVE  LET c == builder[p] b == builder'[p] IN
           /\ c.pc = "stageDir" /\ FsSyncDir
           /\ UNCHANGED <<segments, reader, acked, mishaps>>
           /\ \/ /\ c.target.kind = "model" /\ UNCHANGED manifests
                 /\ b.pc = "ready" /\ b.call = "none" /\ b.keep = c.keep
                 /\ b.draft = [c.draft EXCEPT !.generation = 1]
                 /\ b.firstRow = c.firstRow /\ b.added = c.added
                 /\ b.originals = c.originals /\ b.pushed = c.pushed
                 /\ b.poisoned = c.poisoned
              \/ /\ c.target.kind = "primary" /\ UNCHANGED manifests
                 /\ b.pc = "stageWrite" /\ b.call = c.call /\ b.keep = c.keep
                 /\ b.target = File("residual", c.target.id) /\ SameDraft(b, c)
              \/ /\ c.target.kind = "residual" /\ c.call = "push" /\ UNCHANGED manifests
                 /\ b.pc = "ready" /\ b.call = "none" /\ b.keep = c.keep
                 /\ b.draft = RecordedDraft(c) /\ b.originals = <<>>
                 /\ b.firstRow = c.firstRow /\ b.added = c.added
                 /\ b.pushed = Append(c.pushed, c.originals[Len(c.originals)])
                 /\ b.poisoned = c.poisoned
              \/ /\ c.target.kind = "residual" /\ c.call = "commit"
                 /\ SealManifest(p, Recorded(c))
              \/ /\ c.target.kind = "manifest" /\ UNCHANGED manifests
                 /\ b.pc = "swapWrite" /\ b.call = c.call /\ b.keep = c.keep
                 /\ b.target = c.target /\ SameDraft(b, c)
  <1> DEFINE c == builder[p]
  <1>1. c \in BuilderRecord /\ \A x : Become(p, x) => builder'[p] = x
    BY DEF IInv, TypeOK, Become
  <1>2. c.pc = "stageDir" /\ FsSyncDir /\ UNCHANGED <<segments, reader, acked, mishaps>>
    BY DEF StageDir, At
  <1>3. Staged(p, c)
    BY DEF StageDir
  <1> HIDE DEF c
  <1>4. CASE c.target.kind = "model"
    <2> DEFINE d == [c.draft EXCEPT !.generation = 1]
               b == [Ready(c) EXCEPT !.draft = d]
    <2>1. Ready(c) = [c EXCEPT !.pc = "ready", !.call = "none", !.target = NoFile]
      BY DEF Ready
    <2>2. [Ready(c) EXCEPT !.draft.generation = 1] = b
      BY <1>1, <2>1 DEF BuilderRecord
    <2>3. builder'[p] = b /\ UNCHANGED manifests
      BY <1>1, <1>3, <1>4, <2>2 DEF Staged
    <2> HIDE DEF d
    <2>4. /\ b.pc = "ready" /\ b.call = "none" /\ b.keep = c.keep /\ b.draft = d
          /\ b.firstRow = c.firstRow /\ b.added = c.added
          /\ b.originals = c.originals /\ b.pushed = c.pushed /\ b.poisoned = c.poisoned
      BY <1>1, <2>1 DEF BuilderRecord
    <2> HIDE DEF b
    <2>5. QED
      BY <1>2, <1>4, <2>3, <2>4 DEF c, d
  <1>5. CASE c.target.kind = "primary"
    <2> DEFINE b == [c EXCEPT !.pc = "stageWrite", !.target = File("residual", c.target.id)]
    <2>1. builder'[p] = b /\ UNCHANGED manifests
      BY <1>1, <1>3, <1>5 DEF Staged
    <2>2. /\ b.pc = "stageWrite" /\ b.call = c.call /\ b.keep = c.keep
          /\ b.target = File("residual", c.target.id) /\ SameDraft(b, c)
      BY <1>1 DEF BuilderRecord, SameDraft
    <2> HIDE DEF b
    <2>3. QED
      BY <1>2, <1>5, <2>1, <2>2 DEF c
  <1>6. CASE c.target.kind = "residual" /\ c.call = "push"
    <2> DEFINE r == Returned(c)
               d == Recorded(r)
               b == Ready(d)
    <2>1. builder'[p] = b /\ UNCHANGED manifests
      BY <1>1, <1>3, <1>6 DEF Staged
    <2>2. /\ c.originals # <<>> /\ Len(c.originals) <= c.added
      BY <1>1, <1>2, <1>6 DEF IInv, Sound, RowsSound, Staging, c
    <2>3. /\ r.pc = c.pc /\ r.call = c.call /\ r.draft = c.draft /\ r.target = c.target
          /\ r.firstRow = c.firstRow /\ r.added = c.added /\ r.keep = c.keep
          /\ r.originals = c.originals /\ r.poisoned = c.poisoned
          /\ r.pushed = Append(c.pushed, c.originals[Len(c.originals)])
      BY <1>1 DEF Returned, BuilderRecord
    <2>4. r \in BuilderRecord
      BY <1>1, <2>2, ReturnedType
    <2> HIDE DEF r
    <2>5. /\ d.draft = RecordedDraft(c) /\ d.originals = <<>>
          /\ d.firstRow = c.firstRow /\ d.added = c.added /\ d.keep = c.keep
          /\ d.poisoned = c.poisoned /\ d.pushed = r.pushed
      BY <2>3, <2>4, RecordedFields DEF RecordedDraft, Entry
    <2>6. d \in BuilderRecord
      BY <2>2, <2>3, <2>4, RecordedType
    <2> HIDE DEF d
    <2>7. /\ b.pc = "ready" /\ b.call = "none" /\ b.keep = d.keep /\ b.draft = d.draft
          /\ b.originals = d.originals /\ b.firstRow = d.firstRow /\ b.added = d.added
          /\ b.pushed = d.pushed /\ b.poisoned = d.poisoned
      BY <2>6 DEF Ready, BuilderRecord
    <2> HIDE DEF b
    <2>8. QED
      BY <1>2, <1>6, <2>1, <2>3, <2>5, <2>7 DEF c
  <1>7. CASE c.target.kind = "manifest"
    <2> DEFINE b == [c EXCEPT !.pc = "swapWrite"]
    <2>1. builder'[p] = b /\ UNCHANGED manifests
      BY <1>1, <1>3, <1>7 DEF Staged
    <2>2. /\ b.pc = "swapWrite" /\ b.call = c.call /\ b.keep = c.keep
          /\ b.target = c.target /\ SameDraft(b, c)
      BY <1>1 DEF BuilderRecord, SameDraft
    <2> HIDE DEF b
    <2>3. QED
      BY <1>2, <1>7, <2>1, <2>2 DEF c
  <1>8. CASE c.target.kind = "residual" /\ c.call = "commit"
    <2>1. SealManifest(p, Recorded(c))
      BY <1>3, <1>8 DEF Staged
    <2>2. QED
      BY <1>2, <1>8, <2>1 DEF c
  <1>9. QED
    BY <1>3, <1>4, <1>5, <1>6, <1>7, <1>8 DEF Staged

\* and the step from publication to commit's own cleanup.
LEMMA SwapDirEffect ==
    ASSUME IInv, NEW p \in Builders, SwapDir(p)
    PROVE  LET c == builder[p] b == builder'[p] IN
           /\ c.pc = "swapDir" /\ FsSyncDir /\ UNCHANGED <<tables, reader, acked, mishaps>>
           /\ b.pc = "walk" /\ b.call = "tidy" /\ b.walk = c.target.id
           /\ b.keep = c.keep /\ SameDraft(b, c)
  <1> DEFINE c == builder[p]
             b == [c EXCEPT !.pc = "walk", !.call = "tidy", !.walk = c.target.id,
                            !.level = c.draft.generation]
  <1>1. c \in BuilderRecord /\ \A x : Become(p, x) => builder'[p] = x
    BY DEF IInv, TypeOK, Become
  <1>2. /\ c.pc = "swapDir" /\ FsSyncDir /\ UNCHANGED <<tables, reader, acked, mishaps>>
        /\ builder'[p] = b
    BY <1>1 DEF SwapDir, At
  <1> HIDE DEF c
  <1>3. /\ b.pc = "walk" /\ b.call = "tidy" /\ b.walk = c.target.id
        /\ b.keep = c.keep /\ SameDraft(b, c)
    BY <1>1 DEF BuilderRecord, SameDraft
  <1> HIDE DEF b
  <1>4. QED
    BY <1>2, <1>3 DEF c

-----------------------------------------------------------------------------
(* What any step may do to the tables, to CURRENT and to what is settled.  *)

\* A manifest, once sealed, goes behind the others and extends CURRENT's.
Extended ==
    \/ manifests' = manifests
    \/ \E m \in ManifestRecord :
          m.previous = current /\ manifests' = Append(manifests, m)

LEMMA SealedExtends ==
    ASSUME IInv, NEW p \in Builders, NEW c \in BuilderRecord, SealManifest(p, c),
           c.draft.previous = current
    PROVE  Extended
  <1>1. Sealed(c) \in ManifestRecord /\ Sealed(c).previous = c.draft.previous
    BY SealedType DEF Sealed, BuilderRecord, ManifestRecord
  <1>2. QED
    BY <1>1 DEF SealManifest, Extended

LEMMA ExtendedStep ==
    ASSUME IInv, [Next]_vars PROVE Extended
  <1>1. ASSUME NEW p \in Builders, Commit(p) PROVE Extended
    <2>1. builder[p] \in BuilderRecord /\ builder[p].draft.previous = current
      BY <1>1, CommitEffect DEF IInv, TypeOK, Sound, DraftSound, Drafting
    <2>2. SealManifest(p, builder[p]) \/ UNCHANGED manifests
      BY <1>1, CommitEffect DEF tables
    <2>3. QED
      BY <2>1, <2>2, SealedExtends DEF Extended
  <1>2. ASSUME NEW p \in Builders, StageDir(p) PROVE Extended
    <2> DEFINE c == builder[p]
    <2>1. c \in BuilderRecord /\ Sound(c) /\ c.pc = "stageDir"
      BY <1>2, StageDirEffect DEF IInv, TypeOK
    <2>2. \/ UNCHANGED manifests
          \/ c.target.kind = "residual" /\ SealManifest(p, Recorded(c))
      BY <1>2, StageDirEffect
    <2>3. CASE c.target.kind = "residual" /\ SealManifest(p, Recorded(c))
      <3>1. c.draft.previous = current /\ Len(c.originals) <= c.added
        BY <2>1, <2>3 DEF Sound, DraftSound, Drafting, Staging, RowsSound
      <3>2. Recorded(c) \in BuilderRecord /\ Recorded(c).draft = RecordedDraft(c)
        BY <2>1, <3>1, RecordedType, RecordedFields
      <3>3. RecordedDraft(c).previous = c.draft.previous
        BY <2>1 DEF RecordedDraft, BuilderRecord, ManifestRecord
      <3>4. QED
        BY <2>3, <3>1, <3>2, <3>3, SealedExtends
    <2>4. QED
      BY <2>2, <2>3 DEF Extended
  <1>3. ASSUME NEW p \in Builders, BuilderStep(p), ~ StageDir(p)
        PROVE  UNCHANGED manifests
    BY <1>3 DEF BuilderStep, Probe, AppendLoad, Walk, List, RemoveOrphan,
       CleanupSync, StageWrite, StageSync, StageRename, SwapWrite, SwapSync,
       SwapRename, SwapDir, tables
  <1>4. ASSUME NEW p \in Builders, BuilderCall(p), ~ Commit(p)
        PROVE  UNCHANGED manifests
    BY <1>4 DEF BuilderCall, BeginCreate, BeginAppend, Push, CommitRefused,
       DropBuilder, tables
  <1>5. ASSUME NEW r \in Readers, ReaderStep(r) PROVE UNCHANGED manifests
    BY <1>5 DEF ReaderStep, OpenLock, OpenLoad, OpenSegments, CloseReader, tables
  <1>6. ASSUME NEW p \in Builders, FsError(p) \/ Kill(p) PROVE UNCHANGED manifests
    BY <1>6 DEF FsError, Kill, tables
  <1>7. Crash => UNCHANGED manifests
    BY DEF Crash, tables
  <1>8. UNCHANGED vars => UNCHANGED manifests
    BY DEF vars, tables
  <1>9. QED
    BY <1>1, <1>2, <1>3, <1>4, <1>5, <1>6, <1>7, <1>8 DEF Next, Extended

\* CURRENT and the settled files are left alone, but that the directory may
\* be synced.
Calm ==
    /\ StillDurable /\ current' = current
    /\ survivors' = survivors \/ survivors' = {current}

LEMMA CalmSync ==
    ASSUME IInv, IInv', FsSyncDir, UNCHANGED segments, UNCHANGED mishaps,
           acked' \in {acked, current}
    PROVE  Calm
  BY SyncDirDisk DEF IInv, TypeOK, Calm, DirOK

LEMMA CalmSame ==
    ASSUME UNCHANGED disk PROVE Calm
  BY DEF disk, Calm, StillDurable, Durable

\* What a builder stages has a name, and so has its temporary file.
LEMMA TargetName ==
    ASSUME IInv, NEW p \in Builders
    PROVE  LET t == builder[p].target IN t \in Names /\ Tmp(t) \in Names /\ Tmp(t).tmp
  <1>1. builder[p] \in BuilderRecord
    BY DEF IInv, TypeOK
  <1>2. builder[p].target \in Names
    BY <1>1 DEF BuilderRecord
  <1>3. \A t \in Names : Tmp(t) \in Names /\ Tmp(t).tmp
    BY DEF Tmp, Names
  <1>4. QED
    BY <1>2, <1>3

LEMMA CalmBuilderStep ==
    ASSUME IInv, IInv', NEW p \in Builders, BuilderStep(p),
           ~ RemoveOrphan(p), ~ SwapRename(p)
    PROVE  Calm
  <1> DEFINE t == builder[p].target
  <1>1. t \in Names /\ Tmp(t) \in Names /\ Tmp(t).tmp
    BY TargetName
  <1>2. CurrentTmp \in Names /\ CurrentTmp.tmp
    BY NameType DEF CurrentTmp
  <1> HIDE DEF t
  <1>3. Probe(p) \/ AppendLoad(p) \/ Walk(p) \/ List(p) => Calm
    BY CalmSame DEF Probe, AppendLoad, Walk, List
  <1>4. CleanupSync(p) => Calm
    BY CleanupSyncEffect, CalmSync DEF tables
  <1>5. StageDir(p) => Calm
    BY StageDirEffect, CalmSync
  <1>6. SwapDir(p) => Calm
    BY SwapDirEffect, CalmSync DEF tables
  <1>7. ASSUME StageWrite(p) PROVE Calm
    <2>1. DirOK
      BY <1>1, <1>7, WriteDisk DEF StageWrite, IInv, TypeOK, t
    <2>2. QED
      BY <1>7, <2>1 DEF StageWrite, FsWrite, Calm, DirOK
  <1>8. ASSUME StageSync(p) PROVE Calm
    <2>1. DirOK
      BY <1>1, <1>8, SyncDisk DEF StageSync, t
    <2>2. QED
      BY <1>8, <2>1 DEF StageSync, FsSync, Calm, DirOK
  <1>9. ASSUME StageRename(p) PROVE Calm
    <2>1. Tmp(t) \notin torn \cup unsynced
      BY <1>9 DEF StageRename, At, IInv, Sound, StageSound, t
    <2>2. DirOK
      BY <1>1, <1>9, <2>1, RenameDisk DEF StageRename, t
    <2>3. QED
      BY <1>9, <2>2 DEF StageRename, FsRename, Calm, DirOK
  <1>10. ASSUME SwapWrite(p) PROVE Calm
    <2>1. CASE UNCHANGED disk
      BY <2>1, CalmSame, Zenon
    <2>2. CASE FsWrite(CurrentTmp)
      <3>1. DirOK
        BY <1>2, <1>10, <2>2, WriteDisk DEF SwapWrite, IInv, TypeOK
      <3>2. QED
        BY <2>2, <3>1 DEF FsWrite, Calm, DirOK
    <2>3. QED
      BY <1>10, <2>1, <2>2 DEF SwapWrite
  <1>11. ASSUME SwapSync(p) PROVE Calm
    <2>1. DirOK
      BY <1>2, <1>11, SyncDisk DEF SwapSync
    <2>2. QED
      BY <1>11, <2>1 DEF SwapSync, FsSync, Calm, DirOK
  <1>12. QED
    BY <1>3, <1>4, <1>5, <1>6, <1>7, <1>8, <1>9, <1>10, <1>11 DEF BuilderStep

LEMMA CalmError ==
    ASSUME IInv, IInv', NEW p \in Builders, FsError(p)
    PROVE  Calm
  <1>1. Tmp(builder[p].target) \in Names /\ Tmp(builder[p].target).tmp
    BY TargetName
  <1>2. CurrentTmp \in Names /\ CurrentTmp.tmp
    BY NameType DEF CurrentTmp
  <1>3. ASSUME NEW n \in Names, n.tmp, FsTear(n) PROVE Calm
    <2>1. /\ UNCHANGED tables /\ acked' \in {acked, current}
          /\ mishaps' \in 0 .. MaxMishaps
      BY DEF FsError, Fail, IInv, TypeOK
    <2>2. DirOK
      BY <1>3, <2>1, WriteDisk
    <2>3. QED
      BY <1>3, <2>2 DEF FsTear, Calm, DirOK
  <1>4. \/ UNCHANGED disk \/ FsTear(Tmp(builder[p].target)) \/ FsTear(CurrentTmp)
    BY DEF FsError
  <1>5. QED
    BY <1>1, <1>2, <1>3, <1>4, CalmSame

LEMMA CalmSteps ==
    ASSUME IInv, IInv', [Next]_vars
    PROVE  \/ Calm
           \/ \E p \in Builders : RemoveOrphan(p) \/ SwapRename(p)
           \/ Crash
  <1>1. ASSUME NEW p \in Builders, BuilderCall(p) PROVE Calm
    BY <1>1, CalmSame DEF BuilderCall, BeginCreate, BeginAppend, Push,
       CommitRefused, Commit, DropBuilder
  <1>2. ASSUME NEW r \in Readers, ReaderStep(r) PROVE Calm
    BY <1>2, CalmSame DEF ReaderStep, OpenLock, OpenLoad, OpenSegments, CloseReader
  <1>3. ASSUME NEW p \in Builders, Kill(p) PROVE Calm
    BY <1>3, CalmSame DEF Kill
  <1>4. UNCHANGED vars => Calm
    BY CalmSame DEF vars
  <1>5. QED
    BY <1>1, <1>2, <1>3, <1>4, CalmBuilderStep, CalmError DEF Next

\* Only the end of a commit acknowledges, and it acknowledges what is published.
LEMMA AckedStep ==
    ASSUME IInv, [Next]_vars
    PROVE  \/ acked' = acked
           \/ \E p \in Builders : builder[p].call = "tidy" /\ acked' = current
  <1>1. ASSUME NEW p \in Builders, Fail(p)
        PROVE  acked' = acked \/ (builder[p].call = "tidy" /\ acked' = current)
    <2>1. acked' = IF builder[p].call = "tidy" THEN current ELSE acked
      BY <1>1 DEF Fail
    <2>2. QED
      BY <2>1
  <1>2. ASSUME NEW p \in Builders, CleanupSync(p)
        PROVE  acked' = acked \/ (builder[p].call = "tidy" /\ acked' = current)
    <2>1. acked' = IF builder[p].call = "tidy" THEN current ELSE acked
      BY <1>2, CleanupSyncEffect
    <2>2. QED
      BY <2>1
  <1>3. ASSUME NEW p \in Builders, BuilderStep(p), ~ CleanupSync(p)
        PROVE  acked' = acked \/ Fail(p)
    BY <1>3 DEF BuilderStep, Probe, AppendLoad, Walk, List, RemoveOrphan, StageDir,
       StageWrite, StageSync, StageRename, SwapWrite, SwapSync, SwapRename, SwapDir
  <1>4. ASSUME NEW p \in Builders, BuilderCall(p) PROVE acked' = acked
    BY <1>4 DEF BuilderCall, BeginCreate, BeginAppend, Push, CommitRefused,
       Commit, DropBuilder
  <1>5. ASSUME NEW r \in Readers, ReaderStep(r) PROVE acked' = acked
    BY <1>5 DEF ReaderStep, OpenLock, OpenLoad, OpenSegments, CloseReader
  <1>6. ASSUME NEW p \in Builders, FsError(p) \/ Kill(p)
        PROVE  acked' = acked \/ Fail(p)
    BY <1>6 DEF FsError, Kill
  <1>7. Crash \/ UNCHANGED vars => acked' = acked
    BY DEF Crash, vars
  <1>8. QED
    BY <1>1, <1>2, <1>3, <1>4, <1>5, <1>6, <1>7 DEF Next

-----------------------------------------------------------------------------
(* Chains. *)

\* Every hash CURRENT can have is NoHash or names a manifest.
LEMMA CurrentNamed ==
    ASSUME IInv
    PROVE  /\ manifests \in Seq(ManifestRecord)
           /\ DOMAIN manifests = 1 .. Len(manifests) /\ Len(manifests) \in Nat
           /\ \A h \in survivors : h # NoHash => h \in DOMAIN manifests
           /\ current \in survivors /\ current \in 0 .. Len(manifests)
           /\ \A h \in survivors : h \in 0 .. Len(manifests)
  <1>1. manifests \in Seq(ManifestRecord)
    BY DEF IInv, TypeOK
  <1>2. DOMAIN manifests = 1 .. Len(manifests) /\ Len(manifests) \in Nat
    BY <1>1
  <1>3. /\ \A h \in survivors : h # NoHash => h \in DOMAIN manifests
        /\ current \in survivors
    BY DEF IInv, Recoverable, CurrentSound
  <1>4. \A h : h \in DOMAIN manifests \/ h = NoHash => h \in 0 .. Len(manifests)
    BY <1>2, SMT DEF NoHash
  <1>5. QED
    BY <1>1, <1>2, <1>3, <1>4

LEMMA ExtendedGrows ==
    ASSUME IInv, Backward(manifests), Extended
    PROVE  Grows /\ Backward(manifests')
  <1>1. CASE manifests' = manifests
    BY <1>1 DEF Grows, Backward
  <1>2. ASSUME NEW m \in ManifestRecord, m.previous = current,
               manifests' = Append(manifests, m)
        PROVE  Grows /\ Backward(manifests')
    <2>1. /\ manifests \in Seq(ManifestRecord) /\ Len(manifests) \in Nat
          /\ DOMAIN manifests = 1 .. Len(manifests)
          /\ current \in 0 .. Len(manifests)
      BY CurrentNamed
    <2>2. /\ DOMAIN manifests' = 1 .. Len(manifests) + 1
          /\ \A g \in 1 .. Len(manifests) : manifests'[g] = manifests[g]
          /\ manifests'[Len(manifests) + 1] = m
      BY <1>2, <2>1
    <2>3. \A g \in 1 .. Len(manifests) : g \in 1 .. Len(manifests) + 1
      BY <2>1, SMT
    <2>4. Grows
      BY <2>1, <2>2, <2>3 DEF Grows
    <2>5. ASSUME NEW g \in DOMAIN manifests' PROVE manifests'[g].previous < g
      <3>1. CASE g = Len(manifests) + 1
        BY <1>2, <2>1, <2>2, <3>1, SMT
      <3>2. CASE g # Len(manifests) + 1
        <4>1. g \in 1 .. Len(manifests)
          BY <2>1, <2>2, <3>2, SMT
        <4>2. QED
          BY <2>1, <2>2, <4>1 DEF Backward
      <3>3. QED
        BY <3>1, <3>2
    <2>6. QED
      BY <2>4, <2>5 DEF Backward
  <1>3. QED
    BY <1>1, <1>2 DEF Extended

\* No chain and no file of one changes when a manifest is sealed.
LEMMA ChainsKept ==
    ASSUME IInv, IInv', Backward(manifests), Extended
    PROVE  \A h \in 0 .. Len(manifests) :
              Chain(h)' = Chain(h) /\ ChainFiles(h)' = ChainFiles(h)
  <1> SUFFICES ASSUME NEW h \in 0 .. Len(manifests)
               PROVE  Chain(h)' = Chain(h) /\ ChainFiles(h)' = ChainFiles(h)
    OBVIOUS
  <1>1. Grows /\ Backward(manifests')
    BY ExtendedGrows
  <1>2. manifests \in Seq(ManifestRecord) /\ manifests' \in Seq(ManifestRecord)
    BY DEF IInv, TypeOK
  <1>3. ChainOf(manifests', h) = ChainOf(manifests, h)
    BY <1>1, <1>2, ChainStays DEF Grows
  <1>4. Chain(h)' = Chain(h)
    BY <1>3, ChainIsChainOf
  <1>5. \A g \in Chain(h) : FilesOf(g)' = FilesOf(g)
    <2>1. Chain(h) \subseteq DOMAIN manifests
      <3>1. ChainOf(manifests, h) \subseteq 1 .. h
        BY <1>2, ChainMembers
      <3>2. 1 .. h \subseteq DOMAIN manifests
        BY <1>2, SMT
      <3>3. QED
        BY <3>1, <3>2, ChainIsChainOf
    <2>2. QED
      BY <1>1, <2>1, SameFiles
  <1>6. ChainFiles(h)' = ChainFiles(h)
    BY <1>4, <1>5 DEF ChainFiles
  <1>7. QED
    BY <1>4, <1>6

\* A chain unfolded once, with its files.
LEMMA ChainStart ==
    ASSUME IInv, Backward(manifests)
    PROVE  /\ Chain(NoHash) = {} /\ ChainFiles(NoHash) = {}
           /\ \A h \in DOMAIN manifests :
                 /\ manifests[h].previous \in 0 .. h - 1
                 /\ manifests[h].previous \in 0 .. Len(manifests)
                 /\ Chain(h) = {h} \cup Chain(manifests[h].previous)
                 /\ ChainFiles(h) = FilesOf(h) \cup ChainFiles(manifests[h].previous)
  <1>1. manifests \in Seq(ManifestRecord)
    BY DEF IInv, TypeOK
  <1>2. Chain(NoHash) = {}
    BY <1>1, ChainUnfolds, ChainIsChainOf
  <1>3. ASSUME NEW h \in DOMAIN manifests
        PROVE  /\ manifests[h].previous \in 0 .. h - 1
               /\ Chain(h) = {h} \cup Chain(manifests[h].previous)
    BY <1>1, ChainUnfolds, ChainIsChainOf
  <1>4. \A h \in DOMAIN manifests :
           ChainFiles(h) = FilesOf(h) \cup ChainFiles(manifests[h].previous)
    BY <1>3 DEF ChainFiles
  <1>5. \A h \in DOMAIN manifests : \A g \in 0 .. h - 1 : g \in 0 .. Len(manifests)
    BY <1>1, SMT
  <1>6. QED
    BY <1>2, <1>3, <1>4, <1>5 DEF ChainFiles

\* Whatever a crash may leave in CURRENT, its chain is part of CURRENT's.
LEMMA SurvivorChain ==
    ASSUME IInv, Backward(manifests), NEW h \in survivors
    PROVE  Chain(h) \subseteq Chain(current) /\ ChainFiles(h) \subseteq ChainFiles(current)
  BY ChainStart DEF IInv, CurrentSound

\* The files of a chain are final names.
LEMMA ChainFilesFinal ==
    ASSUME IInv, Backward(manifests), NEW h \in 0 .. Len(manifests)
    PROVE  \A n \in ChainFiles(h) : ~ n.tmp
  <1>1. Chain(h) \subseteq DOMAIN manifests
    <2>1. manifests \in Seq(ManifestRecord)
      BY DEF IInv, TypeOK
    <2>2. ChainOf(manifests, h) \subseteq 1 .. h
      BY <2>1, ChainMembers
    <2>3. 1 .. h \subseteq DOMAIN manifests
      BY <2>1, SMT
    <2>4. QED
      BY <2>2, <2>3, ChainIsChainOf
  <1>2. QED
    BY <1>1, PartsFinal DEF ChainFiles, IInv

-----------------------------------------------------------------------------
(* ChainInv: the part about CURRENT. *)

ChainSettled ==
    /\ ChainFiles(current) \subseteq Durable
    /\ acked # NoHash => \A h \in survivors : h # NoHash /\ acked \in Chain(h)

LEMMA CalmChain ==
    ASSUME IInv, IInv', ChainInv, [Next]_vars, Calm
    PROVE  ChainSettled'
  <1>1. Extended /\ Backward(manifests)
    BY ExtendedStep DEF ChainInv
  <1>2. /\ \A h \in survivors : Chain(h)' = Chain(h)
        /\ ChainFiles(current)' = ChainFiles(current)
    <2>1. \A h \in 0 .. Len(manifests) :
             Chain(h)' = Chain(h) /\ ChainFiles(h)' = ChainFiles(h)
      BY <1>1, ChainsKept
    <2>2. /\ \A h \in survivors : h \in 0 .. Len(manifests)
          /\ current \in 0 .. Len(manifests)
      BY CurrentNamed
    <2>3. PICK h \in 0 .. Len(manifests) : current = h /\ current' = h
      BY <2>2 DEF Calm
    <2>4. ChainFiles(h)' = ChainFiles(h)
      BY <2>1
    <2>5. ChainFiles(current)' = ChainFiles(current)
      BY <2>3, <2>4 DEF ChainFiles
    <2>6. QED
      BY <2>1, <2>2, <2>5
  <1>3. ChainFiles(current)' \subseteq Durable'
    <2>1. \A n \in ChainFiles(current) : ~ n.tmp
      BY <1>1, CurrentNamed, ChainFilesFinal
    <2>2. QED
      BY <1>2, <2>1 DEF Calm, StillDurable, ChainInv
  <1>4. survivors' \subseteq survivors
    BY CurrentNamed DEF Calm
  <1>5. CASE acked' = acked
    BY <1>2, <1>3, <1>4, <1>5 DEF ChainSettled, ChainInv
  <1>6. ASSUME NEW p \in Builders, builder[p].call = "tidy", acked' = current
        PROVE  ChainSettled'
    <2>1. survivors = {current} /\ current # NoHash
      BY <1>6 DEF ChainInv, WalkWhole
    <2>2. current \in Chain(current)
      BY <1>1, <2>1, CurrentNamed, ChainStart
    <2>3. QED
      BY <1>2, <1>3, <1>4, <1>6, <2>1, <2>2 DEF ChainSettled
  <1>7. QED
    BY <1>5, <1>6, AckedStep

LEMMA OrphanChain ==
    ASSUME IInv, IInv', ChainInv, NEW p \in Builders, RemoveOrphan(p)
    PROVE  ChainSettled'
  <1> DEFINE c == builder[p]
  <1>1. PICK n \in c.victims : FsRemove(n)
    BY DEF RemoveOrphan
  <1>2. c.pc = "remove" /\ UNCHANGED <<manifests, segments, acked>>
    BY DEF RemoveOrphan, At, tables
  <1>3. n \notin ChainFiles(current)
    BY <1>2 DEF IInv, Sound, KeepSound, ChainInv, WalkWhole
  <1>4. Durable \ {n} \subseteq Durable' /\ UNCHANGED <<current, survivors>>
    BY <1>1 DEF FsRemove, Durable
  <1>5. \A h : Chain(h)' = Chain(h) /\ ChainFiles(h)' = ChainFiles(h)
    BY <1>2 DEF Chain, ChainFiles, FilesOf, PartsOf
  <1>6. ChainFiles(current)' = ChainFiles(current)
    BY <1>4, <1>5 DEF ChainFiles
  <1>7. QED
    BY <1>2, <1>3, <1>4, <1>5, <1>6 DEF ChainInv, ChainSettled

LEMMA PublishChain ==
    ASSUME IInv, IInv', ChainInv, NEW p \in Builders, SwapRename(p)
    PROVE  ChainSettled'
  <1> DEFINE c == builder[p]
             t == c.target.id
  <1>1. /\ c.pc = "swapRename" /\ UNCHANGED <<manifests, segments, acked>>
        /\ FsRenameToCurrent(t)
    BY DEF SwapRename, At, tables
  <1>2. /\ t \in DOMAIN manifests /\ manifests[t].previous = current
        /\ FilesOf(t) \subseteq Durable /\ CurrentTmp \notin unsynced
        /\ survivors = {current}
    BY <1>1 DEF IInv, Sound, SwapSound, DraftSound, Drafting, Swapping
  <1> HIDE DEF t
  <1>3. /\ Chain(t) = {t} \cup Chain(current)
        /\ ChainFiles(t) = FilesOf(t) \cup ChainFiles(current)
    BY <1>2, ChainStart DEF ChainInv
  <1>4. Durable \ {CurrentTmp} \subseteq Durable'
    BY <1>1 DEF FsRenameToCurrent, Durable
  <1>5. CurrentTmp \notin ChainFiles(t)
    <2>1. t \in 0 .. Len(manifests)
      BY <1>2, CurrentNamed, SMT
    <2>2. QED
      BY <2>1, ChainFilesFinal DEF ChainInv, CurrentTmp
  <1>6. current' = t /\ survivors' = {current, t}
    BY <1>1, <1>2 DEF FsRenameToCurrent
  <1>7. \A h : Chain(h)' = Chain(h) /\ FilesOf(h)' = FilesOf(h)
    BY <1>1 DEF Chain, FilesOf, PartsOf
  <1>8. ChainFiles(current)' = ChainFiles(t)
    BY <1>6, <1>7 DEF ChainFiles
  <1>9. ChainFiles(current)' \subseteq Durable'
    BY <1>2, <1>3, <1>4, <1>5, <1>8 DEF ChainInv
  <1>10. t # NoHash
    BY <1>2, NoHashEndsChain DEF IInv
  <1>11. acked' # NoHash => \A h \in survivors' : h # NoHash /\ acked' \in Chain(h)'
    BY <1>1, <1>3, <1>6, <1>7, <1>10, CurrentNamed DEF ChainInv
  <1>12. QED
    BY <1>9, <1>11 DEF ChainSettled

LEMMA CrashChain ==
    ASSUME IInv, IInv', ChainInv, Crash
    PROVE  ChainSettled'
  <1>1. PICK h \in survivors : current' = h /\ survivors' = {h}
    BY DEF Crash
  <1>2. Durable \subseteq Durable' /\ UNCHANGED <<manifests, segments, acked>>
    BY DEF Crash, Durable, tables
  <1>3. \A g : Chain(g)' = Chain(g) /\ FilesOf(g)' = FilesOf(g)
    BY <1>2 DEF Chain, FilesOf, PartsOf
  <1>4. ChainFiles(current)' = ChainFiles(h)
    BY <1>1, <1>3 DEF ChainFiles
  <1>5. ChainFiles(h) \subseteq ChainFiles(current)
    BY SurvivorChain DEF ChainInv
  <1>6. QED
    BY <1>1, <1>2, <1>3, <1>4, <1>5 DEF ChainSettled, ChainInv

-----------------------------------------------------------------------------
(* ChainInv: the part about each builder. *)

LEMMA WalkDropped ==
    /\ NoBuilder.pc = "idle" /\ NoBuilder.keep = {} /\ NoBuilder.call = "none"
    /\ \A p : builder[p] = NoBuilder => WalkWhole(builder[p])
    /\ \A p : builder'[p] = NoBuilder => WalkWhole(builder[p])'
  <1>1. NoBuilder.pc = "idle" /\ NoBuilder.keep = {} /\ NoBuilder.call = "none"
    BY DEF NoBuilder
  <1>2. QED
    BY <1>1 DEF WalkWhole

\* A builder outside cleanup's loop keeps nothing.
LEMMA NotWalking ==
    ASSUME NEW p \in Builders,
           builder'[p].pc \notin {"idle", "walk", "list", "remove"},
           builder'[p].keep = {},
           builder'[p].call = "tidy" => survivors' = {current'} /\ current' # NoHash
    PROVE  WalkWhole(builder[p])'
  BY DEF WalkWhole

LEMMA WalkWholeWalk ==
    ASSUME IInv, IInv', ChainInv, NEW p \in Builders, Walk(p), ~ Fail(p)
    PROVE  WalkWhole(builder[p])'
  <1> DEFINE c == builder[p]
             b == builder'[p]
             q == manifests[c.walk].previous
  <1>1. /\ c.pc = "walk" /\ ~ ChainError(c.walk, c.level) /\ b.call = c.call
        /\ b.keep = c.keep \cup FilesOf(c.walk) /\ b.walk = q
        /\ b.pc = (IF c.level = 1 THEN "list" ELSE "walk")
        /\ UNCHANGED <<manifests, segments, current, survivors>>
    BY WalkEffect DEF disk, tables
  <1>2. /\ c.walk \in DOMAIN manifests
        /\ ChainFiles(current) = c.keep \cup ChainFiles(c.walk)
        /\ c.call = "tidy" => survivors = {current} /\ current # NoHash
    BY <1>1 DEF ChainInv, WalkWhole
  <1>3. (c.level = 1) <=> (q = NoHash)
    BY <1>1 DEF ChainError
  <1> HIDE DEF c, b
  <1>4. /\ q \in 0 .. Len(manifests) /\ ChainFiles(NoHash) = {}
        /\ ChainFiles(c.walk) = FilesOf(c.walk) \cup ChainFiles(q)
    BY <1>2, ChainStart DEF ChainInv
  <1> HIDE DEF q
  <1>5. ChainFiles(current) = b.keep \cup ChainFiles(q)
    BY <1>1, <1>2, <1>4
  <1>0. PICK x : x = q
    OBVIOUS
  <1>6. ChainFiles(current)' = ChainFiles(current) /\ ChainFiles(x)' = ChainFiles(x)
    BY <1>1 DEF ChainFiles, Chain, FilesOf, PartsOf
  <1>7. q # NoHash => q \in DOMAIN manifests
    BY <1>4, CurrentNamed, SMT DEF NoHash
  <1>8. CASE c.level = 1
    <2>1. b.keep = ChainFiles(current)'
      BY <1>3, <1>4, <1>5, <1>6, <1>8
    <2>2. QED
      BY <1>1, <1>2, <1>8, <2>1 DEF WalkWhole, b
  <1>9. CASE c.level # 1
    <2>1. b.walk \in DOMAIN manifests'
      BY <1>1, <1>3, <1>7, <1>9
    <2>2. ChainFiles(current)' = b.keep \cup ChainFiles(x)'
      BY <1>0, <1>5, <1>6
    <2>3. ChainFiles(current)' = b.keep \cup ChainFiles(builder[p].walk)'
      BY <1>0, <1>1, <2>2 DEF ChainFiles, b
    <2>4. QED
      BY <1>1, <1>2, <1>9, <2>1, <2>3 DEF WalkWhole, b
  <1>10. QED
    BY <1>8, <1>9

LEMMA WalkWholeLoad ==
    ASSUME IInv, IInv', ChainInv, NEW p \in Builders, AppendLoad(p)
    PROVE  WalkWhole(builder[p])'
  <1> DEFINE c == builder[p]
             b == builder'[p]
  <1>1. CASE b = NoBuilder
    BY <1>1 DEF WalkWhole, NoBuilder
  <1>2. CASE b # NoBuilder
    <2>1. /\ current \in DOMAIN manifests /\ b.pc = "walk" /\ b.walk = current
          /\ c.pc = "load" /\ b.call = c.call /\ b.keep = c.keep
          /\ UNCHANGED <<manifests, segments, current, survivors>>
      BY <1>2, AppendLoadEffect DEF disk, tables
    <2>2. b.call = "append" /\ b.keep = {}
      BY <2>1 DEF ChainInv, WalkWhole, IInv, Sound, CallSound
    <2> HIDE DEF b, c
    <2>3. ChainFiles(current)' = ChainFiles(builder[p].walk)'
      BY <2>1 DEF ChainFiles, b
    <2>4. QED
      BY <2>1, <2>2, <2>3 DEF WalkWhole, b
  <1>3. QED
    BY <1>1, <1>2

LEMMA WalkWholeCleanup ==
    ASSUME IInv, IInv', ChainInv, NEW p \in Builders,
           Probe(p) \/ List(p) \/ RemoveOrphan(p) \/ CleanupSync(p)
    PROVE  WalkWhole(builder[p])'
  <1> DEFINE c == builder[p]
             b == builder'[p]
  <1>0. WalkWhole(c) /\ Sound(c)
    BY DEF ChainInv, IInv
  <1>1. CASE Probe(p)
    <2>1. /\ c.pc = "probe" /\ UNCHANGED <<manifests, segments, current, survivors>>
          /\ b = NoBuilder \/ (current = NoHash /\ b.pc = "list" /\ b.call = c.call
                                 /\ b.keep = c.keep)
      BY <1>1, ProbeEffect DEF disk, tables
    <2>2. c.call = "create" /\ c.keep = {}
      BY <1>0, <2>1 DEF WalkWhole, Sound, CallSound
    <2>3. current = NoHash => ChainFiles(current)' = {}
      <3>1. current = NoHash => ChainFiles(current) = {}
        BY ChainStart DEF ChainInv
      <3>2. ChainFiles(current)' = ChainFiles(current)
        BY <2>1 DEF ChainFiles, Chain, FilesOf, PartsOf
      <3>3. QED
        BY <3>1, <3>2
    <2> HIDE DEF b, c
    <2>4. QED
      BY <2>1, <2>2, <2>3, WalkDropped DEF WalkWhole, b, NoBuilder
  <1>2. CASE List(p) \/ RemoveOrphan(p)
    <2>1. /\ c.pc \in {"list", "remove"} /\ b.pc = "remove" /\ b.call = c.call
          /\ b.keep = c.keep /\ UNCHANGED <<manifests, segments, current, survivors>>
      <3>1. CASE List(p)
        BY <3>1, ListEffect DEF disk, tables
      <3>2. CASE RemoveOrphan(p)
        BY <3>2, RemoveOrphanEffect DEF FsRemove, tables
      <3>3. QED
        BY <1>2, <3>1, <3>2
    <2>2. ChainFiles(current)' = ChainFiles(current)
      BY <2>1 DEF ChainFiles, Chain, FilesOf, PartsOf
    <2> HIDE DEF b, c
    <2>3. QED
      BY <1>0, <2>1, <2>2 DEF WalkWhole, b
  <1>3. CASE CleanupSync(p)
    <2>1. \/ b = NoBuilder
          \/ b.pc \in {"stageWrite", "ready"} /\ b.keep = {} /\ b.call \in {"create", "none"}
      BY <1>3, CleanupSyncEffect
    <2>2. QED
      BY <2>1, NotWalking DEF WalkWhole, NoBuilder
  <1>4. QED
    BY <1>1, <1>2, <1>3

LEMMA WalkWholeStage ==
    ASSUME IInv, IInv', ChainInv, NEW p \in Builders,
           \/ StageWrite(p) \/ StageSync(p) \/ StageRename(p) \/ StageDir(p)
           \/ SwapWrite(p) \/ SwapSync(p) \/ SwapRename(p) \/ SwapDir(p)
    PROVE  WalkWhole(builder[p])'
  <1> DEFINE c == builder[p]
             b == builder'[p]
  <1>1. /\ c.pc \in Staging \cup Swapping \cup {"swapDir"}
        /\ WalkWhole(c) /\ Sound(c) /\ c \in BuilderRecord
    BY DEF StageWrite, StageSync, StageRename, StageDir, SwapWrite, SwapSync,
       SwapRename, SwapDir, At, Staging, Swapping, ChainInv, IInv, TypeOK
  <1>2. c.keep = {} /\ c.call # "tidy"
    BY <1>1 DEF WalkWhole, Sound, StageSound, SwapSound, Staging, Swapping
  <1>3. ASSUME NEW step \in Staging \cup Swapping \cup {"swapDir"}, Goto(p, step)
        PROVE  WalkWhole(builder[p])'
    <2>1. b.pc = step /\ b.call = c.call /\ b.keep = c.keep
      BY <1>3, GotoEffect
    <2>2. b.pc \notin {"idle", "walk", "list", "remove"}
      BY <1>3, <2>1 DEF Staging, Swapping
    <2>3. QED
      BY <1>2, <2>1, <2>2, NotWalking
  <1>4. CASE StageWrite(p) \/ StageSync(p) \/ StageRename(p) \/ SwapSync(p) \/ SwapRename(p)
    BY <1>3, <1>4 DEF StageWrite, StageSync, StageRename, SwapSync, SwapRename,
       Staging, Swapping
  <1>5. CASE SwapWrite(p)
    <2>1. b = NoBuilder \/ Goto(p, "swapSync")
      BY <1>5 DEF SwapWrite, Become, IInv, TypeOK
    <2>2. QED
      BY <1>3, <2>1, WalkDropped DEF Swapping
  <1>6. ASSUME NEW d \in BuilderRecord, SealManifest(p, d), d.keep = {}
        PROVE  WalkWhole(builder[p])'
    <2>1. b = NoBuilder \/ (b.pc = "stageWrite" /\ b.call = "commit" /\ b.keep = {})
      BY <1>6, SealEffect
    <2>2. QED
      BY <2>1, NotWalking DEF WalkWhole, NoBuilder
  <1>7. CASE StageDir(p)
    <2>1. \/ b.pc \in {"ready", "stageWrite", "swapWrite"} /\ b.keep = c.keep
             /\ b.call \in {"none", c.call}
          \/ c.target.kind = "residual" /\ SealManifest(p, Recorded(c))
      BY <1>7, StageDirEffect
    <2>2. c.target.kind = "residual" /\ SealManifest(p, Recorded(c)) =>
             WalkWhole(builder[p])'
      <3>1. Recorded(c) \in BuilderRecord /\ Recorded(c).keep = {}
        BY <1>1, <1>2, RecordedType, RecordedFields DEF Sound, RowsSound, Staging, Swapping
      <3>2. QED
        BY <1>6, <3>1
    <2>3. QED
      BY <1>2, <2>1, <2>2, NotWalking
  <1>8. CASE SwapDir(p)
    <2>1. /\ b.pc = "walk" /\ b.call = "tidy" /\ b.walk = c.target.id /\ b.keep = c.keep
          /\ c.pc = "swapDir" /\ FsSyncDir
          /\ UNCHANGED <<manifests, segments, acked, mishaps>>
      BY <1>8, SwapDirEffect DEF tables
    <2>2. current = c.target.id /\ current \in DOMAIN manifests /\ current # NoHash
      BY <1>1, <2>1, NoHashEndsChain DEF Sound, SwapSound, IInv
    <2>3. current' = current /\ survivors' = {current}
      BY <2>1, SyncDirDisk DEF IInv, TypeOK
    <2> HIDE DEF b, c
    <2>4. ChainFiles(current)' = ChainFiles(builder[p].walk)'
      BY <2>1, <2>2, <2>3 DEF ChainFiles, b
    <2>5. QED
      BY <1>2, <2>1, <2>2, <2>3, <2>4 DEF WalkWhole, b
  <1>9. QED
    BY <1>4, <1>5, <1>7, <1>8

LEMMA WalkWholeCall ==
    ASSUME IInv, IInv', ChainInv, NEW p \in Builders,
           BuilderCall(p) \/ Kill(p) \/ Fail(p)
    PROVE  WalkWhole(builder[p])'
  <1> DEFINE c == builder[p]
             b == builder'[p]
  <1>1. WalkWhole(c) /\ Sound(c) /\ c \in BuilderRecord
    BY DEF ChainInv, IInv, TypeOK
  <1>2. CASE CommitRefused(p) \/ DropBuilder(p) \/ Kill(p)
    BY <1>2, DropEffect, WalkDropped
  <1>3. CASE (\E m \in Models : BeginCreate(p, m)) \/ BeginAppend(p)
    BY <1>3, BeginEffect, NotWalking DEF Blank
  <1>4. CASE c.pc = "ready"
    <2>1. c.keep = {} /\ c.call = "none"
      BY <1>1, <1>4 DEF WalkWhole, Sound, CallSound
    <2>2. CASE \E v \in Vectors : Push(p, v)
      <3>1. b.pc \in {"ready", "stageWrite"} /\ b.keep = {} /\ b.call \in {"none", "push"}
        BY <2>1, <2>2, PushEffect
      <3>2. QED
        BY <3>1, NotWalking
    <2>3. CASE Commit(p)
      <3>1. \/ b = NoBuilder
            \/ b.pc = "stageWrite" /\ b.keep = {} /\ b.call = "commit"
        BY <1>1, <2>1, <2>3, CommitEffect, SealEffect
      <3>2. QED
        BY <3>1, NotWalking DEF WalkWhole, NoBuilder
    <2>4. CASE CommitRefused(p) \/ DropBuilder(p) \/ Kill(p)
      BY <1>2, <2>4
    <2>5. CASE Fail(p)
      <3>1. b = NoBuilder
        BY <2>1, <2>5, FailEffect
      <3>2. QED
        BY <3>1 DEF WalkWhole, NoBuilder
    <2>6. QED
      BY <1>3, <2>2, <2>3, <2>4, <2>5 DEF BuilderCall
  <1>5. CASE Fail(p)
    <2>1. CASE b = NoBuilder
      BY <2>1 DEF WalkWhole, NoBuilder
    <2>2. CASE b # NoBuilder
      <3>1. c.call = "push" /\ b.pc = "ready" /\ b.call = "none" /\ b.keep = c.keep
        BY <1>5, <2>2, FailEffect
      <3>2. c.keep = {}
        <4>1. c.pc # "idle"
          BY <1>1, <3>1 DEF WalkWhole, NoBuilder
        <4>2. QED
          BY <1>1, <3>1, <4>1 DEF WalkWhole, Sound, CallSound, Staging
      <3>3. QED
        BY <3>1, <3>2, NotWalking
    <2>3. QED
      BY <2>1, <2>2
  <1>6. CASE (\E v \in Vectors : Push(p, v)) \/ Commit(p)
    BY <1>4, <1>6 DEF Push, Commit, At, BuilderCall
  <1>7. QED
    BY <1>2, <1>3, <1>5, <1>6 DEF BuilderCall

\* A builder's step is its own.
LEMMA OneBuilderMoves ==
    ASSUME IInv, NEW p \in Builders,
           BuilderStep(p) \/ BuilderCall(p) \/ FsError(p) \/ Kill(p)
    PROVE  /\ At(p, "idle") => CanLockExclusive
           /\ \A q \in Builders \ {p} : builder'[q] = builder[q]
  <1>1. ASSUME NEW x, builder' = [builder EXCEPT ![p] = x]
        PROVE  \A q \in Builders \ {p} : builder'[q] = builder[q]
    BY <1>1 DEF IInv, TypeOK
  <1>2. ASSUME NEW step, Goto(p, step)
        PROVE  \A q \in Builders \ {p} : builder'[q] = builder[q]
    BY <1>2 DEF IInv, TypeOK, Goto
  <1>3. \A c : SealManifest(p, c) =>
           \A q \in Builders \ {p} : builder'[q] = builder[q]
    BY <1>1 DEF SealManifest, Become
  <1>4. StageDir(p) => \A q \in Builders \ {p} : builder'[q] = builder[q]
    BY <1>1, <1>3 DEF StageDir, Staged, Become
  <1>5. BuilderStep(p) => \A q \in Builders \ {p} : builder'[q] = builder[q]
    BY <1>1, <1>2, <1>4 DEF BuilderStep, Probe, AppendLoad, Walk, Fail, List,
       RemoveOrphan, CleanupSync, StageWrite, StageSync, StageRename, SwapWrite,
       SwapSync, SwapRename, SwapDir, Become
  <1>6. BuilderCall(p) => \A q \in Builders \ {p} : builder'[q] = builder[q]
    BY <1>1, <1>3 DEF BuilderCall, BeginCreate, BeginAppend, Push, CommitRefused,
       Commit, DropBuilder, Become
  <1>7. FsError(p) \/ Kill(p) => \A q \in Builders \ {p} : builder'[q] = builder[q]
    BY <1>1 DEF FsError, Kill, Fail, Become
  <1>8. At(p, "idle") => CanLockExclusive
    BY DEF BuilderStep, Probe, AppendLoad, Walk, List, RemoveOrphan, CleanupSync,
       StageWrite, StageSync, StageRename, StageDir, SwapWrite, SwapSync,
       SwapRename, SwapDir, BuilderCall, BeginCreate, BeginAppend, Push,
       CommitRefused, Commit, DropBuilder, FsError, Kill, At
  <1>9. QED
    BY <1>5, <1>6, <1>7, <1>8

\* So every step is one builder's, while the others have none of the locks,
\* or a reader's, or a crash.
LEMMA WhoMoves ==
    ASSUME IInv, ChainInv, [Next]_vars
    PROVE  \/ \E p \in Builders :
                 /\ BuilderStep(p) \/ BuilderCall(p) \/ FsError(p) \/ Kill(p)
                 /\ \A q \in Builders \ {p} : builder'[q] = NoBuilder
           \/ UNCHANGED <<disk, tables, builder, acked, mishaps>>
           \/ /\ Crash /\ UNCHANGED <<tables, acked>> /\ mishaps' # mishaps
              /\ \A p \in Builders : builder'[p] = NoBuilder
  <1>1. ASSUME NEW p \in Builders,
               BuilderStep(p) \/ BuilderCall(p) \/ FsError(p) \/ Kill(p)
        PROVE  \A q \in Builders \ {p} : builder'[q] = NoBuilder
    <2>1. \A q \in Builders \ {p} : builder'[q] = builder[q] /\ builder[q].pc = "idle"
      BY <1>1, OneBuilderMoves, OthersIdle
    <2>2. QED
      BY <2>1 DEF ChainInv, WalkWhole
  <1>2. ASSUME NEW r \in Readers, ReaderStep(r)
        PROVE  UNCHANGED <<disk, tables, builder, acked, mishaps>>
    BY <1>2 DEF ReaderStep, OpenLock, OpenLoad, OpenSegments, CloseReader
  <1>3. UNCHANGED vars => UNCHANGED <<disk, tables, builder, acked, mishaps>>
    BY DEF vars
  <1>4. Crash => /\ UNCHANGED <<tables, acked>> /\ mishaps' # mishaps
                 /\ \A p \in Builders : builder'[p] = NoBuilder
    BY DEF Crash, Mishap, IInv, TypeOK
  <1>5. QED
    BY <1>1, <1>2, <1>3, <1>4 DEF Next

LEMMA ChainInvInit == Init => ChainInv
  <1> SUFFICES ASSUME Init PROVE ChainInv
    OBVIOUS
  <1>1. Backward(manifests)
    BY DEF Init, Backward
  <1>2. ChainFiles(current) = {}
    BY <1>1, IInvInit, ChainStart DEF Init
  <1>3. \A p \in Builders : WalkWhole(builder[p])
    BY WalkDropped DEF Init
  <1>4. QED
    BY <1>1, <1>2, <1>3 DEF ChainInv, Init

LEMMA ChainInvStep == IInv /\ IInv' /\ ChainInv /\ [Next]_vars => ChainInv'
  <1> SUFFICES ASSUME IInv, IInv', ChainInv, [Next]_vars PROVE ChainInv'
    OBVIOUS
  <1>1. Backward(manifests')
    BY ExtendedStep, ExtendedGrows DEF ChainInv
  <1>2. ChainSettled'
    BY CalmSteps, CalmChain, OrphanChain, PublishChain, CrashChain
  <1>3. \A p \in Builders : WalkWhole(builder[p])'
    <2>1. ASSUME NEW p \in Builders,
                 BuilderStep(p) \/ BuilderCall(p) \/ FsError(p) \/ Kill(p)
          PROVE  WalkWhole(builder[p])'
      <3>1. CASE BuilderStep(p)
        BY <3>1, WalkWholeWalk, WalkWholeLoad, WalkWholeCleanup, WalkWholeStage,
           WalkWholeCall DEF BuilderStep
      <3>2. QED
        BY <2>1, <3>1, WalkWholeCall DEF FsError
    <2>2. CASE UNCHANGED <<disk, tables, builder, acked, mishaps>>
      <3>1. ChainFiles(current)' = ChainFiles(current)
        BY <2>2 DEF ChainFiles, Chain, FilesOf, PartsOf, disk, tables
      <3>2. \A p \in Builders : ChainFiles(builder[p].walk)' = ChainFiles(builder[p].walk)
        BY <2>2 DEF ChainFiles, Chain, FilesOf, PartsOf, disk, tables
      <3>3. QED
        BY <2>2, <3>1, <3>2 DEF ChainInv, WalkWhole, disk, tables
    <2>3. QED
      BY <2>1, <2>2, WhoMoves, WalkDropped
  <1>4. QED
    BY <1>1, <1>2, <1>3 DEF ChainInv, ChainSettled

LEMMA ChainInductive == Spec => [](IInv /\ ChainInv)
  <1>1. Init => IInv /\ ChainInv
    BY IInvInit, ChainInvInit
  <1>2. (IInv /\ ChainInv) /\ [Next]_vars => (IInv /\ ChainInv)'
    BY IInvStep, ChainInvStep
  <1>3. QED
    BY <1>1, <1>2, PTL DEF Spec

\* Cleanup keeps every committed predecessor: at any moment, the files of the
\* whole chain of whatever a crash may leave in CURRENT are whole and settled.
THEOREM PredecessorsKept == Spec => []ChainKept
  <1>1. IInv /\ ChainInv => ChainKept
    <2> SUFFICES ASSUME IInv, ChainInv, NEW h \in survivors, NEW g \in Chain(h)
                 PROVE  FilesOf(g) \subseteq sure \ (torn \cup unsynced)
      BY DEF ChainKept
    <2>1. FilesOf(g) \subseteq ChainFiles(h)
      BY DEF ChainFiles
    <2>2. ChainFiles(h) \subseteq Durable
      BY SurvivorChain DEF ChainInv
    <2>3. QED
      BY <2>1, <2>2 DEF Durable
  <1>2. QED
    BY <1>1, ChainInductive, PTL

\* Once commit has returned Ok, no number of failures, kills and crashes takes
\* its generation back: CURRENT stays that manifest or one built on it.
THEOREM CommitsAreDurable == Spec => []AckedSurvives
  <1>1. ChainInv => AckedSurvives
    BY DEF ChainInv, AckedSurvives
  <1>2. QED
    BY <1>1, ChainInductive, PTL

-----------------------------------------------------------------------------
(* CleanInv. *)

LEMMA CleanDropped == \A p : builder'[p] = NoBuilder => DirectoryClean(builder[p])'
  BY WalkDropped DEF DirectoryClean, Drafting, Staging, Swapping

\* A builder outside stage and ready has nothing to say of the directory.
LEMMA CleanQuiet ==
    ASSUME NEW p \in Builders, builder'[p].call # "push",
           builder'[p].pc \in {"idle", "probe", "load", "walk", "list", "swapSync",
                               "swapRename", "swapDir"}
    PROVE  DirectoryClean(builder[p])'
  BY DEF DirectoryClean, Drafting, Staging, Swapping

\* The name CURRENT.tmp is no other file's.
LEMMA TmpNames ==
    \A n : /\ n.kind # "CURRENT" => Tmp(n) # CurrentTmp /\ n # CurrentTmp
           /\ n \in Names => Tmp(n) # CurrentTmp \/ n.kind = "CURRENT"
           /\ n \in Names /\ ~ n.tmp => n # CurrentTmp /\ Tmp(n) # n
  BY DEF CurrentTmp, Tmp, Names

LEMMA CleanCleanup ==
    ASSUME IInv, IInv', ChainInv, CleanInv, NEW p \in Builders,
           Probe(p) \/ List(p) \/ RemoveOrphan(p)
    PROVE  DirectoryClean(builder[p])'
  <1> DEFINE c == builder[p]
             b == builder'[p]
  <1>1. Sound(c) /\ DirectoryClean(c)
    BY DEF IInv, CleanInv
  <1>2. CASE Probe(p)
    <2>1. c.pc = "probe" /\ (b = NoBuilder \/ (b.pc = "list" /\ b.call = c.call))
      BY <1>2, ProbeEffect
    <2>2. QED
      BY <1>1, <2>1, CleanQuiet, CleanDropped DEF Sound, CallSound
  <1>3. CASE List(p)
    <2>1. /\ b.pc = "remove" /\ b.call = c.call /\ c.pc = "list"
          /\ b.keep = c.keep /\ b.victims = live \ c.keep /\ live' = live
      BY <1>3, ListEffect DEF disk
    <2>2. QED
      BY <1>1, <2>1 DEF DirectoryClean, Drafting, Staging, Swapping, Sound, CallSound
  <1>4. CASE RemoveOrphan(p)
    <2>1. PICK n \in c.victims : FsRemove(n) /\ b.victims = c.victims \ {n}
      BY <1>4, RemoveOrphanEffect
    <2>2. c.pc = "remove" /\ b.pc = "remove" /\ b.call = c.call /\ b.keep = c.keep
      BY <1>4, RemoveOrphanEffect
    <2>3. live' \subseteq b.keep \cup b.victims
      BY <1>1, <2>1, <2>2 DEF DirectoryClean, FsRemove
    <2>4. QED
      BY <1>1, <2>2, <2>3 DEF DirectoryClean, Drafting, Staging, Swapping, Sound,
         CallSound
  <1>5. QED
    BY <1>2, <1>3, <1>4

\* Once cleanup is through, the directory holds the published chain and no more.
LEMMA CleanCleanedUp ==
    ASSUME IInv, IInv', ChainInv, CleanInv, NEW p \in Builders, CleanupSync(p)
    PROVE  DirectoryClean(builder[p])'
  <1> DEFINE c == builder[p]
             b == builder'[p]
  <1>1. Sound(c) /\ DirectoryClean(c) /\ WalkWhole(c) /\ c.pc = "remove" /\ c.victims = {}
    BY CleanupSyncEffect DEF IInv, CleanInv, ChainInv
  <1>2. UNCHANGED <<live, current, manifests, segments>>
    BY CleanupSyncEffect DEF FsSyncDir, tables
  <1>3. live = ChainFiles(current)
    <2>1. live \subseteq ChainFiles(current)
      BY <1>1 DEF DirectoryClean, WalkWhole
    <2>2. ChainFiles(current) \subseteq live
      BY DEF ChainInv, Durable, IInv
    <2>3. QED
      BY <2>1, <2>2
  <1>4. ChainFiles(current)' = ChainFiles(current)
    BY <1>2 DEF ChainFiles, Chain, FilesOf, PartsOf
  <1> HIDE DEF b, c
  <1>5. CASE b.pc = "stageWrite"
    <2>1. b.call = "create" /\ c.call = "create" /\ b.target = File("model", c.draft.model)
      <3>1. builder'[p] # NoBuilder
        BY <1>5, WalkDropped DEF b
      <3>2. QED
        BY <1>5, <3>1, CleanupSyncEffect DEF b, c
    <2>2. current = NoHash
      BY <1>1, <2>1 DEF Sound, CallSound
    <2>3. live = {}
      BY <1>3, <2>2, ChainStart DEF ChainInv
    <2>4. b.target.kind = "model"
      BY <2>1 DEF File
    <2>5. QED
      BY <1>2, <1>5, <2>1, <2>3, <2>4 DEF DirectoryClean, Drafting, Staging, Swapping, b
  <1>6. CASE b.pc = "ready"
    <2>1. b.call = "none" /\ c.call = "append" /\ b.draft = Successor(c.draft)
      <3>1. builder'[p] # NoBuilder
        BY <1>6, WalkDropped DEF b
      <3>2. QED
        BY <1>6, <3>1, CleanupSyncEffect DEF b, c
    <2>2. current \in DOMAIN manifests /\ c.draft = manifests[current]
      BY <1>1, <2>1 DEF Sound, CallSound
    <2>3. b.draft.model = manifests[current].model
      <3>1. manifests[current] \in ManifestRecord
        BY <2>2, CurrentNamed
      <3>2. QED
        BY <2>1, <2>2, <3>1 DEF Successor, ManifestRecord
    <2>4. File("model", b.draft.model) \in ChainFiles(current)
      <3>1. File("model", b.draft.model) \in FilesOf(current)
        BY <2>3 DEF FilesOf, PartsOf
      <3>2. QED
        BY <2>2, <3>1, ChainStart DEF ChainInv
    <2>5. CurrentTmp \notin live
      BY <1>3, CurrentNamed, ChainFilesFinal DEF ChainInv, CurrentTmp
    <2>6. live' = {File("model", b.draft.model)} \cup ChainFiles(current)'
      BY <1>2, <1>3, <1>4, <2>4
    <2>7. QED
      BY <1>2, <1>6, <2>1, <2>5, <2>6 DEF DirectoryClean, Drafting, Staging, Swapping, b
  <1>7. CASE builder'[p] = NoBuilder
    BY <1>7, CleanDropped
  <1>8. QED
    BY <1>5, <1>6, <1>7, CleanupSyncEffect DEF b

\* Staging a file adds it and no other.
LEMMA CleanStage ==
    ASSUME IInv, IInv', ChainInv, CleanInv, NEW p \in Builders,
           StageWrite(p) \/ StageSync(p) \/ StageRename(p)
    PROVE  DirectoryClean(builder[p])'
  <1> DEFINE c == builder[p]
             b == builder'[p]
             t == c.target
  <1>1. /\ Sound(c) /\ DirectoryClean(c) /\ c.pc \in Staging /\ t \in Names
    BY DEF IInv, TypeOK, BuilderRecord, CleanInv, StageWrite, StageSync, StageRename, At,
       Staging
  <1>2. b.call = c.call /\ b.target = t /\ b.added = c.added /\ b.pc \in Staging
    BY GotoEffect DEF StageWrite, StageSync, StageRename, SameDraft, Staging
  <1>3. /\ t = File(t.kind, t.id) /\ t.kind # "CURRENT" /\ ~ t.tmp
    <2>1. StageSound(c)
      BY <1>1 DEF Sound, Staging
    <2>2. t = File(t.kind, t.id) /\ t.kind \in {"model", "primary", "residual", "manifest"}
      BY <1>1, <2>1 DEF StageSound
    <2>3. \A k, i : ~ File(k, i).tmp
      BY DEF File
    <2>4. QED
      BY <2>2, <2>3
  <1>4. \/ /\ c.pc = "stageWrite" /\ b.pc = "stageSync" /\ live' = live \cup {Tmp(t)}
        \/ /\ c.pc = "stageSync" /\ b.pc = "stageRename" /\ live' = live
        \/ /\ c.pc = "stageRename" /\ b.pc = "stageDir"
           /\ live' = (live \ {Tmp(t)}) \cup {t}
    <2>1. \A step : Goto(p, step) => b.pc = step
      BY GotoEffect
    <2>2. QED
      BY <2>1 DEF StageWrite, StageSync, StageRename, At, FsWrite, FsSync, FsRename
  <1> HIDE DEF b, c, t
  <1>5. Tmp(t) # CurrentTmp /\ t # CurrentTmp /\ Tmp(t) # t
    BY <1>1, <1>3, TmpNames DEF t
  <1>6. CASE t.kind = "model"
    <2>1. live = CASE c.pc = "stageWrite" -> {}
                   [] c.pc = "stageDir"   -> {t}
                   [] OTHER               -> {Tmp(t)}
      BY <1>1, <1>6 DEF DirectoryClean, t
    <2>2. live' = CASE b.pc = "stageWrite" -> {}
                    [] b.pc = "stageDir"   -> {t}
                    [] OTHER               -> {Tmp(t)}
      BY <1>4, <1>5, <2>1
    <2>3. QED
      BY <1>1, <1>2, <1>6, <2>2 DEF DirectoryClean, Drafting, Staging, Swapping, b
  <1>7. CASE t.kind # "model"
    <2>1. CurrentTmp \notin live
      BY <1>1, <1>7 DEF DirectoryClean, Drafting, Staging, t
    <2>2. CurrentTmp \notin live'
      BY <1>4, <1>5, <2>1
    <2>3. QED
      BY <1>1, <1>2, <1>7, <2>2 DEF DirectoryClean, Drafting, Staging, Swapping, b
  <1>8. QED
    BY <1>6, <1>7

\* A builder that has its rows, or has yet to stage any, with a directory in
\* which no CURRENT.tmp is.
LEMMA CleanDraft ==
    ASSUME NEW p \in Builders, CurrentTmp \notin live',
           builder'[p].call = "push" => builder'[p].added > 0,
           builder'[p].pc \in {"ready", "stageWrite", "swapWrite"},
           builder'[p].pc = "stageWrite" => builder'[p].target.kind # "model",
           builder'[p].pc = "ready" => builder'[p].added # 0
    PROVE  DirectoryClean(builder[p])'
  BY DEF DirectoryClean, Staging

LEMMA CleanStaged ==
    ASSUME IInv, IInv', ChainInv, CleanInv, NEW p \in Builders, StageDir(p)
    PROVE  DirectoryClean(builder[p])'
  <1> DEFINE c == builder[p]
             b == builder'[p]
  <1>1. /\ Sound(c) /\ DirectoryClean(c) /\ c.pc = "stageDir" /\ c \in BuilderRecord
        /\ live' = live /\ current' = current
    BY StageDirEffect DEF IInv, TypeOK, CleanInv, FsSyncDir
  <1>2. c.target.kind # "model" => CurrentTmp \notin live'
    BY <1>1 DEF DirectoryClean, Drafting, Staging
  <1>3. CASE c.target.kind = "model"
    <2>1. /\ UNCHANGED <<manifests, segments>> /\ b.pc = "ready" /\ b.call = "none"
          /\ b.draft = [c.draft EXCEPT !.generation = 1]
      BY <1>3, StageDirEffect
    <2>2. b.draft.model = c.draft.model
      BY <1>1, <2>1 DEF BuilderRecord, ManifestRecord
    <2>3. /\ c.target = File("model", c.draft.model) /\ c.call = "create"
          /\ current = NoHash
      BY <1>1, <1>3 DEF Sound, StageSound, CallSound, Staging
    <2>4. live = {c.target}
      BY <1>1, <1>3 DEF DirectoryClean, Staging
    <2>5. ChainFiles(current)' = {}
      <3>1. ChainFiles(current) = {}
        BY <2>3, ChainStart DEF ChainInv
      <3>2. ChainFiles(current)' = ChainFiles(current)
        BY <1>1, <2>1 DEF ChainFiles, Chain, FilesOf, PartsOf
      <3>3. QED
        BY <3>1, <3>2
    <2>6. live' = {File("model", b.draft.model)} \cup ChainFiles(current)'
      BY <1>1, <2>2, <2>3, <2>4, <2>5
    <2>7. CurrentTmp \notin live'
      BY <1>1, <2>3, <2>4 DEF File, CurrentTmp
    <2> HIDE DEF b, c
    <2>8. QED
      BY <2>1, <2>6, <2>7 DEF DirectoryClean, Staging, Swapping, b
  <1>4. CASE c.target.kind = "residual" /\ SealManifest(p, Recorded(c))
    <2>1. Recorded(c) \in BuilderRecord
      BY <1>1, RecordedType DEF Sound, RowsSound
    <2>2. \/ builder'[p] = NoBuilder
          \/ /\ b.pc = "stageWrite" /\ b.call = "commit"
             /\ b.target = File("manifest", Len(manifests) + 1)
      BY <1>4, <2>1, SealEffect
    <2>3. QED
      BY <1>2, <1>4, <2>2, CleanDropped, CleanDraft DEF File
  <1>5. CASE \/ c.target.kind = "primary"
             \/ c.target.kind = "residual" /\ c.call = "push"
             \/ c.target.kind = "manifest"
    <2>1. /\ b.pc \in {"ready", "stageWrite", "swapWrite"} /\ b.added = c.added
          /\ b.pc = "ready" => c.call = "push"
          /\ b.call \in {"none", c.call}
          /\ b.pc = "stageWrite" => b.target = File("residual", c.target.id)
      <3> HIDE DEF b, c
      <3>1. CASE c.target.kind = "primary"
        BY <3>1, StageDirEffect DEF SameDraft, b, c
      <3>2. CASE c.target.kind = "residual" /\ c.call = "push"
        BY <3>2, StageDirEffect DEF b, c
      <3>3. CASE c.target.kind = "manifest"
        BY <3>3, StageDirEffect DEF SameDraft, b, c
      <3>4. QED
        BY <1>5, <3>1, <3>2, <3>3
    <2>2. c.call = "push" => c.added > 0
      BY <1>1 DEF DirectoryClean
    <2>3. c.added \in Nat
      BY <1>1 DEF BuilderRecord
    <2> HIDE DEF b, c
    <2>4. QED
      BY <1>2, <1>5, <2>1, <2>2, <2>3, CleanDraft DEF File, b
  <1>6. QED
    BY <1>3, <1>4, <1>5, StageDirEffect

LEMMA CleanCall ==
    ASSUME IInv, IInv', ChainInv, CleanInv, NEW p \in Builders, BuilderCall(p) \/ Kill(p)
    PROVE  DirectoryClean(builder[p])'
  <1> DEFINE c == builder[p]
             b == builder'[p]
  <1>1. Sound(c) /\ DirectoryClean(c) /\ c \in BuilderRecord
    BY DEF IInv, TypeOK, CleanInv
  <1>2. CASE CommitRefused(p) \/ DropBuilder(p) \/ Kill(p)
    BY <1>2, DropEffect, CleanDropped
  <1>3. CASE (\E m \in Models : BeginCreate(p, m)) \/ BeginAppend(p)
    BY <1>3, BeginEffect, CleanQuiet
  <1>4. CASE \E v \in Vectors : Push(p, v)
    <2>1. /\ c.pc = "ready" /\ live' = live /\ b.added = c.added + 1
          /\ b.pc \in {"ready", "stageWrite"}
          /\ b.pc = "stageWrite" => b.target = File("primary", Len(segments) + 1)
      BY <1>4, PushEffect DEF disk
    <2>2. CurrentTmp \notin live /\ c.added \in Nat
      BY <1>1, <2>1 DEF DirectoryClean, Drafting, BuilderRecord
    <2>3. b.added > 0
      BY <2>1, <2>2
    <2> HIDE DEF b, c
    <2>4. QED
      BY <2>1, <2>2, <2>3, CleanDraft DEF File, b
  <1>5. CASE Commit(p)
    <2>1. c.pc = "ready" /\ live' = live
      BY <1>5, CommitEffect DEF disk
    <2>2. CurrentTmp \notin live'
      BY <1>1, <2>1 DEF DirectoryClean, Drafting
    <2>3. \/ builder'[p] = NoBuilder
          \/ /\ b.pc = "stageWrite" /\ b.call = "commit"
             /\ b.target \in {File("primary", Len(segments) + 1),
                              File("manifest", Len(manifests) + 1)}
      BY <1>1, <1>5, CommitEffect, SealEffect
    <2>4. QED
      BY <2>2, <2>3, CleanDropped, CleanDraft DEF File
  <1>6. QED
    BY <1>2, <1>3, <1>4, <1>5 DEF BuilderCall

\* A failed push leaves the builder, poisoned, with rows it has taken.
LEMMA CleanFail ==
    ASSUME IInv, IInv', ChainInv, CleanInv, NEW p \in Builders, Fail(p),
           UNCHANGED disk \/ FsTear(Tmp(builder[p].target)) \/ builder[p].pc = "swapWrite"
    PROVE  DirectoryClean(builder[p])'
  <1> DEFINE c == builder[p]
             b == builder'[p]
  <1>1. Sound(c) /\ DirectoryClean(c) /\ c \in BuilderRecord
    BY DEF IInv, TypeOK, CleanInv
  <1>2. CASE c.call # "push"
    BY <1>2, FailEffect, CleanDropped
  <1>3. CASE c.call = "push"
    <2>1. b = NoBuilder \/ (b.pc = "ready" /\ b.call = "none" /\ b.added = c.added)
      BY FailEffect
    <2>2. c.pc \notin {"idle", "swapWrite"} /\ c.added > 0
      <3>1. c.added > 0
        BY <1>1, <1>3 DEF DirectoryClean
      <3>2. c # NoBuilder
        BY <1>3, WalkDropped
      <3>3. c.pc # "idle"
        BY <3>2 DEF ChainInv, WalkWhole
      <3>4. QED
        BY <1>1, <1>3, <3>1, <3>3 DEF Sound, CallSound, Staging
    <2>3. c.pc \in Staging /\ c.target.kind # "model" /\ c.target.kind # "CURRENT"
      BY <1>1, <1>3, <2>2 DEF Sound, CallSound, StageSound
    <2>4. CurrentTmp \notin live
      BY <1>1, <2>3 DEF DirectoryClean, Drafting, Staging
    <2>5. CurrentTmp \notin live'
      <3>1. Tmp(c.target) # CurrentTmp
        BY <1>1, <2>3, TmpNames DEF BuilderRecord
      <3>2. QED
        BY <2>2, <2>4, <3>1 DEF disk, FsTear
    <2>6. c.added \in Nat
      BY <1>1 DEF BuilderRecord
    <2>7. QED
      BY <2>1, <2>2, <2>5, <2>6, CleanDropped, CleanDraft
  <1>4. QED
    BY <1>2, <1>3

LEMMA CleanSwap ==
    ASSUME IInv, IInv', ChainInv, CleanInv, NEW p \in Builders,
           SwapWrite(p) \/ SwapSync(p) \/ SwapRename(p) \/ SwapDir(p)
    PROVE  DirectoryClean(builder[p])'
  <1> DEFINE c == builder[p]
             b == builder'[p]
  <1>1. c.call = "commit"
    BY DEF IInv, Sound, SwapSound, SwapWrite, SwapSync, SwapRename, SwapDir, At, Swapping
  <1>2. ASSUME NEW step \in {"swapSync", "swapRename", "swapDir"}, Goto(p, step)
        PROVE  DirectoryClean(builder[p])'
    BY <1>1, <1>2, GotoEffect, CleanQuiet
  <1>3. CASE SwapWrite(p)
    <2>1. b = NoBuilder \/ Goto(p, "swapSync")
      BY <1>3 DEF SwapWrite, Become, IInv, TypeOK
    <2>2. QED
      BY <1>2, <2>1, CleanDropped
  <1>4. CASE SwapDir(p)
    BY <1>4, SwapDirEffect, CleanQuiet
  <1>5. QED
    BY <1>2, <1>3, <1>4 DEF SwapSync, SwapRename

LEMMA CleanWalk ==
    ASSUME IInv, IInv', ChainInv, CleanInv, NEW p \in Builders, Walk(p) \/ AppendLoad(p)
    PROVE  DirectoryClean(builder[p])'
  <1> DEFINE c == builder[p]
             b == builder'[p]
  <1>1. c.call # "push"
    BY DEF IInv, Sound, WalkSound, CallSound, Walk, AppendLoad, At
  <1>2. CASE Fail(p)
    BY <1>1, <1>2, FailEffect, CleanDropped
  <1>3. CASE Walk(p) /\ ~ Fail(p)
    <2>1. b.call = c.call /\ b.pc \in {"walk", "list"}
      BY <1>3, WalkEffect
    <2>2. QED
      BY <1>1, <2>1, CleanQuiet
  <1>4. CASE AppendLoad(p)
    <2>1. b = NoBuilder \/ (b.call = c.call /\ b.pc = "walk")
      BY <1>4, AppendLoadEffect
    <2>2. QED
      BY <1>1, <2>1, CleanQuiet, CleanDropped
  <1>5. QED
    BY <1>2, <1>3, <1>4

LEMMA CleanInvStep ==
    IInv /\ IInv' /\ ChainInv /\ CleanInv /\ [Next]_vars => CleanInv'
  <1> SUFFICES ASSUME IInv, IInv', ChainInv, CleanInv, [Next]_vars PROVE CleanInv'
    OBVIOUS
  <1>1. ASSUME NEW p \in Builders,
               BuilderStep(p) \/ BuilderCall(p) \/ FsError(p) \/ Kill(p)
        PROVE  DirectoryClean(builder[p])'
    <2>1. CASE BuilderStep(p)
      BY <2>1, CleanCleanup, CleanCleanedUp, CleanStage, CleanStaged, CleanSwap,
         CleanWalk DEF BuilderStep
    <2>2. CASE FsError(p)
      BY <2>2, CleanFail DEF FsError, At
    <2>3. QED
      BY <1>1, <2>1, <2>2, CleanCall
  <1>2. CASE UNCHANGED <<disk, tables, builder, acked, mishaps>>
    <2>1. ChainFiles(current)' = ChainFiles(current)
      BY <1>2 DEF ChainFiles, Chain, FilesOf, PartsOf, disk, tables
    <2>2. QED
      BY <1>2, <2>1 DEF CleanInv, DirectoryClean, Drafting, disk
  <1>3. QED
    BY <1>1, <1>2, WhoMoves, CleanDropped DEF CleanInv

LEMMA CleanInductive == Spec => [](IInv /\ ChainInv /\ CleanInv)
  <1>1. Init => CleanInv
    BY WalkDropped DEF Init, CleanInv, DirectoryClean, Drafting, Staging, Swapping
  <1>2. (IInv /\ ChainInv /\ CleanInv) /\ [Next]_vars => (IInv /\ ChainInv /\ CleanInv)'
    BY IInvStep, ChainInvStep, CleanInvStep
  <1>3. QED
    BY <1>1, <1>2, IInvInit, ChainInvInit, PTL DEF Spec

\* A builder starts from a directory that holds its model and the published
\* chain and no leftover of any earlier builder, however that one ended.
THEOREM BuildersStartClean == Spec => []StartsClean
  <1>1. CleanInv => StartsClean
    BY DEF CleanInv, DirectoryClean, StartsClean, ChainFiles, At
  <1>2. QED
    BY <1>1, CleanInductive, PTL

-----------------------------------------------------------------------------
(* FitInv: what the operators of Manifest say.  In the lemmas that follow  *)
(* b is a builder after a step that changes the draft of c.                *)

LEMMA ValidParts ==
    ASSUME NEW m \in ManifestRecord, NEW g \in Nat
    PROVE  Valid(m, g) <=>
             /\ m.generation = g /\ g # 0
             /\ Len(m.segments) # 0 /\ Len(m.segments) <= MaxSegments
             /\ m.total <= MaxRows
             /\ \A i \in DOMAIN m.segments : EntryError(m.segments, i) = "Ok"
             /\ NextRow(m.segments, Len(m.segments) + 1) = m.total
  <1> DEFINE s == m.segments
             bad == {i \in DOMAIN s : EntryError(s, i) # "Ok"}
             first == CHOOSE i \in bad : \A j \in bad : i <= j
  <1>1. s \in Seq(SegmentEntry) /\ Len(s) \in Nat /\ m.total \in Nat /\ MaxRows \in Nat
        /\ MaxSegments \in Nat /\ m.generation \in Nat
    BY ManifestLimits DEF ManifestRecord
  <1>2. ASSUME bad # {} PROVE EntryError(s, first) # "Ok"
    <2>1. bad \subseteq Nat
      BY <1>1, SMT
    <2>2. PICK x \in bad : \A y \in bad : ~ (y < x)
      BY <1>2, <2>1, LeastNatural
    <2>3. \A y \in bad : x <= y
      BY <2>1, <2>2, SMT
    <2>4. first \in bad
      BY <2>2, <2>3
    <2>5. QED
      BY <2>4
  <1>3. ValidateSegments(s, m.total) =
            IF bad # {} THEN EntryError(s, first)
            ELSE IF NextRow(s, Len(s) + 1) # m.total THEN "RowSum" ELSE "Ok"
    BY DEF ValidateSegments
  <1> HIDE DEF first
  <1>4. ValidateSegments(s, m.total) = "Ok" <=>
            bad = {} /\ NextRow(s, Len(s) + 1) = m.total
    BY <1>2, <1>3
  <1>5. bad = {} <=> \A i \in DOMAIN s : EntryError(s, i) = "Ok"
    OBVIOUS
  <1> HIDE DEF bad
  <1>6. Valid(m, g) <=>
            /\ m.generation = g /\ g # 0
            /\ Len(s) # 0 /\ Len(s) <= MaxSegments /\ m.total <= MaxRows
            /\ ValidateSegments(s, m.total) = "Ok"
    BY <1>1 DEF Valid, Validate
  <1>7. QED
    BY <1>4, <1>5, <1>6

LEMMA EntryParts ==
    ASSUME NEW s \in Seq(SegmentEntry), NEW i \in DOMAIN s
    PROVE  EntryError(s, i) = "Ok" <=>
             /\ \A j \in 1 .. i - 1 : s[j].id # s[i].id
             /\ s[i].count # 0 /\ s[i].count <= MaxSegmentRows
             /\ End(s[i]) <= U64Max
             /\ s[i].first = NextRow(s, i)
  <1>1. /\ s[i] \in SegmentEntry /\ i \in Nat /\ i # 0
        /\ i # 1 => i - 1 \in DOMAIN s /\ s[i - 1] \in SegmentEntry
    <2>1. Len(s) \in Nat /\ DOMAIN s = 1 .. Len(s) /\ \A j \in DOMAIN s : s[j] \in SegmentEntry
      OBVIOUS
    <2>2. i # 1 => i - 1 \in 1 .. Len(s)
      BY <2>1, SMT
    <2>3. QED
      BY <2>1, <2>2, SMT
  <1>2. s[i].first \in Nat /\ s[i].count \in Nat /\ End(s[i]) \in Nat /\ NextRow(s, i) \in Nat
    <2>1. \A x \in SegmentEntry : x.first \in Nat /\ x.count \in Nat /\ End(x) \in Nat
      BY DEF SegmentEntry, End
    <2>2. NextRow(s, i) \in Nat
      BY <1>1, <2>1 DEF NextRow
    <2>3. QED
      BY <1>1, <2>1, <2>2
  <1>3. i = 1 => NextRow(s, i) = 0
    BY DEF NextRow
  <1> DEFINE dup == \E j \in 1 .. i - 1 : s[j].id = s[i].id
  <1>4. ~ dup <=> \A j \in 1 .. i - 1 : s[j].id # s[i].id
    OBVIOUS
  <1>5. EntryError(s, i) =
          CASE dup -> "DuplicateSegment"
            [] s[i].count = 0 \/ s[i].count > MaxSegmentRows -> "RowCount"
            [] End(s[i]) > U64Max -> "RowOverflow"
            [] i = 1 /\ s[i].first # 0 -> "FirstRow"
            [] s[i].first < NextRow(s, i) -> "Overlap"
            [] s[i].first > NextRow(s, i) -> "Gap"
            [] OTHER -> "Ok"
    BY Zenon DEF EntryError
  <1> HIDE DEF dup
  <1>6. EntryError(s, i) = "Ok" <=>
          /\ ~ dup
          /\ s[i].count # 0 /\ s[i].count <= MaxSegmentRows
          /\ End(s[i]) <= U64Max
          /\ s[i].first = NextRow(s, i)
    BY <1>2, <1>3, <1>5, ManifestLimits, SMT
  <1>7. QED
    BY <1>4, <1>6

LEMMA EntryAppend ==
    ASSUME NEW s \in Seq(SegmentEntry), NEW e \in SegmentEntry
    PROVE  LET t == Append(s, e) IN
           /\ \A i \in DOMAIN s : EntryError(t, i) = EntryError(s, i)
           /\ NextRow(t, Len(s) + 1) = NextRow(s, Len(s) + 1)
           /\ NextRow(t, Len(s) + 2) = End(e)
  <1> DEFINE t == Append(s, e)
  <1>1. /\ Len(s) \in Nat /\ DOMAIN s = 1 .. Len(s) /\ \A j \in 1 .. Len(s) : t[j] = s[j]
        /\ t[Len(s) + 1] = e
    OBVIOUS
  <1> HIDE DEF t
  <1>2. ASSUME NEW i \in 1 .. Len(s) + 1 PROVE NextRow(t, i) = NextRow(s, i)
    <2>1. i # 1 => i - 1 \in 1 .. Len(s)
      BY <1>1, SMT
    <2>2. QED
      BY <1>1, <2>1 DEF NextRow
  <1>3. ASSUME NEW i \in DOMAIN s PROVE EntryError(t, i) = EntryError(s, i)
    <2>1. i \in 1 .. Len(s) /\ i \in 1 .. Len(s) + 1 /\ \A j \in 1 .. i - 1 : j \in 1 .. Len(s)
      BY <1>1, SMT
    <2>2. /\ t[i] = s[i] /\ NextRow(t, i) = NextRow(s, i)
          /\ \A j \in 1 .. i - 1 : t[j] = s[j]
      BY <1>1, <1>2, <2>1
    <2>3. (\E j \in 1 .. i - 1 : t[j].id = t[i].id) <=> \E j \in 1 .. i - 1 : s[j].id = s[i].id
      BY <2>2
    <2>4. QED
      BY <2>2, <2>3, Zenon DEF EntryError
  <1>4. NextRow(t, Len(s) + 1) = NextRow(s, Len(s) + 1)
    BY <1>1, <1>2, SMT
  <1>5. NextRow(t, Len(s) + 2) = End(e)
    <2>1. Len(s) + 2 # 1 /\ Len(s) + 2 - 1 = Len(s) + 1
      BY <1>1, SMT
    <2>2. QED
      BY <1>1, <2>1 DEF NextRow
  <1>6. QED
    BY <1>3, <1>4, <1>5 DEF t

LEMMA FitTypes ==
    ASSUME NEW c \in BuilderRecord
    PROVE  /\ c.draft.segments \in Seq(SegmentEntry) /\ Len(c.draft.segments) \in Nat
           /\ c.originals \in Seq(Vectors) /\ Len(c.originals) \in Nat
           /\ c.firstRow \in Nat /\ c.added \in Nat
           /\ c.draft.generation \in Nat /\ c.draft.total \in Nat
           /\ NextRow(c.draft.segments, Len(c.draft.segments) + 1) \in Nat
           /\ MaxRows \in Nat /\ MaxSegments \in Nat /\ MaxSegmentRows \in Nat
           /\ U64Max \in Nat /\ MaxRows <= U64Max
           /\ MaxSegmentRows # 0 /\ MaxSegments # 0
  <1>1. /\ c.draft.segments \in Seq(SegmentEntry) /\ c.originals \in Seq(Vectors)
        /\ c.firstRow \in Nat /\ c.added \in Nat
        /\ c.draft.generation \in Nat /\ c.draft.total \in Nat
    BY DEF BuilderRecord, ManifestRecord
  <1> DEFINE s == c.draft.segments
  <1>2. Len(s) \in Nat /\ (Len(s) # 0 => s[Len(s)] \in SegmentEntry)
    BY <1>1
  <1> HIDE DEF s
  <1>3. NextRow(s, Len(s) + 1) \in Nat
    <2>1. Len(s) + 1 - 1 = Len(s) /\ (Len(s) + 1 = 1 <=> Len(s) = 0)
      BY <1>2, SMT
    <2>2. QED
      BY <1>2, <2>1 DEF NextRow, End, SegmentEntry
  <1>4. QED
    BY <1>1, <1>2, <1>3, ManifestLimits, StoreAssumption DEF s

\* Rows that fit still do when more ids are given out.
LEMMA MoreIds ==
    ASSUME NEW n \in Int, NEW k \in Int, n <= k
    PROVE  /\ \A m : IdsBelow(m, n) => IdsBelow(m, k)
           /\ \A b : RowsFit(b, n) => RowsFit(b, k)
           /\ \A m : ManifestFits(m, n) => ManifestFits(m, k)
  <1>1. \A i : i \in 1 .. n => i \in 1 .. k
    BY SMT
  <1>2. \A m : IdsBelow(m, n) => IdsBelow(m, k)
    BY <1>1 DEF IdsBelow
  <1>3. QED
    BY <1>2 DEF RowsFit, ManifestFits

\* The step that records a segment keeps the account,
LEMMA RecordedFits ==
    ASSUME NEW c \in BuilderRecord, NEW n \in Nat, c.target.id = n, n # 0,
           RowsFit(c, n - 1), c.originals # <<>>, Len(c.originals) <= c.added,
           NEW b, b.draft = RecordedDraft(c), b.originals = <<>>,
           b.firstRow = c.firstRow, b.added = c.added
    PROVE  RowsFit(b, n)
  <1> DEFINE s == c.draft.segments
             e == Entry(c)
             t == Append(s, e)
             k == Len(s)
             o == Len(c.originals)
  <1>1. /\ s \in Seq(SegmentEntry) /\ k \in Nat /\ o \in Nat /\ o # 0
        /\ c.firstRow \in Nat /\ c.added \in Nat /\ MaxRows \in Nat /\ MaxSegments \in Nat
        /\ MaxSegmentRows \in Nat /\ U64Max \in Nat /\ MaxRows <= U64Max
        /\ NextRow(s, k + 1) \in Nat
    BY FitTypes
  <1>2. /\ e.id = n /\ e.count = o /\ e.first = c.firstRow + c.added - o
        /\ e \in SegmentEntry
    BY <1>1 DEF Entry, SegmentEntry
  <1>3. /\ NextRow(s, k + 1) + o = c.firstRow + c.added
        /\ c.firstRow + c.added <= MaxRows /\ k < MaxSegments /\ o <= MaxSegmentRows
        /\ \A i \in DOMAIN s : s[i].id \in 1 .. n - 1
        /\ \A i \in DOMAIN s : EntryError(s, i) = "Ok"
    BY DEF RowsFit, IdsBelow
  <1>4. b.draft.segments = t
    BY <1>1 DEF RecordedDraft, BuilderRecord, ManifestRecord
  <1> HIDE DEF e, o, s
  <1>5. /\ t \in Seq(SegmentEntry) /\ Len(t) = k + 1 /\ DOMAIN t = 1 .. k + 1
        /\ DOMAIN s = 1 .. k /\ t[k + 1] = e
        /\ \A i \in 1 .. k : t[i] = s[i]
    BY <1>1, <1>2
  <1>6. /\ \A i \in DOMAIN s : EntryError(t, i) = EntryError(s, i)
        /\ NextRow(t, k + 1) = NextRow(s, k + 1)
        /\ NextRow(t, k + 2) = End(e)
    BY <1>1, <1>2, EntryAppend
  <1> HIDE DEF t, k
  <1>7. End(e) = c.firstRow + c.added
    BY <1>1, <1>2 DEF End
  <1>8. EntryError(t, k + 1) = "Ok"
    <2>1. \A j \in 1 .. (k + 1) - 1 : j \in 1 .. k
      BY <1>1, SMT
    <2>2. \A j \in 1 .. k : t[j].id # n
      BY <1>3, <1>5, SMT
    <2>3. \A j \in 1 .. (k + 1) - 1 : t[j].id # t[k + 1].id
      BY <1>2, <1>5, <2>1, <2>2
    <2>4. e.first = NextRow(t, k + 1)
      <3>1. NextRow(t, k + 1) + o = c.firstRow + c.added
        BY <1>3, <1>6
      <3>2. NextRow(t, k + 1) \in Nat
        BY <1>1, <1>6
      <3>3. /\ o \in Nat /\ c.firstRow \in Nat /\ c.added \in Nat
            /\ e.first = c.firstRow + c.added - o
        BY <1>1, <1>2
      <3>4. QED
        BY <3>1, <3>2, <3>3, SMT
    <2>5. End(e) <= U64Max
      BY <1>1, <1>3, <1>7, SMT
    <2>6. k + 1 \in DOMAIN t
      BY <1>1, <1>5, SMT
    <2>7. QED
      <3>1. t[k + 1].count # 0 /\ t[k + 1].count <= MaxSegmentRows
        BY <1>1, <1>2, <1>3, <1>5
      <3>2. End(t[k + 1]) <= U64Max /\ t[k + 1].first = NextRow(t, k + 1)
        BY <1>5, <2>4, <2>5
      <3>3. QED
        <4>1. t \in Seq(SegmentEntry)
          BY <1>5
        <4>2. PICK i \in DOMAIN t : i = k + 1
          BY <2>6
        <4>3. EntryError(t, i) = "Ok"
          <5>1. EntryError(t, i) = "Ok" <=>
                  /\ \A j \in 1 .. i - 1 : t[j].id # t[i].id
                  /\ t[i].count # 0 /\ t[i].count <= MaxSegmentRows
                  /\ End(t[i]) <= U64Max
                  /\ t[i].first = NextRow(t, i)
            BY <4>1, EntryParts
          <5>2. \A j \in 1 .. i - 1 : t[j].id # t[i].id
            BY <2>3, <4>2
          <5>3. QED
            BY <3>1, <3>2, <4>2, <5>1, <5>2
        <4>4. QED
          BY <4>2, <4>3
  <1>9. \A i \in DOMAIN t : EntryError(t, i) = "Ok"
    <2>1. \A i \in DOMAIN t : i \in DOMAIN s \/ i = k + 1
      BY <1>1, <1>5, SMT
    <2>2. QED
      BY <1>3, <1>6, <1>8, <2>1
  <1>10. NextRow(t, Len(t) + 1) + Len(<<>>) = b.firstRow + b.added
    <2>1. Len(t) + 1 = k + 2
      BY <1>1, <1>5, SMT
    <2>2. Len(<<>>) = 0
      OBVIOUS
    <2>3. QED
      BY <1>1, <1>6, <1>7, <2>1, <2>2
  <1>11. Len(t) <= MaxSegments /\ Len(<<>>) <= MaxSegmentRows
    BY <1>1, <1>3, <1>5
  <1>12. \A i \in DOMAIN t : t[i].id \in 1 .. n
    <2>1. \A i \in DOMAIN t : i \in 1 .. k \/ i = k + 1
      BY <1>1, <1>5, SMT
    <2>2. n \in 1 .. n /\ \A i : i \in 1 .. n - 1 => i \in 1 .. n
      BY SMT
    <2>3. QED
      BY <1>2, <1>3, <1>5, <2>1, <2>2
  <1>13. QED
    BY <1>1, <1>3, <1>4, <1>9, <1>10, <1>11, <1>12 DEF RowsFit, IdsBelow

\* the step that seals the manifest makes it valid,
LEMMA SealFits ==
    ASSUME NEW c \in BuilderRecord, NEW n \in Nat, RowsFit(c, n), c.originals = <<>>,
           c.added > 0, c.draft.generation # 0,
           NEW b, b.draft = Sealed(c), b.originals = c.originals,
           b.firstRow = c.firstRow, b.added = c.added
    PROVE  /\ Valid(Sealed(c), c.draft.generation) /\ ManifestFits(Sealed(c), n)
           /\ RowsFit(b, n)
  <1> DEFINE m == Sealed(c)
             s == c.draft.segments
  <1>1. /\ m \in ManifestRecord /\ m.segments = s /\ m.total = c.firstRow + c.added
        /\ m.generation = c.draft.generation
    BY SealedType DEF Sealed, BuilderRecord, ManifestRecord
  <1> HIDE DEF m
  <1>2. /\ Len(c.originals) = 0 /\ Len(s) \in Nat /\ c.firstRow \in Nat /\ c.added \in Nat
        /\ c.draft.generation \in Nat /\ NextRow(s, Len(s) + 1) \in Nat
    BY FitTypes
  <1>3. /\ NextRow(s, Len(s) + 1) = m.total /\ m.total <= MaxRows
        /\ Len(s) <= MaxSegments /\ \A i \in DOMAIN s : EntryError(s, i) = "Ok"
    BY <1>1, <1>2 DEF RowsFit
  <1>4. Len(s) # 0
    <2>1. Len(s) = 0 => Len(s) + 1 = 1
      OBVIOUS
    <2>2. Len(s) = 0 => NextRow(s, Len(s) + 1) = 0
      BY <2>1 DEF NextRow
    <2>3. QED
      BY <1>1, <1>2, <1>3, <2>2
  <1>5. Valid(m, c.draft.generation)
    BY <1>1, <1>2, <1>3, <1>4, ValidParts
  <1>6. IdsBelow(m, n)
    BY <1>1 DEF RowsFit, IdsBelow
  <1>7. RowsFit(b, n)
    BY <1>1 DEF RowsFit, IdsBelow, m
  <1>8. QED
    BY <1>1, <1>5, <1>6, <1>7 DEF ManifestFits, m

\* a draft that extends a valid manifest fits,
LEMMA BaseFits ==
    ASSUME NEW m \in ManifestRecord, NEW n, ManifestFits(m, n),
           NEW b, b.draft.segments = m.segments, b.firstRow = m.total,
           b.added = 0, b.originals = <<>>
    PROVE  RowsFit(b, n)
  <1>1. m.total \in Nat /\ m.generation \in Nat /\ m.segments \in Seq(SegmentEntry)
    BY DEF ManifestRecord
  <1>2. /\ Len(m.segments) <= MaxSegments /\ m.total <= MaxRows
        /\ \A i \in DOMAIN m.segments : EntryError(m.segments, i) = "Ok"
        /\ NextRow(m.segments, Len(m.segments) + 1) = m.total
    BY <1>1, ValidParts DEF ManifestFits
  <1>3. Len(<<>>) = 0 /\ m.total + 0 = m.total /\ 0 <= MaxSegmentRows
    BY <1>1, ManifestLimits
  <1>4. IdsBelow(b.draft, n)
    BY DEF ManifestFits, IdsBelow
  <1>5. QED
    BY <1>1, <1>2, <1>3, <1>4 DEF RowsFit

\* one that extends nothing does,
LEMMA EmptyFits ==
    ASSUME NEW b, NEW n, b.draft.segments = <<>>, b.firstRow = 0, b.added = 0,
           b.originals = <<>>
    PROVE  RowsFit(b, n)
  <1>1. Len(<<>>) = 0 /\ DOMAIN <<>> = {} /\ NextRow(<<>>, 1) = 0 /\ 0 + 1 = 1
    BY DEF NextRow
  <1>2. MaxRows \in Nat /\ MaxSegments \in Nat /\ MaxSegmentRows \in Nat
    BY ManifestLimits
  <1>3. QED
    BY <1>1, <1>2 DEF RowsFit, IdsBelow

\* and so does a draft with one row more.
LEMMA PushFits ==
    ASSUME NEW c \in BuilderRecord, NEW n, RowsFit(c, n),
           c.firstRow + c.added < MaxRows, Len(c.originals) < MaxSegmentRows,
           c.originals # <<>> \/ Len(c.draft.segments) < MaxSegments,
           NEW v \in Vectors, NEW b, b.draft = c.draft, b.firstRow = c.firstRow,
           b.added = c.added + 1, b.originals = Append(c.originals, v)
    PROVE  RowsFit(b, n)
  <1> DEFINE o == Len(c.originals)
             x == NextRow(c.draft.segments, Len(c.draft.segments) + 1)
  <1>1. /\ c.originals \in Seq(Vectors) /\ o \in Nat /\ c.firstRow \in Nat /\ c.added \in Nat
        /\ x \in Nat /\ MaxRows \in Nat /\ MaxSegmentRows \in Nat
    BY FitTypes
  <1>2. Len(b.originals) = o + 1
    BY <1>1
  <1>3. x + o = c.firstRow + c.added
    BY DEF RowsFit
  <1> HIDE DEF o, x
  <1>4. x + (o + 1) = c.firstRow + (c.added + 1) /\ c.firstRow + (c.added + 1) <= MaxRows
    BY <1>1, <1>3, SMT
  <1>5. o + 1 <= MaxSegmentRows
    BY <1>1, SMT DEF o
  <1>6. Len(c.draft.segments) < MaxSegments
    BY DEF RowsFit
  <1>7. QED
    BY <1>2, <1>4, <1>5, <1>6 DEF RowsFit, x

-----------------------------------------------------------------------------
(* FitInv: the steps. *)

LEMMA FitDropped == \A p : builder'[p] = NoBuilder => DraftFits(builder[p])'
  <1>1. NoBuilder.poisoned = FALSE
    BY DEF NoBuilder
  <1>2. QED
    BY <1>1, WalkDropped DEF DraftFits, Drafting, Staging, Swapping

\* A builder that has no draft to publish.
LEMMA FitQuiet ==
    ASSUME NEW p \in Builders, ~ Drafting(builder'[p]), ~ builder'[p].poisoned,
           builder'[p].call \in {"create", "append"} =>
              /\ builder'[p].added = 0 /\ builder'[p].originals = <<>>
              /\ builder'[p].pushed = <<>>
              /\ builder'[p].firstRow = builder'[p].draft.total
              /\ builder'[p].call = "create" => builder'[p].draft.total = 0,
           builder'[p].call = "commit" => builder'[p].added > 0
    PROVE  DraftFits(builder[p])'
  <1>1. Drafting(builder[p])' <=> Drafting(builder'[p])
    BY DEF Drafting
  <1>2. QED
    BY <1>1 DEF DraftFits

\* A step that changes neither the draft nor what is done with it.
LEMMA FitGoto ==
    ASSUME IInv, FitInv, NEW p \in Builders, NEW step, Goto(p, step),
           UNCHANGED segments, builder[p].pc # "ready", step # "ready",
           builder[p].pc \in Staging <=> step \in Staging,
           step \in Swapping => builder[p].pc \in Swapping
    PROVE  DraftFits(builder[p])'
  <1> DEFINE c == builder[p]
             b == builder'[p]
  <1>1. /\ b.pc = step /\ b.call = c.call /\ b.target = c.target /\ SameDraft(b, c)
        /\ DraftFits(c)
    BY GotoEffect DEF FitInv
  <1>2. Drafting(b) => Drafting(c)
    BY <1>1 DEF Drafting
  <1>3. StagesSegment(b) <=> StagesSegment(c)
    BY <1>1 DEF StagesSegment
  <1>4. Settled(builder[p])' = Settled(c)
    BY <1>3 DEF Settled, StagesSegment
  <1>5. \A n : RowsFit(c, n) => RowsFit(b, n)
    BY <1>1 DEF RowsFit, SameDraft
  <1>6. \A n : RowsFit(builder[p], n)' <=> RowsFit(b, n)
    BY DEF RowsFit, IdsBelow
  <1>7. /\ Drafting(builder[p])' <=> Drafting(b)
        /\ StagesSegment(builder[p])' <=> StagesSegment(b)
    BY DEF Drafting, StagesSegment
  <1>8. /\ ~ b.poisoned
        /\ b.call \in {"create", "append"} =>
              /\ b.added = 0 /\ b.originals = <<>> /\ b.pushed = <<>>
              /\ b.firstRow = b.draft.total
              /\ b.call = "create" => b.draft.total = 0
        /\ b.call = "commit" => b.added > 0
    BY <1>1 DEF DraftFits, SameDraft
  <1>9. ASSUME Drafting(b)
        PROVE  /\ RowsFit(b, Settled(c))
               /\ StagesSegment(b) => b.target.id = Len(segments) /\ Len(segments) # 0
    BY <1>1, <1>2, <1>3, <1>5, <1>9 DEF DraftFits
  <1>10. b.pc # "ready"
    BY <1>1
  <1> HIDE DEF b, c
  <1>11. QED
    BY <1>4, <1>6, <1>7, <1>8, <1>9, <1>10 DEF DraftFits, b

\* A builder with a draft that fits the segments given out after the step.
LEMMA FitDraft ==
    ASSUME NEW p \in Builders, ~ builder'[p].poisoned,
           builder'[p].call \in {"none", "push", "commit"},
           builder'[p].call = "commit" => builder'[p].added > 0,
           RowsFit(builder'[p], Settled(builder[p])'),
           builder'[p].pc = "ready" => Len(builder'[p].originals) < MaxSegmentRows,
           StagesSegment(builder'[p]) =>
              builder'[p].target.id = Len(segments') /\ Len(segments') # 0
    PROVE  DraftFits(builder[p])'
  <1>1. \A n : RowsFit(builder[p], n)' <=> RowsFit(builder'[p], n)
    BY DEF RowsFit, IdsBelow
  <1>2. StagesSegment(builder[p])' <=> StagesSegment(builder'[p])
    BY DEF StagesSegment
  <1>3. QED
    BY <1>1, <1>2 DEF DraftFits

LEMMA FitCleanup ==
    ASSUME IInv, IInv', ChainInv, FitInv, NEW p \in Builders,
           \/ Probe(p) \/ AppendLoad(p) \/ (Walk(p) /\ ~ Fail(p))
           \/ List(p) \/ RemoveOrphan(p)
    PROVE  DraftFits(builder[p])'
  <1> DEFINE c == builder[p]
             b == builder'[p]
  <1>1. DraftFits(c) /\ Sound(c) /\ WalkWhole(c)
    BY DEF FitInv, IInv, ChainInv
  <1>2. CASE b = NoBuilder
    BY <1>2, FitDropped
  <1>3. CASE AppendLoad(p) /\ b # NoBuilder
    <2>1. /\ c.pc = "load" /\ b.pc = "walk" /\ b.call = c.call
          /\ b.draft = manifests[current] /\ b.firstRow = manifests[current].total
          /\ b.added = c.added /\ b.originals = c.originals /\ b.pushed = c.pushed
          /\ b.poisoned = c.poisoned
      BY <1>3, AppendLoadEffect
    <2>2. c.call = "append" /\ ~ c.poisoned
      BY <1>1, <2>1 DEF Sound, CallSound, DraftFits
    <2>3. c.added = 0 /\ c.originals = <<>> /\ c.pushed = <<>>
      BY <1>1, <2>2 DEF DraftFits
    <2>4. ~ Drafting(b)
      BY <2>1 DEF Drafting, Staging, Swapping
    <2> HIDE DEF b, c
    <2>5. QED
      BY <2>1, <2>2, <2>3, <2>4, FitQuiet DEF b
  <1>4. CASE ~ AppendLoad(p) /\ b # NoBuilder
    <2>1. /\ c.pc \in {"probe", "walk", "list", "remove"}
          /\ b.pc \in {"walk", "list", "remove"} /\ b.call = c.call /\ SameDraft(b, c)
      <3>1. CASE Probe(p)
        BY <1>4, <3>1, ProbeEffect
      <3>2. CASE Walk(p) /\ ~ Fail(p)
        BY <3>2, WalkEffect
      <3>3. CASE List(p)
        BY <3>3, ListEffect
      <3>4. CASE RemoveOrphan(p)
        BY <3>4, RemoveOrphanEffect
      <3>5. QED
        BY <1>4, <3>1, <3>2, <3>3, <3>4
    <2>2. c.call \in {"create", "append", "tidy"} /\ ~ c.poisoned
      BY <1>1, <2>1 DEF Sound, CallSound, WalkSound, KeepSound, DraftFits
    <2>3. ~ Drafting(b)
      BY <2>1 DEF Drafting, Staging, Swapping
    <2>4. /\ b.call \in {"create", "append"} =>
                /\ b.added = 0 /\ b.originals = <<>> /\ b.pushed = <<>>
                /\ b.firstRow = b.draft.total
                /\ b.call = "create" => b.draft.total = 0
          /\ ~ b.poisoned
      BY <1>1, <2>1, <2>2 DEF DraftFits, SameDraft
    <2> HIDE DEF b, c
    <2>5. QED
      BY <2>1, <2>2, <2>3, <2>4, FitQuiet DEF b
  <1>5. QED
    BY <1>2, <1>3, <1>4

LEMMA FitCleanedUp ==
    ASSUME IInv, IInv', ChainInv, FitInv, NEW p \in Builders, CleanupSync(p)
    PROVE  DraftFits(builder[p])'
  <1> DEFINE c == builder[p]
             b == builder'[p]
  <1>1. DraftFits(c) /\ Sound(c) /\ c.pc = "remove" /\ UNCHANGED <<segments, manifests>>
    BY CleanupSyncEffect DEF FitInv, IInv, tables
  <1>2. CASE b = NoBuilder
    BY <1>2, FitDropped
  <1>3. CASE c.call = "create"
    <2>0. /\ b.pc = "stageWrite" /\ b.call = "create" /\ SameDraft(b, c)
          /\ b.target = File("model", c.draft.model)
      BY <1>3, CleanupSyncEffect
    <2>1. /\ b.pc = "stageWrite" /\ b.call = "create" /\ SameDraft(b, c)
          /\ b.target.kind = "model"
      BY <2>0 DEF File
    <2>2. ~ Drafting(b)
      BY <2>1 DEF Drafting, Staging, Swapping
    <2>3. /\ b.added = 0 /\ b.originals = <<>> /\ b.pushed = <<>>
          /\ b.firstRow = b.draft.total /\ b.draft.total = 0 /\ ~ b.poisoned
      BY <1>1, <1>3, <2>1 DEF DraftFits, SameDraft
    <2> HIDE DEF b, c
    <2>4. QED
      BY <2>1, <2>2, <2>3, FitQuiet DEF b
  <1>4. CASE c.call = "append"
    <2>1. /\ b.pc = "ready" /\ b.call = "none" /\ b.draft = Successor(c.draft)
          /\ b.firstRow = c.firstRow /\ b.added = c.added /\ b.originals = c.originals
          /\ b.poisoned = c.poisoned
      BY <1>4, CleanupSyncEffect
    <2>2. /\ c.added = 0 /\ c.originals = <<>> /\ c.firstRow = c.draft.total
          /\ ~ c.poisoned
      BY <1>1, <1>4 DEF DraftFits
    <2>3. current \in DOMAIN manifests /\ c.draft = manifests[current]
      BY <1>1, <1>4 DEF Sound, CallSound
    <2>4. c.draft \in ManifestRecord /\ ManifestFits(c.draft, Len(segments))
      BY <2>3, CurrentNamed DEF FitInv
    <2>5. b.draft.segments = c.draft.segments
      BY <2>1, <2>4 DEF Successor, ManifestRecord
    <2>6. RowsFit(b, Len(segments))
      BY <2>1, <2>2, <2>4, <2>5, BaseFits
    <2>7. Settled(builder[p])' = Len(segments) /\ ~ StagesSegment(b)
      BY <1>1, <2>1 DEF Settled, StagesSegment, Staging
    <2>8. Len(b.originals) < MaxSegmentRows
      BY <2>1, <2>2, ManifestLimits
    <2> HIDE DEF b, c
    <2>9. QED
      BY <2>1, <2>2, <2>6, <2>7, <2>8, FitDraft DEF b
  <1>5. QED
    BY <1>2, <1>3, <1>4, CleanupSyncEffect

\* A draft that can be published is of generation 1 or later.
LEMMA DraftNumbered ==
    ASSUME IInv, NEW c, DraftSound(c), Drafting(c)
    PROVE  c.draft.generation # 0
  <1>1. current # NoHash => manifests[current].generation \in Nat
    <2>1. current # NoHash => manifests[current] \in ManifestRecord
      BY CurrentNamed
    <2>2. QED
      BY <2>1 DEF ManifestRecord
  <1>2. NextGeneration # 0
    BY <1>1 DEF NextGeneration
  <1>3. QED
    BY <1>2 DEF DraftSound

\* A manifest is sealed as planned, never refused.
LEMMA FitSealed ==
    ASSUME IInv, IInv', ChainInv, FitInv, NEW p \in Builders, NEW c \in BuilderRecord,
           SealManifest(p, c), UNCHANGED segments, RowsFit(c, Len(segments)),
           c.originals = <<>>, c.added > 0, c.draft.generation # 0, ~ c.poisoned
    PROVE  /\ DraftFits(builder[p])' /\ builder'[p].pc = "stageWrite"
           /\ \E m \in ManifestRecord : /\ manifests' = Append(manifests, m)
                                        /\ ManifestFits(m, Len(segments))
  <1> DEFINE b == builder'[p]
             n == Len(segments)
  <1>1. n \in Nat
    BY DEF IInv, TypeOK
  <1>2. Valid(Sealed(c), c.draft.generation) /\ ManifestFits(Sealed(c), n)
    <2>1. PICK x : /\ x.draft = Sealed(c) /\ x.originals = c.originals
                   /\ x.firstRow = c.firstRow /\ x.added = c.added
      <3> DEFINE x == [draft |-> Sealed(c), originals |-> c.originals,
                       firstRow |-> c.firstRow, added |-> c.added]
      <3>1. /\ x.draft = Sealed(c) /\ x.originals = c.originals
            /\ x.firstRow = c.firstRow /\ x.added = c.added
        OBVIOUS
      <3> HIDE DEF x
      <3>2. QED
        BY <3>1
    <2>2. QED
      BY <1>1, <2>1, SealFits
  <1>3. /\ manifests' = Append(manifests, Sealed(c))
        /\ b.pc = "stageWrite" /\ b.call = "commit" /\ b.draft = Sealed(c)
        /\ b.target = File("manifest", Len(manifests) + 1)
        /\ b.firstRow = c.firstRow /\ b.added = c.added
        /\ b.originals = c.originals /\ b.poisoned = c.poisoned
    BY <1>2, SealEffect
  <1> HIDE DEF b
  <1>4. RowsFit(b, n)
    BY <1>1, <1>3, SealFits
  <1>5. ~ StagesSegment(b)
    BY <1>3 DEF StagesSegment, File
  <1>6. Settled(builder[p])' = n
    BY <1>5 DEF Settled, StagesSegment, b
  <1>7. DraftFits(builder[p])'
    BY <1>3, <1>4, <1>5, <1>6, FitDraft DEF b
  <1>8. QED
    BY <1>2, <1>3, <1>7, SealedType DEF b

LEMMA FitPush ==
    ASSUME IInv, IInv', FitInv, NEW p \in Builders, NEW v \in Vectors, Push(p, v)
    PROVE  DraftFits(builder[p])'
  <1> DEFINE c == builder[p]
             b == builder'[p]
             n == Len(segments)
  <1>1. /\ DraftFits(c) /\ Sound(c) /\ c \in BuilderRecord /\ segments \in Seq(Seq(Vectors))
        /\ n \in Nat
    BY DEF FitInv, IInv, TypeOK
  <1>2. /\ c.pc = "ready" /\ ~ c.poisoned /\ c.firstRow + c.added < MaxRows
        /\ c.originals # <<>> \/ Len(c.draft.segments) < MaxSegments
        /\ b.draft = c.draft /\ b.firstRow = c.firstRow /\ b.poisoned = c.poisoned
        /\ b.added = c.added + 1 /\ b.originals = Append(c.originals, v)
    BY PushEffect
  <1>3. RowsFit(c, n) /\ Len(c.originals) < MaxSegmentRows
    BY <1>1, <1>2 DEF DraftFits, Drafting, Settled, StagesSegment, Staging
  <1>4. RowsFit(b, n)
    BY <1>1, <1>2, <1>3, PushFits
  <1>5. CASE b.pc = "stageWrite"
    <2>1. /\ b.call = "push" /\ b.target = File("primary", n + 1)
          /\ segments' = Append(segments, b.originals)
      BY <1>5, PushEffect
    <2>2. Len(segments') = n + 1
      BY <1>1, <2>1
    <2>3. StagesSegment(b) /\ b.target.id = n + 1
      BY <1>5, <2>1 DEF StagesSegment, Staging, File
    <2>4. Settled(builder[p])' = n
      BY <1>1, <2>2, <2>3 DEF Settled, StagesSegment
    <2> HIDE DEF b, c
    <2>5. QED
      BY <1>2, <1>4, <1>5, <2>1, <2>2, <2>3, <2>4, FitDraft DEF b
  <1>6. CASE b.pc # "stageWrite"
    <2>1. /\ Len(b.originals) # MaxSegmentRows /\ b.pc = "ready" /\ b.call = c.call
          /\ UNCHANGED segments
      BY <1>6, PushEffect
    <2>2. b.call = "none"
      BY <1>1, <1>2, <2>1 DEF Sound, CallSound
    <2>3. Len(b.originals) < MaxSegmentRows
      <3>1. Len(b.originals) = Len(c.originals) + 1
        BY <1>1, <1>2 DEF BuilderRecord
      <3>2. QED
        BY <1>1, <1>3, <2>1, <3>1, FitTypes
    <2>4. ~ StagesSegment(b) /\ Settled(builder[p])' = n
      BY <2>1 DEF Settled, StagesSegment, Staging
    <2> HIDE DEF b, c
    <2>5. QED
      BY <1>2, <1>4, <2>1, <2>2, <2>3, <2>4, FitDraft DEF b
  <1>7. QED
    BY <1>5, <1>6

\* What commit does, once push has accepted its rows: it always stages.
LEMMA FitCommit ==
    ASSUME IInv, IInv', ChainInv, FitInv, NEW p \in Builders, Commit(p)
    PROVE  /\ DraftFits(builder[p])' /\ builder'[p].pc = "stageWrite"
           /\ \/ UNCHANGED manifests
              \/ \E m \in ManifestRecord : /\ manifests' = Append(manifests, m)
                                           /\ ManifestFits(m, Len(segments))
  <1> DEFINE c == builder[p]
             b == builder'[p]
             n == Len(segments)
  <1>1. /\ DraftFits(c) /\ Sound(c) /\ c \in BuilderRecord /\ segments \in Seq(Seq(Vectors))
        /\ n \in Nat
    BY DEF FitInv, IInv, TypeOK
  <1>2. c.pc = "ready" /\ ~ c.poisoned /\ c.added > 0
    BY CommitEffect
  <1>3. RowsFit(c, n) /\ Drafting(c)
    BY <1>1, <1>2 DEF DraftFits, Drafting, Settled, StagesSegment, Staging
  <1>4. c.originals # <<>> => ~ (Len(c.draft.segments) >= MaxSegments)
    BY <1>1, <1>3, FitTypes DEF RowsFit
  <1>5. CASE c.originals = <<>>
    <2>1. SealManifest(p, c) /\ UNCHANGED segments
      BY <1>5, CommitEffect
    <2>2. c.draft.generation # 0
      BY <1>1, <1>2, <1>3, DraftNumbered DEF Sound
    <2>3. QED
      BY <1>1, <1>2, <1>3, <1>5, <2>1, <2>2, FitSealed
  <1>6. CASE c.originals # <<>>
    <2>1. /\ UNCHANGED manifests /\ segments' = Append(segments, c.originals)
          /\ b.pc = "stageWrite" /\ b.call = "commit" /\ SameDraft(b, c)
          /\ b.target = File("primary", n + 1)
      BY <1>4, <1>6, CommitEffect
    <2>2. Len(segments') = n + 1
      BY <1>1, <2>1 DEF BuilderRecord
    <2>3. StagesSegment(b) /\ b.target.id = n + 1
      BY <2>1 DEF StagesSegment, Staging, File
    <2>4. Settled(builder[p])' = n
      BY <1>1, <2>2, <2>3 DEF Settled, StagesSegment
    <2>5. RowsFit(b, n) /\ b.added > 0 /\ ~ b.poisoned
      BY <1>2, <1>3, <2>1 DEF RowsFit, SameDraft
    <2> HIDE DEF b, c
    <2>6. DraftFits(builder[p])'
      BY <2>1, <2>2, <2>3, <2>4, <2>5, FitDraft DEF b
    <2>7. QED
      BY <2>1, <2>6 DEF b
  <1>7. QED
    BY <1>5, <1>6

\* The end of stage records a segment or seals the manifest.
LEMMA FitStaged ==
    ASSUME IInv, IInv', ChainInv, FitInv, NEW p \in Builders, StageDir(p)
    PROVE  /\ DraftFits(builder[p])' /\ builder'[p].pc # "idle"
           /\ \/ UNCHANGED manifests
              \/ \E m \in ManifestRecord : /\ manifests' = Append(manifests, m)
                                           /\ ManifestFits(m, Len(segments))
  <1> DEFINE c == builder[p]
             b == builder'[p]
             n == Len(segments)
  <1>1. /\ DraftFits(c) /\ Sound(c) /\ c \in BuilderRecord /\ n \in Nat
        /\ c.pc = "stageDir" /\ UNCHANGED segments /\ ~ c.poisoned
    <2>1. c.pc = "stageDir" /\ UNCHANGED segments
      BY StageDirEffect
    <2>2. /\ DraftFits(c) /\ Sound(c) /\ c \in BuilderRecord
          /\ segments \in Seq(Seq(Vectors))
      BY DEF FitInv, IInv, TypeOK
    <2>3. ~ c.poisoned
      BY <2>1, <2>2 DEF DraftFits
    <2>4. QED
      BY <2>1, <2>2, <2>3
  <1>2. CASE c.target.kind = "model"
    <2>1. /\ UNCHANGED manifests /\ b.pc = "ready" /\ b.call = "none"
          /\ b.draft = [c.draft EXCEPT !.generation = 1]
          /\ b.firstRow = c.firstRow /\ b.added = c.added /\ b.originals = c.originals
          /\ b.poisoned = c.poisoned
      BY <1>2, StageDirEffect
    <2>2. c.call = "create"
      BY <1>1, <1>2 DEF Sound, StageSound, Staging
    <2>3. /\ c.added = 0 /\ c.originals = <<>> /\ c.firstRow = 0
          /\ c.draft.segments = <<>>
      BY <1>1, <2>2 DEF DraftFits, Sound, CallSound
    <2>4. b.draft.segments = <<>>
      BY <1>1, <2>1, <2>3 DEF BuilderRecord, ManifestRecord
    <2>5. RowsFit(b, n)
      BY <2>1, <2>3, <2>4, EmptyFits
    <2>6. ~ StagesSegment(b) /\ Settled(builder[p])' = n
      BY <1>1, <2>1 DEF Settled, StagesSegment, Staging
    <2>7. Len(b.originals) < MaxSegmentRows
      BY <2>1, <2>3, ManifestLimits
    <2> HIDE DEF b, c
    <2>8. QED
      BY <1>1, <2>1, <2>5, <2>6, <2>7, FitDraft DEF b
  <1>3. ASSUME c.target.kind # "model"
        PROVE  /\ Drafting(c) /\ RowsFit(c, Settled(c))
               /\ StagesSegment(c) => c.target.id = n /\ n # 0
               /\ c.draft.generation # 0
    <2>1. Drafting(c)
      BY <1>1, <1>3 DEF Drafting, Staging
    <2>2. QED
      BY <1>1, <2>1, DraftNumbered DEF DraftFits, Sound
  <1>4. CASE c.target.kind = "primary"
    <2>1. /\ UNCHANGED manifests /\ b.pc = "stageWrite" /\ b.call = c.call
          /\ b.target = File("residual", c.target.id) /\ SameDraft(b, c)
      BY <1>4, StageDirEffect
    <2>2. StagesSegment(c) /\ StagesSegment(b) /\ b.target.id = c.target.id
      BY <1>1, <1>4, <2>1 DEF StagesSegment, Staging, File
    <2>3. Settled(c) = n - 1 /\ Settled(builder[p])' = n - 1
      BY <1>1, <2>2 DEF Settled, StagesSegment
    <2>4. RowsFit(b, n - 1)
      BY <1>3, <1>4, <2>1, <2>3 DEF RowsFit, SameDraft
    <2>5. /\ b.call \in {"push", "commit"} /\ (b.call = "commit" => b.added > 0)
          /\ ~ b.poisoned
      BY <1>1, <1>4, <2>1 DEF Sound, StageSound, Staging, DraftFits, SameDraft
    <2> HIDE DEF b, c
    <2>6. QED
      BY <1>1, <1>3, <1>4, <2>1, <2>2, <2>3, <2>4, <2>5, FitDraft DEF b
  <1>5. CASE c.target.kind = "residual"
    <2>1. StagesSegment(c) /\ Settled(c) = n - 1 /\ c.target.id = n /\ RowsFit(c, n - 1)
      BY <1>1, <1>3, <1>5 DEF StagesSegment, Staging, Settled
    <2>2. c.originals # <<>> /\ Len(c.originals) <= c.added
      BY <1>1, <1>5 DEF Sound, RowsSound, Staging
    <2>3. n # 0
      BY <1>3, <1>5, <2>1
    <2>4. CASE c.call = "push"
      <3>1. /\ UNCHANGED manifests /\ b.pc = "ready" /\ b.call = "none"
            /\ b.draft = RecordedDraft(c) /\ b.originals = <<>>
            /\ b.firstRow = c.firstRow /\ b.added = c.added /\ b.poisoned = c.poisoned
        BY <1>5, <2>4, StageDirEffect
      <3>2. RowsFit(b, n)
        BY <1>1, <2>1, <2>2, <2>3, <3>1, RecordedFits
      <3>3. ~ StagesSegment(b) /\ Settled(builder[p])' = n
        BY <1>1, <3>1 DEF Settled, StagesSegment, Staging
      <3>4. Len(b.originals) < MaxSegmentRows
        BY <3>1, ManifestLimits
      <3> HIDE DEF b, c
      <3>5. QED
        BY <1>1, <3>1, <3>2, <3>3, <3>4, FitDraft DEF b
    <2>5. CASE c.call = "commit"
      <3> DEFINE d == Recorded(c)
      <3>1. SealManifest(p, d)
        BY <1>5, <2>5, StageDirEffect
      <3>2. /\ d \in BuilderRecord /\ d.draft = RecordedDraft(c) /\ d.originals = <<>>
            /\ d.firstRow = c.firstRow /\ d.added = c.added /\ d.poisoned = c.poisoned
        BY <1>1, <2>2, RecordedType, RecordedFields
      <3>3. d.draft.generation = c.draft.generation
        BY <1>1, <3>2 DEF RecordedDraft, BuilderRecord, ManifestRecord
      <3>4. c.added > 0
        BY <1>1, <2>5 DEF DraftFits
      <3> HIDE DEF d
      <3>5. RowsFit(d, n)
        BY <1>1, <2>1, <2>2, <2>3, <3>2, RecordedFits
      <3>6. QED
        BY <1>1, <1>3, <1>5, <3>1, <3>2, <3>3, <3>4, <3>5, FitSealed
    <2>6. QED
      BY <1>5, <2>4, <2>5, StageDirEffect
  <1>6. CASE c.target.kind = "manifest"
    <2>1. /\ UNCHANGED manifests /\ b.pc = "swapWrite" /\ b.call = c.call
          /\ b.target = c.target /\ SameDraft(b, c)
      BY <1>6, StageDirEffect
    <2>2. ~ StagesSegment(c) /\ ~ StagesSegment(b)
      BY <1>6, <2>1 DEF StagesSegment
    <2>3. Settled(c) = n /\ Settled(builder[p])' = n
      BY <1>1, <2>2 DEF Settled, StagesSegment
    <2>4. RowsFit(b, n)
      BY <1>3, <1>6, <2>1, <2>3 DEF RowsFit, SameDraft
    <2>5. b.call = "commit" /\ b.added > 0 /\ ~ b.poisoned
      BY <1>1, <1>6, <2>1 DEF Sound, StageSound, Staging, DraftFits, SameDraft
    <2> HIDE DEF b, c
    <2>6. QED
      BY <2>1, <2>2, <2>3, <2>4, <2>5, FitDraft DEF b
  <1>7. QED
    BY <1>2, <1>4, <1>5, <1>6, StageDirEffect

\* A failed push leaves a poisoned builder, with the rows it had taken.
LEMMA FitFail ==
    ASSUME IInv, IInv', ChainInv, FitInv, NEW p \in Builders, Fail(p), UNCHANGED segments
    PROVE  DraftFits(builder[p])'
  <1> DEFINE c == builder[p]
             b == builder'[p]
             n == Len(segments)
  <1>1. DraftFits(c) /\ Sound(c) /\ n \in Nat
    BY DEF FitInv, IInv, TypeOK
  <1>2. CASE b = NoBuilder
    BY <1>2, FitDropped
  <1>3. CASE b # NoBuilder
    <2>1. /\ c.call = "push" /\ b.pc = "ready" /\ b.call = "none" /\ b.poisoned = TRUE
          /\ b.draft = c.draft /\ b.firstRow = c.firstRow /\ b.added = c.added
          /\ b.originals = c.originals
      BY <1>3, FailEffect
    <2>2. c # NoBuilder
      BY <2>1, WalkDropped
    <2>3. Drafting(c)
      BY <1>1, <2>1, <2>2 DEF ChainInv, WalkWhole, Sound, CallSound, Drafting
    <2>4. RowsFit(c, Settled(c)) /\ Settled(c) \in Int /\ Settled(c) <= n
      BY <1>1, <2>3 DEF DraftFits, Settled
    <2>5. RowsFit(c, n)
      BY <1>1, <2>4, MoreIds
    <2>6. RowsFit(b, n)
      BY <2>1, <2>5 DEF RowsFit
    <2>7. ~ StagesSegment(builder[p])' /\ Settled(builder[p])' = n
      BY <2>1 DEF Settled, StagesSegment, Staging
    <2>8. RowsFit(builder[p], n)' <=> RowsFit(b, n)
      BY DEF RowsFit, IdsBelow
    <2> HIDE DEF b, c
    <2>9. RowsFit(builder[p], Settled(builder[p]))'
      BY <2>6, <2>7 DEF RowsFit, IdsBelow, b
    <2>10. QED
      BY <2>1, <2>7, <2>9 DEF DraftFits, b
  <1>4. QED
    BY <1>2, <1>3

LEMMA FitMove ==
    ASSUME IInv, IInv', ChainInv, FitInv, NEW p \in Builders,
           BuilderStep(p) \/ BuilderCall(p) \/ FsError(p) \/ Kill(p)
    PROVE  DraftFits(builder[p])'
  <1>1. CASE StageWrite(p) \/ StageSync(p) \/ StageRename(p)
    BY <1>1, FitGoto DEF StageWrite, StageSync, StageRename, At, Staging, Swapping, tables
  <1>2. CASE SwapSync(p) \/ SwapRename(p)
    BY <1>2, FitGoto DEF SwapSync, SwapRename, At, Staging, Swapping, tables
  <1>3. CASE SwapWrite(p)
    <2>1. builder'[p] = NoBuilder \/ Goto(p, "swapSync")
      BY <1>3 DEF SwapWrite, Become, IInv, TypeOK
    <2>2. QED
      BY <1>3, <2>1, FitDropped, FitGoto DEF SwapWrite, At, Staging, Swapping, tables
  <1>4. CASE SwapDir(p)
    <2>1. /\ builder'[p].pc = "walk" /\ builder'[p].call = "tidy"
          /\ builder[p].pc = "swapDir" /\ builder'[p].poisoned = builder[p].poisoned
      BY <1>4, SwapDirEffect DEF SameDraft
    <2>2. ~ Drafting(builder'[p])
      BY <2>1 DEF Drafting, Staging, Swapping
    <2>3. ~ builder[p].poisoned
      BY <2>1 DEF FitInv, DraftFits
    <2>4. QED
      BY <2>1, <2>2, <2>3, FitQuiet
  <1>5. CASE (\E m \in Models : BeginCreate(p, m)) \/ BeginAppend(p)
    <2>1. /\ Blank(builder'[p]) /\ builder'[p].draft.total = 0
          /\ builder'[p].pc \in {"probe", "load"} /\ builder'[p].call # "commit"
      BY <1>5, BeginEffect
    <2>2. ~ Drafting(builder'[p])
      BY <2>1 DEF Drafting, Staging, Swapping
    <2>3. QED
      BY <2>1, <2>2, FitQuiet DEF Blank
  <1>6. CASE CommitRefused(p) \/ DropBuilder(p) \/ Kill(p)
    BY <1>6, DropEffect, FitDropped
  <1>7. CASE Fail(p) /\ UNCHANGED segments
    BY <1>7, FitFail
  <1>8. CASE Walk(p) \/ FsError(p)
    BY <1>7, <1>8, FitCleanup DEF Walk, FsError, tables
  <1>9. CASE StageDir(p) \/ Commit(p) \/ (\E v \in Vectors : Push(p, v))
    BY <1>9, FitStaged, FitCommit, FitPush
  <1>10. CASE Probe(p) \/ AppendLoad(p) \/ List(p) \/ RemoveOrphan(p) \/ CleanupSync(p)
    BY <1>10, FitCleanup, FitCleanedUp
  <1>11. QED
    BY <1>1, <1>2, <1>3, <1>4, <1>5, <1>6, <1>8, <1>9, <1>10 DEF BuilderStep, BuilderCall

\* The rows of segments are only ever added to.
Given ==
    \/ segments' = segments
    \/ \E s \in Seq(Vectors) : segments' = Append(segments, s)

LEMMA GivenStep ==
    ASSUME IInv, [Next]_vars PROVE Given
  <1>1. ASSUME NEW p \in Builders, Commit(p) PROVE Given
    <2>1. builder[p].originals \in Seq(Vectors)
      BY DEF IInv, TypeOK, BuilderRecord
    <2>2. QED
      BY <1>1, <2>1, CommitEffect DEF Given, tables
  <1>2. ASSUME NEW p \in Builders, NEW v \in Vectors, Push(p, v) PROVE Given
    <2>1. Append(builder[p].originals, v) \in Seq(Vectors)
      BY DEF IInv, TypeOK, BuilderRecord
    <2>2. QED
      BY <1>2, <2>1, PushEffect DEF Given
  <1>3. ASSUME NEW p \in Builders, BuilderStep(p) PROVE UNCHANGED segments
    BY <1>3 DEF BuilderStep, Probe, AppendLoad, Walk, List, RemoveOrphan, StageDir,
       CleanupSync, StageWrite, StageSync, StageRename, SwapWrite, SwapSync,
       SwapRename, SwapDir, tables
  <1>4. ASSUME NEW p \in Builders, BuilderCall(p), ~ Commit(p),
               ~ \E v \in Vectors : Push(p, v)
        PROVE  UNCHANGED segments
    BY <1>4 DEF BuilderCall, BeginCreate, BeginAppend, CommitRefused, DropBuilder, tables
  <1>5. ASSUME NEW r \in Readers, ReaderStep(r) PROVE UNCHANGED segments
    BY <1>5 DEF ReaderStep, OpenLock, OpenLoad, OpenSegments, CloseReader, tables
  <1>6. ASSUME NEW p \in Builders, FsError(p) \/ Kill(p) PROVE UNCHANGED segments
    BY <1>6 DEF FsError, Kill, tables
  <1>7. Crash \/ UNCHANGED vars => UNCHANGED segments
    BY DEF Crash, vars, tables
  <1>8. QED
    BY <1>1, <1>2, <1>3, <1>4, <1>5, <1>6, <1>7 DEF Next, Given

LEMMA GivenGrows ==
    ASSUME IInv, Given
    PROVE  /\ Len(segments) \in Nat /\ Len(segments') \in Nat
           /\ Len(segments) <= Len(segments')
           /\ \A i \in 1 .. Len(segments) :
                 i \in DOMAIN segments /\ i \in DOMAIN segments' /\ segments'[i] = segments[i]
  <1>1. segments \in Seq(Seq(Vectors)) /\ Len(segments) \in Nat
        /\ DOMAIN segments = 1 .. Len(segments)
    BY DEF IInv, TypeOK
  <1>2. CASE segments' = segments
    BY <1>1, <1>2
  <1>3. ASSUME NEW s \in Seq(Vectors), segments' = Append(segments, s)
        PROVE  /\ Len(segments') = Len(segments) + 1
               /\ DOMAIN segments' = 1 .. Len(segments) + 1
               /\ \A i \in 1 .. Len(segments) : segments'[i] = segments[i]
    BY <1>1, <1>3
  <1>4. \A i \in 1 .. Len(segments) : i \in 1 .. Len(segments) + 1
    BY <1>1, SMT
  <1>5. QED
    BY <1>1, <1>2, <1>3, <1>4 DEF Given

\* Every manifest that was there, and the one that is sealed, fits.
LEMMA ManifestsFit ==
    ASSUME IInv, IInv', FitInv, Given,
           \/ UNCHANGED manifests
           \/ \E m \in ManifestRecord : /\ manifests' = Append(manifests, m)
                                        /\ ManifestFits(m, Len(segments))
    PROVE  \A h \in DOMAIN manifests' : ManifestFits(manifests'[h], Len(segments'))
  <1>1. \A m : ManifestFits(m, Len(segments)) => ManifestFits(m, Len(segments'))
    BY GivenGrows, MoreIds
  <1>2. CASE UNCHANGED manifests
    BY <1>1, <1>2 DEF FitInv
  <1>3. ASSUME NEW m \in ManifestRecord, manifests' = Append(manifests, m),
               ManifestFits(m, Len(segments)), NEW h \in DOMAIN manifests'
        PROVE  ManifestFits(manifests'[h], Len(segments))
    <2>1. manifests \in Seq(ManifestRecord)
      BY DEF IInv, TypeOK
    <2>2. \/ h \in DOMAIN manifests /\ manifests'[h] = manifests[h]
          \/ manifests'[h] = m
      BY <1>3, <2>1
    <2>3. QED
      BY <1>3, <2>2 DEF FitInv
  <1>4. QED
    BY <1>1, <1>2, <1>3

LEMMA FitInvStep ==
    IInv /\ IInv' /\ ChainInv /\ FitInv /\ [Next]_vars => FitInv'
  <1> SUFFICES ASSUME IInv, IInv', ChainInv, FitInv, [Next]_vars PROVE FitInv'
    OBVIOUS
  <1>1. Given
    BY GivenStep
  <1>2. \/ UNCHANGED manifests
        \/ \E m \in ManifestRecord : /\ manifests' = Append(manifests, m)
                                     /\ ManifestFits(m, Len(segments))
    <2>1. ASSUME NEW p \in Builders, BuilderStep(p), ~ StageDir(p)
          PROVE  UNCHANGED manifests
      BY <2>1 DEF BuilderStep, Probe, AppendLoad, Walk, List, RemoveOrphan,
         CleanupSync, StageWrite, StageSync, StageRename, SwapWrite, SwapSync,
         SwapRename, SwapDir, tables
    <2>2. ASSUME NEW p \in Builders, BuilderCall(p), ~ Commit(p)
          PROVE  UNCHANGED manifests
      BY <2>2 DEF BuilderCall, BeginCreate, BeginAppend, Push, CommitRefused,
         DropBuilder, tables
    <2>3. ASSUME NEW p \in Builders, FsError(p) \/ Kill(p) PROVE UNCHANGED manifests
      BY <2>3 DEF FsError, Kill, tables
    <2>4. UNCHANGED tables => UNCHANGED manifests
      BY DEF tables
    <2>5. QED
      BY <2>1, <2>2, <2>3, <2>4, WhoMoves, FitStaged, FitCommit
  <1>3. (\A h \in DOMAIN manifests : ManifestFits(manifests[h], Len(segments)))'
    <2>1. \A h \in DOMAIN manifests' : ManifestFits(manifests'[h], Len(segments'))
      BY <1>1, <1>2, ManifestsFit
    <2>2. QED
      BY <2>1 DEF ManifestFits, IdsBelow
  <1>4. \A p \in Builders : DraftFits(builder[p])'
    <2>1. CASE UNCHANGED <<disk, tables, builder, acked, mishaps>>
      BY <2>1 DEF FitInv, DraftFits, RowsFit, IdsBelow, Settled, StagesSegment,
         Drafting, tables
    <2>2. QED
      BY <2>1, WhoMoves, FitMove, FitDropped
  <1>5. QED
    BY <1>3, <1>4 DEF FitInv

LEMMA FitInductive == Spec => [](IInv /\ ChainInv /\ CleanInv /\ FitInv)
  <1>1. Init => FitInv
    <2>1. NoBuilder.poisoned = FALSE
      BY DEF NoBuilder
    <2>2. QED
      BY <2>1, WalkDropped DEF Init, FitInv, DraftFits, Drafting, Staging, Swapping
  <1>2. IInv /\ ChainInv /\ CleanInv /\ FitInv /\ [Next]_vars =>
           (IInv /\ ChainInv /\ CleanInv /\ FitInv)'
    BY IInvStep, ChainInvStep, CleanInvStep, FitInvStep
  <1>3. QED
    BY <1>1, <1>2, CleanInductive, PTL DEF Spec

\* A step of a commit, other than its failure, leaves the builder at work.
LEMMA CommitGoesOn ==
    ASSUME IInv, IInv', ChainInv, CleanInv, FitInv, NEW p \in Builders,
           BuilderStep(p), builder[p].call = "commit"
    PROVE  builder'[p].pc # "idle"
  <1> DEFINE c == builder[p]
  <1>1. /\ \A step : Goto(p, step) => builder'[p].pc = step
        /\ Sound(c) /\ DirectoryClean(c)
    BY GotoEffect DEF IInv, CleanInv
  <1>2. c.pc \notin {"probe", "load", "walk", "list", "remove"}
    BY <1>1 DEF Sound, WalkSound, KeepSound, CallSound
  <1>3. CASE StageWrite(p) \/ StageSync(p) \/ StageRename(p) \/ SwapSync(p) \/ SwapRename(p)
    BY <1>1, <1>3 DEF StageWrite, StageSync, StageRename, SwapSync, SwapRename
  <1>4. CASE StageDir(p)
    BY <1>4, FitStaged
  <1>5. CASE SwapDir(p)
    BY <1>5, SwapDirEffect
  <1>6. CASE SwapWrite(p)
    <2>1. CurrentTmp \notin live
      BY <1>1, <1>6 DEF DirectoryClean, Drafting, Swapping, SwapWrite, At
    <2>2. QED
      BY <1>1, <1>6, <2>1 DEF SwapWrite
  <1>7. QED
    BY <1>2, <1>3, <1>4, <1>5, <1>6 DEF BuilderStep, Probe, AppendLoad, Walk, List,
       RemoveOrphan, CleanupSync, At

\* A commit with rows to publish fails only if a file-system call or the
\* process does: nothing push has accepted is refused by commit, no manifest it
\* seals is invalid, and no CURRENT.tmp an earlier builder left is in the way.
THEOREM CommitsFailOnlyOnMishap == Spec => CommitFailsOnlyOnMishap
  <1> DEFINE I == IInv /\ ChainInv /\ CleanInv /\ FitInv
             Holds == \A p \in Builders :
                         Commit(p) \/ builder[p].call = "commit" =>
                             builder'[p].pc # "idle" \/ mishaps' # mishaps
  <1>1. ASSUME I, IInv', [Next]_vars PROVE Holds
    <2> SUFFICES ASSUME NEW p \in Builders, Commit(p) \/ builder[p].call = "commit",
                        mishaps' = mishaps
                 PROVE  builder'[p].pc # "idle"
      OBVIOUS
    <2>1. CASE Commit(p)
      BY <1>1, <2>1, FitCommit
    <2>2. CASE ~ Commit(p) /\ builder[p].call = "commit"
      <3>1. builder[p].pc # "idle" /\ builder[p].pc # "ready"
        <4>1. builder[p] # NoBuilder
          BY <2>2, WalkDropped
        <4>2. builder[p].pc # "idle"
          BY <1>1, <4>1 DEF ChainInv, WalkWhole
        <4>3. QED
          BY <1>1, <2>2, <4>2 DEF IInv, Sound, CallSound
      <3>2. ASSUME NEW q \in Builders,
                   BuilderStep(q) \/ BuilderCall(q) \/ FsError(q) \/ Kill(q)
            PROVE  q = p /\ BuilderStep(p)
        <4>1. \A x \in Builders \ {q} : builder[x].pc = "idle"
          BY <1>1, <3>2, OneBuilderMoves, OthersIdle
        <4>2. q = p
          BY <3>1, <4>1
        <4>3. ~ BuilderCall(p)
          BY <3>1 DEF BuilderCall, BeginCreate, BeginAppend, Push, CommitRefused,
             Commit, DropBuilder, At
        <4>4. ~ FsError(p) /\ ~ Kill(p)
          BY <1>1 DEF FsError, Kill, Mishap, IInv, TypeOK
        <4>5. QED
          BY <3>2, <4>2, <4>3, <4>4
      <3>3. QED
        BY <1>1, <2>2, <3>1, <3>2, WhoMoves, CommitGoesOn
    <2>3. QED
      BY <2>1, <2>2
  <1>2. I /\ I' /\ [Next]_vars => [Holds]_vars
    BY <1>1
  <1>3. []I /\ [][Next]_vars => [][Holds]_vars
    BY <1>2, PTL
  <1>4. Spec => [][Holds]_vars
    BY <1>3, FitInductive, PTL DEF Spec
  <1>5. QED
    BY <1>4 DEF CommitFailsOnlyOnMishap


-----------------------------------------------------------------------------
(* The rows a manifest lists.  FlattenSeq is a recursion over positions; a *)
(* solution of it exists, and any two agree where their arguments do.      *)

FlattensTo(f, s, n) ==
    f = [i \in 1 .. n |-> IF i = 1 THEN s[i] ELSE f[i-1] \o s[i]]

LEMMA FlattenIs ==
    ASSUME NEW s, Len(s) # 0
    PROVE  Seqs!FlattenSeq(s) = (CHOOSE f : FlattensTo(f, s, Len(s)))[Len(s)]
  BY Zenon DEF Seqs!FlattenSeq, FlattensTo

LEMMA FlattensStep ==
    ASSUME NEW s, NEW n \in Nat, NEW f, FlattensTo(f, s, n), NEW i \in 1 .. n
    PROVE  /\ i = 1 => f[i] = s[i]
           /\ i # 1 => /\ f[i] = f[i-1] \o s[i]
                       /\ i - 1 \in 1 .. n /\ i - 1 < i
  <1>1. f[i] = IF i = 1 THEN s[i] ELSE f[i-1] \o s[i]
    BY DEF FlattensTo
  <1>2. i # 1 => i - 1 \in 1 .. n /\ i - 1 < i
    BY SMT
  <1>3. QED
    BY <1>1, <1>2

LEMMA FlattensExist ==
    ASSUME NEW s, NEW n \in Nat
    PROVE  \E f : FlattensTo(f, s, n)
  <1> DEFINE Without == {k \in 0 .. n : ~ \E f : FlattensTo(f, s, k)}
  <1>1. SUFFICES ASSUME Without # {} PROVE FALSE
    <2>1. n \in 0 .. n
      BY SMT
    <2>2. QED
      BY <2>1
  <1>2. PICK k \in Without : \A y \in Without : ~ (y < k)
    <2>1. Without \subseteq Nat
      BY SMT
    <2>2. QED
      BY <1>1, <2>1, LeastNatural
  <1>3. k \in 0 .. n /\ k \in Nat /\ ~ \E f : FlattensTo(f, s, k)
    BY <1>2, SMT
  <1>4. CASE k = 0
    <2> DEFINE f == [i \in 1 .. 0 |-> s]
    <2>1. \A i \in 1 .. 0 : s = IF i = 1 THEN s[i] ELSE f[i-1] \o s[i]
      BY SMT
    <2>2. FlattensTo(f, s, 0)
      BY <2>1 DEF FlattensTo
    <2>3. QED
      BY <1>3, <1>4, <2>2
  <1>5. CASE k # 0
    <2>1. k - 1 \in 0 .. n /\ k - 1 < k /\ k - 1 \in Nat
      BY <1>3, <1>5, SMT
    <2>2. PICK b : FlattensTo(b, s, k - 1)
      BY <1>2, <2>1
    <2> DEFINE e == IF k = 1 THEN s[k] ELSE b[k-1] \o s[k]
               f == [i \in 1 .. k |-> IF i = k THEN e ELSE b[i]]
    <2>3. ASSUME NEW i \in 1 .. k
          PROVE  (IF i = k THEN e ELSE b[i]) = IF i = 1 THEN s[i] ELSE f[i-1] \o s[i]
      <3>1. i # 1 => i - 1 \in 1 .. k /\ i - 1 # k
        BY <1>3, SMT
      <3>2. i # 1 => f[i-1] = b[i-1]
        BY <3>1
      <3>3. i # k => i \in 1 .. k - 1
        BY <1>3, SMT
      <3>4. i # k => b[i] = IF i = 1 THEN s[i] ELSE b[i-1] \o s[i]
        <4>1. ASSUME i # k PROVE /\ i = 1 => b[i] = s[i]
                                 /\ i # 1 => b[i] = b[i-1] \o s[i]
          <5>1. i \in 1 .. k - 1
            BY <3>3, <4>1
          <5>2. b[i] = IF i = 1 THEN s[i] ELSE b[i-1] \o s[i]
            BY <2>2, <5>1 DEF FlattensTo
          <5>3. QED
            BY <5>2
        <4>2. QED
          BY <4>1
      <3> HIDE DEF f
      <3>5. QED
        BY <3>2, <3>4
    <2>4. FlattensTo(f, s, k)
      BY <2>3 DEF FlattensTo
    <2>5. QED
      BY <1>3, <2>4
  <1>6. QED
    BY <1>4, <1>5

LEMMA FlattensAgree ==
    ASSUME NEW s, NEW t, NEW m \in Nat, NEW n \in Nat, NEW f, NEW g,
           FlattensTo(f, s, m), FlattensTo(g, t, n),
           NEW k \in 1 .. m, k \in 1 .. n, \A i \in 1 .. k : s[i] = t[i]
    PROVE  f[k] = g[k]
  <1> DEFINE Bad == {i \in 1 .. k : f[i] # g[i]}
  <1>1. SUFFICES ASSUME Bad # {} PROVE FALSE
    <2>1. k \in 1 .. k
      BY SMT
    <2>2. QED
      BY <2>1
  <1>2. PICK x \in Bad : \A y \in Bad : ~ (y < x)
    <2>1. Bad \subseteq Nat
      BY SMT
    <2>2. QED
      BY <1>1, <2>1, LeastNatural
  <1>3. x \in 1 .. k /\ x \in 1 .. m /\ x \in 1 .. n /\ f[x] # g[x]
    BY <1>2, SMT
  <1>4. /\ x = 1 => f[x] = s[x]
        /\ x # 1 => f[x] = f[x-1] \o s[x]
    <2>1. f[x] = IF x = 1 THEN s[x] ELSE f[x-1] \o s[x]
      BY <1>3 DEF FlattensTo
    <2>2. QED
      BY <2>1
  <1>5. /\ x = 1 => g[x] = t[x]
        /\ x # 1 => g[x] = g[x-1] \o t[x]
    <2>1. g[x] = IF x = 1 THEN t[x] ELSE g[x-1] \o t[x]
      BY <1>3 DEF FlattensTo
    <2>2. QED
      BY <2>1
  <1>6. x # 1
    BY <1>3, <1>4, <1>5
  <1>7. x - 1 \in 1 .. k /\ x - 1 < x
    BY <1>3, <1>6, SMT
  <1>8. f[x-1] = g[x-1]
    BY <1>2, <1>7
  <1>9. QED
    BY <1>3, <1>4, <1>5, <1>6, <1>8

LEMMA FlattensType ==
    ASSUME NEW V, NEW n \in Nat, NEW s, \A i \in 1 .. n : s[i] \in Seq(V),
           NEW f, FlattensTo(f, s, n), NEW k \in 1 .. n
    PROVE  f[k] \in Seq(V)
  <1> DEFINE Bad == {i \in 1 .. n : f[i] \notin Seq(V)}
  <1>1. SUFFICES ASSUME Bad # {} PROVE FALSE
    OBVIOUS
  <1>2. PICK x \in Bad : \A y \in Bad : ~ (y < x)
    <2>1. Bad \subseteq Nat
      BY SMT
    <2>2. QED
      BY <1>1, <2>1, LeastNatural
  <1>3. x \in 1 .. n /\ f[x] \notin Seq(V)
    BY <1>2
  <1>4. /\ x = 1 => f[x] = s[x]
        /\ x # 1 => /\ f[x] = f[x-1] \o s[x]
                    /\ x - 1 \in 1 .. n /\ x - 1 < x
    BY <1>3, FlattensStep
  <1>5. x # 1
    BY <1>3, <1>4
  <1>6. f[x-1] \in Seq(V)
    BY <1>2, <1>4, <1>5
  <1>7. QED
    BY <1>3, <1>4, <1>5, <1>6, ConcatProperties

\* FlattenSeq of a sequence of sequences is one sequence, and a sequence more
\* goes behind it.
LEMMA FlattenAppends ==
    ASSUME NEW V, NEW s \in Seq(Seq(V))
    PROVE  /\ Seqs!FlattenSeq(s) \in Seq(V)
           /\ s = <<>> => Seqs!FlattenSeq(s) = <<>>
           /\ \A x \in Seq(V) :
                 Seqs!FlattenSeq(Append(s, x)) = Seqs!FlattenSeq(s) \o x
  <1>1. Len(s) \in Nat /\ \A i \in 1 .. Len(s) : s[i] \in Seq(V)
    OBVIOUS
  <1>2. Len(s) = 0 => s = <<>>
    OBVIOUS
  <1>3. ASSUME NEW t, NEW k \in Nat, k # 0, Len(t) = k
        PROVE  \E f : FlattensTo(f, t, k) /\ Seqs!FlattenSeq(t) = f[k]
    <2>1. FlattensTo(CHOOSE f : FlattensTo(f, t, k), t, k)
      BY FlattensExist
    <2>2. QED
      BY <1>3, <2>1, FlattenIs
  <1>4. s = <<>> => Seqs!FlattenSeq(s) = <<>>
    BY DEF Seqs!FlattenSeq
  <1>5. Seqs!FlattenSeq(s) \in Seq(V)
    <2>1. CASE Len(s) = 0
      <3>1. <<>> \in Seq(V)
        OBVIOUS
      <3>2. QED
        BY <1>2, <1>4, <2>1, <3>1
    <2>2. CASE Len(s) # 0
      <3>1. PICK f : FlattensTo(f, s, Len(s)) /\ Seqs!FlattenSeq(s) = f[Len(s)]
        BY <1>1, <1>3, <2>2
      <3>2. Len(s) \in 1 .. Len(s)
        BY <1>1, <2>2, SMT
      <3>3. QED
        BY <1>1, <3>1, <3>2, FlattensType
    <2>3. QED
      BY <2>1, <2>2
  <1>6. ASSUME NEW x \in Seq(V)
        PROVE  Seqs!FlattenSeq(Append(s, x)) = Seqs!FlattenSeq(s) \o x
    <2> DEFINE t == Append(s, x)
               k == Len(s) + 1
    <2>1. /\ Len(t) = k /\ t[k] = x /\ \A i \in 1 .. Len(s) : t[i] = s[i]
          /\ k \in Nat /\ k # 0 /\ k \in 1 .. k
      BY <1>1
    <2> HIDE DEF t
    <2>2. PICK f : FlattensTo(f, t, k) /\ Seqs!FlattenSeq(t) = f[k]
      BY <1>3, <2>1
    <2>3. /\ k = 1 => f[k] = t[k]
          /\ k # 1 => f[k] = f[k-1] \o t[k]
      <3> DEFINE j == k
      <3>1. j \in 1 .. k
        BY <2>1
      <3> HIDE DEF j
      <3>2. f[j] = IF j = 1 THEN t[j] ELSE f[j-1] \o t[j]
        BY <2>2, <3>1 DEF FlattensTo
      <3>3. QED
        BY <3>2 DEF j
    <2>4. CASE Len(s) = 0
      <3>1. f[k] = x
        BY <2>1, <2>3, <2>4
      <3>2. <<>> \o x = x
        BY ConcatEmptySeq
      <3>3. QED
        BY <1>2, <1>4, <2>2, <2>4, <3>1, <3>2 DEF t
    <2>5. CASE Len(s) # 0
      <3>1. PICK g : FlattensTo(g, s, Len(s)) /\ Seqs!FlattenSeq(s) = g[Len(s)]
        BY <1>1, <1>3, <2>5
      <3>2. k # 1 /\ k - 1 = Len(s) /\ Len(s) \in 1 .. Len(s) /\ Len(s) \in 1 .. k
        BY <1>1, <2>5, SMT
      <3>3. f[Len(s)] = g[Len(s)]
        <4> DEFINE n == Len(s)
        <4>1. n \in 1 .. n /\ n \in 1 .. k /\ \A i \in 1 .. n : s[i] = t[i]
          BY <2>1, <3>2
        <4>2. FlattensTo(f, t, k) /\ FlattensTo(g, s, n) /\ k \in Nat /\ n \in Nat
          BY <1>1, <2>1, <2>2, <3>1
        <4> HIDE DEF n
        <4>3. g[n] = f[n]
          BY <4>1, <4>2, FlattensAgree
        <4>4. QED
          BY <4>3 DEF n
      <3>4. QED
        BY <2>1, <2>2, <2>3, <3>1, <3>2, <3>3 DEF t
    <2>6. QED
      BY <2>4, <2>5
  <1>7. QED
    BY <1>4, <1>5, <1>6

\* RowsOf as a function of the segments.
RowsIn(m, segs) ==
    Seqs!FlattenSeq([i \in DOMAIN m.segments |-> segs[m.segments[i].id]])

LEMMA RowsOfIsRowsIn ==
    \A m : RowsOf(m) = RowsIn(m, segments) /\ RowsOf(m)' = RowsIn(m, segments')
  BY DEF RowsOf, RowsIn

LEMMA RowsInFacts ==
    ASSUME NEW segs \in Seq(Seq(Vectors)), NEW m, m.segments \in Seq(SegmentEntry),
           IdsBelow(m, Len(segs))
    PROVE  /\ RowsIn(m, segs) \in Seq(Vectors)
           /\ m.segments = <<>> => RowsIn(m, segs) = <<>>
           /\ \A k : k.segments = m.segments => RowsIn(k, segs) = RowsIn(m, segs)
           /\ \A k, e : k.segments = Append(m.segments, e) /\ e.id \in 1 .. Len(segs)
                 => RowsIn(k, segs) = RowsIn(m, segs) \o segs[e.id]
  <1> DEFINE s == m.segments
             f == [i \in DOMAIN s |-> segs[s[i].id]]
  <1>1. /\ Len(s) \in Nat /\ DOMAIN s = 1 .. Len(s)
        /\ \A j \in 1 .. Len(segs) : segs[j] \in Seq(Vectors)
    OBVIOUS
  <1>2. \A i \in 1 .. Len(s) : segs[s[i].id] \in Seq(Vectors)
    BY <1>1 DEF IdsBelow
  <1>3. f \in Seq(Seq(Vectors)) /\ Len(f) = Len(s)
    <2>1. f \in [1 .. Len(s) -> Seq(Vectors)]
      BY <1>1, <1>2
    <2>2. QED
      BY <1>1, <2>1
  <1>4. s = <<>> => f = <<>>
    BY <1>3
  <1>5. ASSUME NEW k, NEW e, k.segments = Append(s, e), e.id \in 1 .. Len(segs)
        PROVE  [i \in DOMAIN k.segments |-> segs[k.segments[i].id]]
                  = Append(f, segs[e.id])
    <2> DEFINE t == Append(s, e)
               h == Append(f, segs[e.id])
               g == [i \in DOMAIN t |-> segs[t[i].id]]
    <2>1. /\ DOMAIN t = 1 .. Len(s) + 1 /\ t[Len(s) + 1] = e
          /\ \A i \in 1 .. Len(s) : t[i] = s[i]
      BY <1>1
    <2>2. /\ h \in Seq(Seq(Vectors)) /\ DOMAIN h = 1 .. Len(s) + 1
          /\ h[Len(s) + 1] = segs[e.id]
          /\ \A i \in 1 .. Len(s) : h[i] = f[i]
      BY <1>1, <1>3, <1>5
    <2>3. \A i \in 1 .. Len(s) : f[i] = segs[s[i].id]
      BY <1>1
    <2> HIDE DEF h, t, f, s
    <2>4. ASSUME NEW i \in 1 .. Len(s) + 1 PROVE segs[t[i].id] = h[i]
      <3>1. i \in 1 .. Len(s) \/ i = Len(s) + 1
        BY <1>1, SMT
      <3>2. QED
        BY <2>1, <2>2, <2>3, <3>1
    <2>5. h = [i \in 1 .. Len(s) + 1 |-> h[i]]
      BY <2>2
    <2>6. g = h
      BY <2>1, <2>4, <2>5
    <2>7. QED
      BY <1>5, <2>6 DEF h, t
  <1>6. RowsIn(m, segs) = Seqs!FlattenSeq(f)
    BY DEF RowsIn
  <1>7. \A k : k.segments = s => RowsIn(k, segs) = RowsIn(m, segs)
    BY DEF RowsIn
  <1>8. ASSUME NEW k, NEW e, k.segments = Append(s, e), e.id \in 1 .. Len(segs)
        PROVE  RowsIn(k, segs) = RowsIn(m, segs) \o segs[e.id]
    <2> DEFINE g == [i \in DOMAIN k.segments |-> segs[k.segments[i].id]]
    <2>1. g = Append(f, segs[e.id])
      BY <1>5, <1>8
    <2>2. f \in Seq(Seq(Vectors)) /\ segs[e.id] \in Seq(Vectors)
      BY <1>1, <1>3, <1>8
    <2>3. Seqs!FlattenSeq(Append(f, segs[e.id])) = Seqs!FlattenSeq(f) \o segs[e.id]
      BY <2>2, FlattenAppends
    <2>4. RowsIn(k, segs) = Seqs!FlattenSeq(g)
      BY DEF RowsIn
    <2> HIDE DEF g
    <2>5. QED
      BY <1>6, <2>1, <2>3, <2>4
  <1>9. QED
    BY <1>3, <1>4, <1>6, <1>7, <1>8, FlattenAppends

\* What a manifest lists is not changed by giving out more segments.
LEMMA RowsInStays ==
    ASSUME NEW segs, NEW more, NEW n \in Nat, NEW m, IdsBelow(m, n),
           \A i \in 1 .. n : more[i] = segs[i]
    PROVE  RowsIn(m, more) = RowsIn(m, segs)
  <1>1. \A i \in DOMAIN m.segments : more[m.segments[i].id] = segs[m.segments[i].id]
    BY DEF IdsBelow
  <1>2. [i \in DOMAIN m.segments |-> more[m.segments[i].id]]
          = [i \in DOMAIN m.segments |-> segs[m.segments[i].id]]
    BY <1>1
  <1>3. QED
    BY <1>2 DEF RowsIn


-----------------------------------------------------------------------------
(* RowInv.  The rows of the published generation do not change while a     *)
(* draft extends it, so both sides of the account can be read off b.       *)

PublishedRows ==
    IF current = NoHash THEN <<>> ELSE RowsIn(manifests[current], segments)

DraftRows(b, base, segs) ==
    /\ RowsIn(b.draft, segs) \o b.originals = base \o TakenRows(b)
    /\ Len(TakenRows(b)) = b.added
    /\ StagesSegment(b) => segs[b.target.id] = b.originals
    /\ Sealing(b) => b.originals = <<>>

LEMMA PublishedRowsStay ==
    ASSUME IInv, ChainInv, FitInv, Extended, Given
    PROVE  /\ PublishedRows \in Seq(Vectors)
           /\ \A h \in DOMAIN manifests : /\ RowsIn(manifests[h], segments) \in Seq(Vectors)
                                          /\ RowsIn(manifests'[h], segments')
                                                = RowsIn(manifests[h], segments)
           /\ current' = current => PublishedRows' = PublishedRows
           /\ \A m : IdsBelow(m, Len(segments)) =>
                 RowsIn(m, segments') = RowsIn(m, segments)
  <1> DEFINE n == Len(segments)
  <1>1. /\ segments \in Seq(Seq(Vectors)) /\ n \in Nat
        /\ \A i \in 1 .. n : segments'[i] = segments[i]
    BY GivenGrows DEF IInv, TypeOK
  <1>2. \A m : IdsBelow(m, n) => RowsIn(m, segments') = RowsIn(m, segments)
    BY <1>1, RowsInStays
  <1>3. \A h \in DOMAIN manifests :
           /\ manifests[h] \in ManifestRecord /\ IdsBelow(manifests[h], n)
           /\ manifests'[h] = manifests[h]
    <2>1. Grows /\ manifests \in Seq(ManifestRecord)
      BY ExtendedGrows DEF ChainInv, IInv, TypeOK
    <2>2. QED
      BY <2>1 DEF Grows, FitInv, ManifestFits
  <1>4. ASSUME NEW h \in DOMAIN manifests
        PROVE  RowsIn(manifests[h], segments) \in Seq(Vectors)
    <2>1. manifests[h].segments \in Seq(SegmentEntry) /\ IdsBelow(manifests[h], n)
      BY <1>3 DEF ManifestRecord
    <2>2. QED
      BY <1>1, <2>1, RowsInFacts
  <1>5. current # NoHash => current \in DOMAIN manifests
    BY CurrentNamed
  <1>6. <<>> \in Seq(Vectors)
    OBVIOUS
  <1>7. QED
    BY <1>2, <1>3, <1>4, <1>5, <1>6 DEF PublishedRows

\* A builder's draft before the step, and what is to be shown of it after.
LEMMA RowsHeld ==
    ASSUME IInv, ChainInv, FitInv, RowInv, NEW p \in Builders,
           Drafting(builder[p]), ~ builder[p].poisoned
    PROVE  /\ DraftRows(builder[p], PublishedRows, segments)
           /\ RowsIn(builder[p].draft, segments) \in Seq(Vectors)
           /\ builder[p].originals \in Seq(Vectors)
           /\ TakenRows(builder[p]) \in Seq(Vectors)
           /\ builder[p].draft.segments \in Seq(SegmentEntry)
           /\ IdsBelow(builder[p].draft, Settled(builder[p]))
           /\ IdsBelow(builder[p].draft, Len(segments))
           /\ builder[p].draft.previous = current
  <1> DEFINE c == builder[p]
  <1>1. /\ c \in BuilderRecord /\ segments \in Seq(Seq(Vectors)) /\ Len(segments) \in Nat
        /\ RowsKept(c) /\ DraftFits(c) /\ Sound(c)
    BY DEF IInv, TypeOK, FitInv, RowInv
  <1>2. c.draft.previous = current
    BY <1>1 DEF Sound, DraftSound, Drafting, Staging, Swapping
  <1>3. BaseRows(c) = PublishedRows
    BY <1>2, RowsOfIsRowsIn DEF BaseRows, PublishedRows
  <1>4. /\ IdsBelow(c.draft, Settled(c)) /\ Settled(c) \in Int
        /\ Settled(c) <= Len(segments)
    BY <1>1 DEF DraftFits, RowsFit, Settled
  <1>5. IdsBelow(c.draft, Len(segments))
    BY <1>1, <1>4, MoreIds
  <1>6. c.originals \in Seq(Vectors) /\ c.draft.segments \in Seq(SegmentEntry)
    BY <1>1, FitTypes
  <1>7. TakenRows(c) \in Seq(Vectors)
    <2>1. c.pushed \in Seq(Vectors)
      BY <1>1 DEF BuilderRecord
    <2>2. ASSUME c.call = "push" PROVE c.originals[Len(c.originals)] \in Vectors
      <3>1. c.originals # <<>>
        <4>1. StagesSegment(c)
          BY <1>1, <2>2 DEF Sound, CallSound, StageSound, StagesSegment, Drafting, Staging,
             Swapping
        <4>2. QED
          BY <1>1, <4>1 DEF Sound, RowsSound, StagesSegment, Staging
      <3>2. Len(c.originals) \in 1 .. Len(c.originals)
        BY <1>6, <3>1
      <3>3. QED
        BY <1>6, <3>2
    <2>3. c.call = "push" => TakenRows(c) \in Seq(Vectors)
      BY <2>1, <2>2 DEF TakenRows
    <2>4. QED
      BY <2>1, <2>3 DEF TakenRows
  <1>8. RowsIn(c.draft, segments) \in Seq(Vectors)
    BY <1>1, <1>5, <1>6, RowsInFacts
  <1>9. DraftRows(c, PublishedRows, segments)
    BY <1>1, <1>3, RowsOfIsRowsIn DEF RowsKept, DraftRows
  <1>10. QED
    BY <1>2, <1>4, <1>5, <1>6, <1>7, <1>8, <1>9

LEMMA RowsDrafted ==
    ASSUME IInv', NEW p \in Builders,
           Drafting(builder'[p]) /\ ~ builder'[p].poisoned =>
               DraftRows(builder'[p], PublishedRows', segments')
    PROVE  RowsKept(builder[p])'
  <1> DEFINE b == builder'[p]
  <1>1. /\ Drafting(builder[p])' <=> Drafting(b)
        /\ StagesSegment(builder[p])' <=> StagesSegment(b)
        /\ Sealing(builder[p])' <=> Sealing(b)
        /\ TakenRows(builder[p])' = TakenRows(b)
    BY DEF Drafting, StagesSegment, Sealing, TakenRows
  <1>2. CASE ~ Drafting(b) \/ b.poisoned
    BY <1>1, <1>2 DEF RowsKept
  <1>3. CASE Drafting(b) /\ ~ b.poisoned
    <2>1. b.draft.previous = current'
      <3>1. Sound(builder[p])'
        BY DEF IInv
      <3>2. QED
        BY <1>1, <1>3, <3>1 DEF Sound, DraftSound, Drafting, Staging, Swapping
    <2>2. BaseRows(builder[p])' = PublishedRows'
      BY <2>1 DEF BaseRows, PublishedRows, RowsIn, RowsOf
    <2>3. RowsOf(builder[p].draft)' = RowsIn(b.draft, segments')
      BY DEF RowsOf, RowsIn
    <2>4. DraftRows(b, PublishedRows', segments')
      BY <1>3
    <2> HIDE DEF b
    <2>5. /\ RowsOf(builder[p].draft)' \o b.originals = BaseRows(builder[p])' \o TakenRows(b)
          /\ Len(TakenRows(b)) = b.added
          /\ StagesSegment(b) => segments'[b.target.id] = b.originals
          /\ Sealing(b) => b.originals = <<>>
      BY <2>2, <2>3, <2>4 DEF DraftRows
    <2>6. QED
      BY <1>1, <2>5 DEF RowsKept, b
  <1>4. QED
    BY <1>2, <1>3

LEMMA RowsIdle ==
    ASSUME IInv', NEW p \in Builders, ~ Drafting(builder'[p]) \/ builder'[p].poisoned
    PROVE  RowsKept(builder[p])'
  BY RowsDrafted

\* A step that changes neither the draft nor what is done with it.
LEMMA RowsSame ==
    ASSUME IInv, IInv', ChainInv, FitInv, RowInv, NEW p \in Builders,
           SameDraft(builder'[p], builder[p]), builder'[p].call = builder[p].call,
           Drafting(builder[p]),
           Sealing(builder'[p]) => Sealing(builder[p]),
           StagesSegment(builder'[p]) => /\ StagesSegment(builder[p])
                                         /\ builder'[p].target.id = builder[p].target.id,
           UNCHANGED tables, UNCHANGED current
    PROVE  RowsKept(builder[p])'
  <1> DEFINE c == builder[p]
             b == builder'[p]
  <1>1. SUFFICES ASSUME ~ b.poisoned
                 PROVE  DraftRows(b, PublishedRows', segments')
    BY RowsDrafted
  <1>2. DraftRows(c, PublishedRows, segments)
    BY <1>1, RowsHeld DEF SameDraft
  <1>3. PublishedRows' = PublishedRows /\ segments' = segments
    BY DEF PublishedRows, tables
  <1>4. TakenRows(b) = TakenRows(c)
    BY DEF TakenRows, SameDraft
  <1> HIDE DEF b, c
  <1>5. QED
    BY <1>2, <1>3, <1>4 DEF DraftRows, SameDraft, b, c


\* A row taken goes behind both sides of the account.
LEMMA AppendBehind ==
    ASSUME NEW r \in Seq(Vectors), NEW o \in Seq(Vectors), NEW v \in Vectors
    PROVE  r \o Append(o, v) = (r \o o) \o <<v>>
  <1>1. <<v>> \in Seq(Vectors)
    OBVIOUS
  <1>2. Append(o, v) = o \o <<v>>
    BY AppendIsConcat
  <1>3. (r \o o) \o <<v>> = r \o (o \o <<v>>)
    BY <1>1, ConcatAssociative
  <1>4. QED
    BY <1>2, <1>3

\* push adds the row, to the originals or to the segment made of them.
LEMMA RowsPush ==
    ASSUME IInv, IInv', ChainInv, FitInv, RowInv, NEW p \in Builders,
           NEW v \in Vectors, Push(p, v), Extended, Given
    PROVE  RowsKept(builder[p])'
  <1> DEFINE c == builder[p]
             b == builder'[p]
             o == Append(c.originals, v)
             n == Len(segments)
  <1>1. /\ c.pc = "ready" /\ ~ c.poisoned /\ b.draft = c.draft /\ b.poisoned = c.poisoned
        /\ b.added = c.added + 1 /\ b.originals = o /\ UNCHANGED current
    BY PushEffect DEF disk
  <1>2. /\ c \in BuilderRecord /\ segments \in Seq(Seq(Vectors)) /\ n \in Nat
        /\ Sound(c)
    BY DEF IInv, TypeOK
  <1>3. /\ DraftRows(c, PublishedRows, segments)
        /\ RowsIn(c.draft, segments) \in Seq(Vectors)
        /\ c.originals \in Seq(Vectors) /\ TakenRows(c) \in Seq(Vectors)
        /\ IdsBelow(c.draft, n)
    BY <1>1, RowsHeld DEF Drafting
  <1>4. /\ PublishedRows' = PublishedRows /\ PublishedRows \in Seq(Vectors)
        /\ RowsIn(c.draft, segments') = RowsIn(c.draft, segments)
    BY <1>1, <1>3, PublishedRowsStay
  <1>5. TakenRows(c) = c.pushed /\ c.pushed \in Seq(Vectors) /\ c.call = "none"
    BY <1>1, <1>2 DEF Sound, CallSound, TakenRows, BuilderRecord
  <1>6. o \in Seq(Vectors) /\ o[Len(o)] = v
    BY <1>3
  <1>7. TakenRows(b) = Append(c.pushed, v)
    <2>1. CASE b.pc = "stageWrite"
      BY <1>1, <1>6, <2>1, PushEffect DEF TakenRows
    <2>2. CASE b.pc # "stageWrite"
      BY <1>5, <2>2, PushEffect DEF TakenRows
    <2>3. QED
      BY <2>1, <2>2
  <1>8. RowsIn(b.draft, segments') \o b.originals = PublishedRows' \o TakenRows(b)
    <2>1. RowsIn(c.draft, segments) \o c.originals = PublishedRows \o c.pushed
      BY <1>3, <1>5 DEF DraftRows
    <2>2. RowsIn(c.draft, segments) \o o = PublishedRows \o Append(c.pushed, v)
      <3> DEFINE r == RowsIn(c.draft, segments)
                 q == PublishedRows
                 u == c.originals
                 t == c.pushed
      <3>1. /\ r \in Seq(Vectors) /\ u \in Seq(Vectors) /\ q \in Seq(Vectors)
            /\ t \in Seq(Vectors) /\ r \o u = q \o t
        BY <1>3, <1>4, <1>5, <2>1
      <3> HIDE DEF r, q, u, t
      <3>2. r \o Append(u, v) = q \o Append(t, v)
        <4>1. r \o Append(u, v) = (r \o u) \o <<v>>
          BY <3>1, AppendBehind, Zenon
        <4>2. q \o Append(t, v) = (q \o t) \o <<v>>
          BY <3>1, AppendBehind, Zenon
        <4>3. QED
          BY <3>1, <4>1, <4>2, Zenon
      <3>3. QED
        BY <3>2 DEF r, q, u, t
    <2>3. QED
      BY <1>1, <1>4, <1>7, <2>2
  <1>9. Len(TakenRows(b)) = b.added
    <2>1. Len(c.pushed) = c.added
      BY <1>3, <1>5 DEF DraftRows
    <2>2. QED
      BY <1>1, <1>5, <1>7, <2>1
  <1>10. StagesSegment(b) => segments'[b.target.id] = b.originals
    <2>1. b.pc = "ready" => ~ StagesSegment(b)
      BY DEF StagesSegment, Staging
    <2>2. CASE b.pc = "stageWrite"
      <3>1. b.target.id = n + 1 /\ segments' = Append(segments, b.originals)
        BY <1>1, <2>2, PushEffect DEF File
      <3>2. QED
        BY <1>2, <3>1
    <2>3. QED
      BY <2>1, <2>2, PushEffect
  <1>11. ~ Sealing(b)
    <2>1. b.pc = "ready" \/ (b.pc = "stageWrite" /\ b.target.kind = "primary")
      BY PushEffect DEF File
    <2>2. QED
      BY <2>1 DEF Sealing, Staging, Swapping
  <1> HIDE DEF b, c
  <1>12. DraftRows(b, PublishedRows', segments')
    BY <1>8, <1>9, <1>10, <1>11 DEF DraftRows
  <1>13. QED
    BY <1>12, RowsDrafted DEF b

\* A manifest is sealed of a builder whose rows are all in segments.
LEMMA RowsSealed ==
    ASSUME IInv, IInv', ChainInv, FitInv, NEW p \in Builders, NEW c \in BuilderRecord,
           SealManifest(p, c), UNCHANGED <<segments, current>>, Extended, Given,
           RowsIn(c.draft, segments) = PublishedRows \o c.pushed,
           RowsIn(c.draft, segments) \in Seq(Vectors),
           Len(c.pushed) = c.added, c.originals = <<>>
    PROVE  RowsKept(builder[p])'
  <1> DEFINE b == builder'[p]
  <1>1. CASE b = NoBuilder
    BY <1>1, WalkDropped, RowsIdle DEF Drafting, Staging, Swapping
  <1>2. CASE b # NoBuilder
    <2>1. /\ b.pc = "stageWrite" /\ b.call = "commit" /\ b.draft = Sealed(c)
          /\ b.target = File("manifest", Len(manifests) + 1)
          /\ b.added = c.added /\ b.originals = c.originals /\ b.pushed = c.pushed
      BY <1>2, SealEffect
    <2>2. b.draft.segments = c.draft.segments
      BY <2>1 DEF Sealed, BuilderRecord, ManifestRecord
    <2>3. RowsIn(b.draft, segments) = RowsIn(c.draft, segments)
      BY <2>2 DEF RowsIn
    <2>4. PublishedRows' = PublishedRows /\ segments' = segments
      BY PublishedRowsStay
    <2>5. TakenRows(b) = c.pushed
      BY <2>1 DEF TakenRows
    <2>6. ~ StagesSegment(b)
      BY <2>1 DEF StagesSegment, File
    <2>7. RowsIn(c.draft, segments) \o <<>> = RowsIn(c.draft, segments)
      BY ConcatEmptySeq
    <2> HIDE DEF b
    <2>8. DraftRows(b, PublishedRows', segments')
      BY <2>1, <2>3, <2>4, <2>5, <2>6, <2>7 DEF DraftRows
    <2>9. QED
      BY <2>8, RowsDrafted DEF b
  <1>3. QED
    BY <1>1, <1>2

LEMMA RowsCommit ==
    ASSUME IInv, IInv', ChainInv, FitInv, RowInv, NEW p \in Builders, Commit(p),
           Extended, Given
    PROVE  RowsKept(builder[p])'
  <1> DEFINE c == builder[p]
             b == builder'[p]
             n == Len(segments)
  <1>1. c.pc = "ready" /\ ~ c.poisoned /\ UNCHANGED current
    BY CommitEffect DEF disk
  <1>2. c \in BuilderRecord /\ segments \in Seq(Seq(Vectors)) /\ n \in Nat /\ Sound(c)
    BY DEF IInv, TypeOK
  <1>3. /\ DraftRows(c, PublishedRows, segments)
        /\ RowsIn(c.draft, segments) \in Seq(Vectors)
        /\ c.originals \in Seq(Vectors) /\ IdsBelow(c.draft, n)
    BY <1>1, RowsHeld DEF Drafting
  <1>4. TakenRows(c) = c.pushed
    BY <1>1, <1>2 DEF Sound, CallSound, TakenRows
  <1>5. CASE b = NoBuilder
    BY <1>5, WalkDropped, RowsIdle DEF Drafting, Staging, Swapping
  <1>6. CASE c.originals = <<>>
    <2>1. SealManifest(p, c) /\ UNCHANGED segments
      BY <1>6, CommitEffect
    <2>2. RowsIn(c.draft, segments) \o <<>> = RowsIn(c.draft, segments)
      BY <1>3, ConcatEmptySeq
    <2>3. RowsIn(c.draft, segments) = PublishedRows \o c.pushed /\ Len(c.pushed) = c.added
      BY <1>3, <1>4, <1>6, <2>2 DEF DraftRows
    <2>4. QED
      BY <1>1, <1>2, <1>3, <1>6, <2>1, <2>3, RowsSealed
  <1>7. CASE c.originals # <<>> /\ b # NoBuilder
    <2>1. /\ segments' = Append(segments, c.originals)
          /\ b.pc = "stageWrite" /\ b.call = "commit" /\ SameDraft(b, c)
          /\ b.target = File("primary", n + 1)
      BY <1>7, CommitEffect
    <2>2. /\ PublishedRows' = PublishedRows
          /\ RowsIn(c.draft, segments') = RowsIn(c.draft, segments)
      BY <1>1, <1>3, PublishedRowsStay
    <2>3. TakenRows(b) = TakenRows(c)
      BY <1>4, <2>1 DEF TakenRows, SameDraft
    <2>4. segments'[n + 1] = c.originals /\ b.target.id = n + 1
      BY <1>2, <1>3, <2>1 DEF File
    <2>5. ~ Sealing(b)
      BY <2>1 DEF Sealing, Staging, Swapping, File
    <2> HIDE DEF b, c
    <2>6. DraftRows(b, PublishedRows', segments')
      BY <1>3, <2>1, <2>2, <2>3, <2>4, <2>5 DEF DraftRows, SameDraft
    <2>7. QED
      BY <2>6, RowsDrafted DEF b
  <1>8. QED
    BY <1>5, <1>6, <1>7

\* A model's stage leads to a first draft, without rows to extend.
LEMMA RowsCreated ==
    ASSUME IInv, IInv', ChainInv, FitInv, RowInv, NEW p \in Builders, StageDir(p),
           builder[p].target.kind = "model", Extended, Given
    PROVE  RowsKept(builder[p])'
  <1> DEFINE c == builder[p]
             b == builder'[p]
  <1>1. /\ b.pc = "ready" /\ b.call = "none" /\ b.draft = [c.draft EXCEPT !.generation = 1]
        /\ b.added = c.added /\ b.originals = c.originals /\ b.pushed = c.pushed
        /\ c.pc = "stageDir" /\ UNCHANGED segments /\ FsSyncDir
    BY StageDirEffect
  <1>2. /\ c \in BuilderRecord /\ Sound(c) /\ DraftFits(c)
        /\ segments \in Seq(Seq(Vectors)) /\ Len(segments) \in Nat
    BY DEF IInv, TypeOK, FitInv
  <1>3. c.call = "create"
    BY <1>1, <1>2 DEF Sound, StageSound, Staging
  <1>4. /\ c.added = 0 /\ c.originals = <<>> /\ c.pushed = <<>> /\ c.draft.segments = <<>>
        /\ current = NoHash
    BY <1>1, <1>2, <1>3 DEF DraftFits, Sound, CallSound
  <1>5. b.draft.segments = <<>>
    BY <1>1, <1>2, <1>4 DEF BuilderRecord, ManifestRecord
  <1>6. RowsIn(b.draft, segments) = <<>>
    <2>1. IdsBelow(b.draft, Len(segments))
      BY <1>5 DEF IdsBelow
    <2>2. b.draft.segments \in Seq(SegmentEntry)
      BY <1>5
    <2>3. QED
      BY <1>2, <1>5, <2>1, <2>2, RowsInFacts
  <1>7. PublishedRows' = <<>>
    BY <1>1, <1>4 DEF FsSyncDir, PublishedRows
  <1>8. TakenRows(b) = <<>>
    BY <1>1, <1>4 DEF TakenRows
  <1>9. ~ Sealing(b) /\ ~ StagesSegment(b)
    BY <1>1 DEF Sealing, StagesSegment, Staging, Swapping
  <1>10. Len(<<>>) = 0
    OBVIOUS
  <1> HIDE DEF b, c
  <1>11. DraftRows(b, PublishedRows', segments')
    BY <1>1, <1>4, <1>6, <1>7, <1>8, <1>9, <1>10 DEF DraftRows
  <1>12. QED
    BY <1>11, RowsDrafted DEF b

\* append's draft lists what it loaded, and no row has been taken.
LEMMA RowsAppended ==
    ASSUME IInv, IInv', ChainInv, FitInv, RowInv, NEW p \in Builders, CleanupSync(p),
           Extended, Given
    PROVE  RowsKept(builder[p])'
  <1> DEFINE c == builder[p]
             b == builder'[p]
  <1>1. c.pc = "remove" /\ UNCHANGED <<segments, current>> /\ Sound(c) /\ DraftFits(c)
    BY CleanupSyncEffect DEF IInv, FitInv, tables, FsSyncDir
  <1>2. CASE ~ Drafting(b)
    BY <1>2, RowsIdle
  <1>3. CASE Drafting(b)
    <2>1. /\ c.call = "append" /\ b.call = "none" /\ b.pc = "ready"
          /\ b.draft = Successor(c.draft) /\ b.added = c.added
          /\ b.originals = c.originals /\ b.pushed = c.pushed
      <3>1. ~ (b.pc = "stageWrite" /\ b.target = File("model", c.draft.model))
        BY <1>3 DEF Drafting, Staging, Swapping, File
      <3>2. b # NoBuilder
        BY <1>3, WalkDropped DEF Drafting, Staging, Swapping
      <3>3. QED
        BY <3>1, <3>2, CleanupSyncEffect
    <2>2. /\ c.added = 0 /\ c.originals = <<>> /\ c.pushed = <<>>
          /\ current \in DOMAIN manifests /\ c.draft = manifests[current]
      BY <1>1, <2>1 DEF Sound, CallSound, DraftFits
    <2>3. c.draft \in ManifestRecord /\ current # NoHash
      BY <2>2, CurrentNamed DEF NoHash
    <2>4. b.draft.segments = c.draft.segments
      BY <2>1, <2>3 DEF Successor, ManifestRecord
    <2>5. /\ PublishedRows' = PublishedRows
          /\ RowsIn(b.draft, segments) = PublishedRows
      BY <1>1, <2>2, <2>3, <2>4, PublishedRowsStay DEF PublishedRows, RowsIn
    <2>6. TakenRows(b) = <<>> /\ Len(<<>>) = 0
      BY <2>1, <2>2 DEF TakenRows
    <2>7. ~ Sealing(b) /\ ~ StagesSegment(b)
      BY <2>1 DEF Sealing, StagesSegment, Staging, Swapping
    <2> HIDE DEF b, c
    <2>8. DraftRows(b, PublishedRows', segments')
      BY <1>1, <2>1, <2>2, <2>5, <2>6, <2>7 DEF DraftRows
    <2>9. QED
      BY <2>8, RowsDrafted DEF b
  <1>4. QED
    BY <1>2, <1>3


\* A segment whose files are settled moves its rows into the draft.
LEMMA RowsRecorded ==
    ASSUME IInv, IInv', ChainInv, FitInv, RowInv, NEW p \in Builders, StageDir(p),
           builder[p].target.kind = "residual", Extended, Given
    PROVE  RowsKept(builder[p])'
  <1> DEFINE c == builder[p]
             b == builder'[p]
             n == Len(segments)
             e == Entry(c)
  <1>1. c.pc = "stageDir" /\ UNCHANGED <<segments, current>>
    BY StageDirEffect DEF FsSyncDir
  <1>2. /\ c \in BuilderRecord /\ segments \in Seq(Seq(Vectors)) /\ n \in Nat
        /\ Sound(c) /\ DraftFits(c)
    BY DEF IInv, TypeOK, FitInv
  <1>3. Drafting(c) /\ StagesSegment(c) /\ ~ c.poisoned
    BY <1>1, <1>2 DEF Drafting, StagesSegment, Staging, DraftFits
  <1>4. /\ DraftRows(c, PublishedRows, segments)
        /\ RowsIn(c.draft, segments) \in Seq(Vectors)
        /\ c.originals \in Seq(Vectors) /\ IdsBelow(c.draft, n)
        /\ c.draft.segments \in Seq(SegmentEntry)
    BY <1>3, RowsHeld
  <1>5. c.target.id \in 1 .. n /\ e.id = c.target.id
    BY <1>2, <1>3 DEF DraftFits, Entry
  <1>6. RecordedDraft(c).segments = Append(c.draft.segments, e)
    BY <1>2 DEF RecordedDraft, BuilderRecord, ManifestRecord
  <1> HIDE DEF e
  <1>7. RowsIn(RecordedDraft(c), segments) = RowsIn(c.draft, segments) \o segments[e.id]
    <2> DEFINE m == c.draft
               k == RecordedDraft(c)
    <2>1. /\ m.segments \in Seq(SegmentEntry) /\ IdsBelow(m, n)
          /\ k.segments = Append(m.segments, e) /\ e.id \in 1 .. n
      BY <1>4, <1>5, <1>6
    <2> HIDE DEF m, k, c
    <2>2. \A kk, ee : kk.segments = Append(m.segments, ee) /\ ee.id \in 1 .. n
             => RowsIn(kk, segments) = RowsIn(m, segments) \o segments[ee.id]
      BY <1>2, <2>1, RowsInFacts
    <2>3. RowsIn(k, segments) = RowsIn(m, segments) \o segments[e.id]
      BY <2>1, <2>2, Zenon
    <2>4. QED
      BY <2>3 DEF m, k
  <1> DEFINE r == RowsIn(RecordedDraft(c), segments)
  <1>8. /\ r = PublishedRows \o TakenRows(c) /\ Len(TakenRows(c)) = c.added
    <2>1. segments[e.id] = c.originals
      BY <1>3, <1>4, <1>5 DEF DraftRows
    <2>2. QED
      BY <1>4, <1>7, <2>1 DEF DraftRows
  <1>9. r \in Seq(Vectors)
    <2>1. PublishedRows \in Seq(Vectors) /\ TakenRows(c) \in Seq(Vectors)
      BY <1>3, PublishedRowsStay, RowsHeld
    <2>2. QED
      BY <1>8, <2>1, ConcatProperties
  <1>10. PublishedRows' = PublishedRows
    BY <1>1, PublishedRowsStay
  <1> HIDE DEF r
  <1>11. CASE c.call = "push"
    <2>1. /\ b.pc = "ready" /\ b.call = "none" /\ b.draft = RecordedDraft(c)
          /\ b.originals = <<>> /\ b.added = c.added
          /\ b.pushed = Append(c.pushed, c.originals[Len(c.originals)])
      BY <1>11, StageDirEffect
    <2>2. TakenRows(b) = TakenRows(c)
      BY <1>11, <2>1 DEF TakenRows
    <2>3. ~ Sealing(b) /\ ~ StagesSegment(b)
      BY <2>1 DEF Sealing, StagesSegment, Staging, Swapping
    <2>4. r \o <<>> = r
      BY <1>9, ConcatEmptySeq
    <2>5. RowsIn(b.draft, segments) = r
      BY <2>1 DEF r
    <2> HIDE DEF b, c
    <2>6. DraftRows(b, PublishedRows', segments')
      BY <1>1, <1>8, <1>10, <2>1, <2>2, <2>3, <2>4, <2>5 DEF DraftRows
    <2>7. QED
      BY <2>6, RowsDrafted DEF b
  <1>12. CASE c.call = "commit"
    <2> DEFINE d == Recorded(c)
    <2>1. SealManifest(p, d)
      BY <1>12, StageDirEffect
    <2>2. Len(c.originals) <= c.added
      BY <1>1, <1>2 DEF Sound, RowsSound
    <2>3. /\ d \in BuilderRecord /\ d.draft = RecordedDraft(c) /\ d.originals = <<>>
          /\ d.added = c.added /\ d.pushed = c.pushed
      BY <1>2, <2>2, RecordedType, RecordedFields
    <2>4. TakenRows(c) = c.pushed
      BY <1>12 DEF TakenRows
    <2> HIDE DEF d, c
    <2>5. RowsIn(d.draft, segments) = r
      BY <2>3 DEF r
    <2>6. /\ RowsIn(d.draft, segments) = PublishedRows \o d.pushed
          /\ RowsIn(d.draft, segments) \in Seq(Vectors) /\ Len(d.pushed) = d.added
      BY <1>8, <1>9, <2>3, <2>4, <2>5
    <2>7. QED
      BY <1>1, <2>1, <2>3, <2>6, RowsSealed
  <1>13. QED
    BY <1>11, <1>12, StageDirEffect

LEMMA RowsMove ==
    ASSUME IInv, IInv', ChainInv, FitInv, RowInv, NEW p \in Builders, Extended, Given,
           BuilderStep(p) \/ BuilderCall(p) \/ FsError(p) \/ Kill(p)
    PROVE  RowsKept(builder[p])'
  <1> DEFINE c == builder[p]
             b == builder'[p]
  <1>1. ASSUME NEW step, Goto(p, step), UNCHANGED <<tables, current>>, Drafting(c),
               step \in Swapping => c.pc \in Swapping,
               step \in Staging => c.pc \in Staging
        PROVE  RowsKept(builder[p])'
    <2>1. b.pc = step /\ b.call = c.call /\ b.target = c.target /\ SameDraft(b, c)
      BY <1>1, GotoEffect
    <2>2. /\ Sealing(b) => Sealing(c)
          /\ StagesSegment(b) => StagesSegment(c) /\ b.target.id = c.target.id
      BY <1>1, <2>1 DEF Sealing, StagesSegment
    <2>3. QED
      BY <1>1, <2>1, <2>2, RowsSame
  <1>2. CASE StageWrite(p) \/ StageSync(p) \/ StageRename(p)
    <2>1. UNCHANGED <<tables, current>>
      BY <1>2 DEF StageWrite, StageSync, StageRename, FsWrite, FsSync, FsRename
    <2>2. c.pc \in Staging
      BY <1>2 DEF StageWrite, StageSync, StageRename, At, Staging
    <2>3. PICK step \in Staging : Goto(p, step)
      BY <1>2 DEF StageWrite, StageSync, StageRename, Staging
    <2>4. step \notin Swapping
      BY <2>3 DEF Staging, Swapping
    <2>5. CASE c.target.kind # "model"
      <3>1. Drafting(c)
        BY <2>2, <2>5 DEF Drafting
      <3>2. QED
        BY <1>1, <2>1, <2>2, <2>3, <2>4, <3>1
    <2>6. CASE c.target.kind = "model"
      <3>1. b.pc = step /\ b.target = c.target
        BY <2>3, GotoEffect
      <3>2. ~ Drafting(b)
        BY <2>3, <2>6, <3>1 DEF Drafting, Staging, Swapping
      <3>3. QED
        BY <3>2, RowsIdle
    <2>7. QED
      BY <2>5, <2>6
  <1>3. CASE SwapSync(p) \/ (SwapWrite(p) /\ Goto(p, "swapSync"))
    <2>1. UNCHANGED <<tables, current>>
      BY <1>3 DEF SwapSync, SwapWrite, FsSync, FsWrite, disk
    <2>2. c.pc \in Swapping /\ Drafting(c)
      BY <1>3 DEF SwapSync, SwapWrite, At, Swapping, Drafting
    <2>3. Goto(p, "swapRename") \/ Goto(p, "swapSync")
      BY <1>3 DEF SwapSync
    <2>4. "swapRename" \notin Staging /\ "swapSync" \notin Staging
      BY DEF Staging
    <2>5. QED
      BY <1>1, <2>1, <2>2, <2>3, <2>4
  <1>4. CASE b = NoBuilder
    BY <1>4, WalkDropped, RowsIdle DEF Drafting, Staging, Swapping
  <1>5. CASE SwapWrite(p)
    <2>1. b = NoBuilder \/ Goto(p, "swapSync")
      BY <1>5 DEF SwapWrite, Become, IInv, TypeOK
    <2>2. QED
      BY <1>3, <1>4, <1>5, <2>1
  <1>6. CASE SwapRename(p) \/ SwapDir(p)
    <2>1. b.pc \in {"swapDir", "walk"}
      BY <1>6, GotoEffect, SwapDirEffect DEF SwapRename
    <2>2. QED
      BY <2>1, RowsIdle DEF Drafting, Staging, Swapping
  <1>7. CASE (\E m \in Models : BeginCreate(p, m)) \/ BeginAppend(p)
    <2>1. b.pc \in {"probe", "load"}
      BY <1>7, BeginEffect
    <2>2. QED
      BY <2>1, RowsIdle DEF Drafting, Staging, Swapping
  <1>8. CASE CommitRefused(p) \/ DropBuilder(p) \/ Kill(p)
    BY <1>4, <1>8, DropEffect
  <1>9. CASE Fail(p)
    <2>1. b = NoBuilder \/ b.poisoned
      BY <1>9, FailEffect
    <2>2. QED
      BY <1>4, <2>1, RowsIdle
  <1>10. CASE Probe(p) \/ AppendLoad(p) \/ Walk(p) \/ List(p) \/ RemoveOrphan(p)
    <2>1. b.pc \in {"list", "walk", "remove"} \/ b = NoBuilder \/ Fail(p)
      BY <1>10, ProbeEffect, AppendLoadEffect, WalkEffect, ListEffect, RemoveOrphanEffect
    <2>2. b.pc \in {"list", "walk", "remove"} => ~ Drafting(b)
      BY DEF Drafting, Staging, Swapping
    <2>3. QED
      BY <1>4, <1>9, <2>1, <2>2, RowsIdle
  <1>11. CASE StageDir(p)
    <2>1. CASE c.target.kind \in {"primary", "manifest"}
      <3>1. /\ c.pc = "stageDir" /\ UNCHANGED <<tables, current>>
            /\ b.call = c.call /\ SameDraft(b, c)
        BY <1>11, <2>1, StageDirEffect DEF FsSyncDir, tables
      <3>2. Drafting(c)
        BY <2>1, <3>1 DEF Drafting, Staging
      <3>3. /\ Sealing(b) => Sealing(c)
            /\ StagesSegment(b) => StagesSegment(c) /\ b.target.id = c.target.id
        <4>1. CASE c.target.kind = "primary"
          <5>1. /\ b.pc = "stageWrite" /\ b.target = File("residual", c.target.id)
            BY <1>11, <4>1, StageDirEffect
          <5>2. b.target.id = c.target.id /\ b.target.kind = "residual"
            BY <5>1 DEF File
          <5>3. StagesSegment(c) /\ ~ Sealing(b)
            BY <3>1, <4>1, <5>1, <5>2 DEF Sealing, StagesSegment, Staging, Swapping
          <5>4. QED
            BY <5>2, <5>3
        <4>2. CASE c.target.kind = "manifest"
          <5>1. b.pc = "swapWrite"
            BY <1>11, <4>2, StageDirEffect
          <5>2. ~ StagesSegment(b) /\ Sealing(c)
            BY <3>1, <4>2, <5>1 DEF Sealing, StagesSegment, Staging
          <5>3. QED
            BY <5>2
        <4>3. QED
          BY <2>1, <4>1, <4>2
      <3>4. QED
        BY <3>1, <3>2, <3>3, RowsSame
    <2>2. QED
      BY <1>11, <2>1, RowsCreated, RowsRecorded, StageDirEffect
  <1>12. QED
    BY <1>2, <1>3, <1>5, <1>6, <1>7, <1>8, <1>9, <1>10, <1>11, RowsAppended, RowsCommit,
       RowsPush DEF BuilderStep, BuilderCall, FsError

LEMMA RowInvStep ==
    IInv /\ IInv' /\ ChainInv /\ FitInv /\ RowInv /\ [Next]_vars => RowInv'
  <1> SUFFICES ASSUME IInv, IInv', ChainInv, FitInv, RowInv, [Next]_vars PROVE RowInv'
    OBVIOUS
  <1>1. Given /\ Extended
    BY GivenStep, ExtendedStep
  <1>2. ASSUME NEW p \in Builders, builder'[p] = NoBuilder PROVE RowsKept(builder[p])'
    BY <1>2, WalkDropped, RowsIdle DEF Drafting, Staging, Swapping
  <1>3. \A p \in Builders : RowsKept(builder[p])'
    <2>1. CASE UNCHANGED <<disk, tables, builder, acked, mishaps>>
      BY <2>1 DEF RowInv, RowsKept, Drafting, RowsOf, BaseRows, TakenRows, StagesSegment,
         Sealing, tables
    <2>2. QED
      BY <1>1, <1>2, <2>1, WhoMoves, RowsMove
  <1>4. QED
    BY <1>3 DEF RowInv

LEMMA RowInductive ==
    Spec => [](IInv /\ ChainInv /\ CleanInv /\ FitInv /\ RowInv)
  <1>1. Init => RowInv
    BY WalkDropped DEF Init, RowInv, RowsKept, Drafting, Staging, Swapping
  <1>2. IInv /\ ChainInv /\ CleanInv /\ FitInv /\ RowInv /\ [Next]_vars =>
           (IInv /\ ChainInv /\ CleanInv /\ FitInv /\ RowInv)'
    BY IInvStep, ChainInvStep, CleanInvStep, FitInvStep, RowInvStep
  <1>3. QED
    BY <1>1, <1>2, FitInductive, PTL DEF Spec


\* What commit is about to publish is the published generation's rows and then
\* every row push has given a RowId since, in that order: none of them missing
\* or repeated, and none whose push failed.
THEOREM RowsArePublished == Spec => []PublishesPushedRows
  <1>1. IInv /\ ChainInv /\ CleanInv /\ FitInv /\ RowInv => PublishesPushedRows
    <2> SUFFICES ASSUME IInv, ChainInv, FitInv, RowInv, NEW p \in Builders,
                        builder[p].pc \in Swapping
                 PROVE  RowsOf(builder[p].draft) =
                          Generation(builder[p].draft.previous, live).rows
                              \o builder[p].pushed
      BY DEF PublishesPushedRows, Swapping
    <2> DEFINE c == builder[p]
    <2>1. Drafting(c) /\ Sealing(c)
      BY DEF Drafting, Sealing
    <2>2. ~ c.poisoned /\ c.call = "commit"
      <3>1. Sound(c) /\ DraftFits(c) /\ c.pc # "idle" /\ c.pc # "ready"
        BY DEF IInv, FitInv, Swapping
      <3>2. QED
        BY <3>1 DEF Sound, SwapSound, DraftFits
    <2>3. /\ RowsIn(c.draft, segments) \o <<>> = PublishedRows \o c.pushed
          /\ RowsIn(c.draft, segments) \in Seq(Vectors) /\ c.draft.previous = current
      BY <2>1, <2>2, RowsHeld DEF DraftRows, TakenRows
    <2>4. RowsOf(c.draft) = PublishedRows \o c.pushed
      BY <2>3, ConcatEmptySeq, RowsOfIsRowsIn
    <2>5. Generation(current, live).rows = PublishedRows
      <3>1. CASE current = NoHash
        BY <3>1 DEF Generation, PublishedRows
      <3>2. CASE current # NoHash
        <4>1. current \in DOMAIN manifests /\ FilesOf(current) \subseteq live
          BY <3>2, CurrentNamed DEF IInv, Recoverable
        <4>2. QED
          BY <3>2, <4>1, RowsOfIsRowsIn DEF Generation, PublishedRows
      <3>3. QED
        BY <3>1, <3>2
    <2>6. QED
      BY <2>3, <2>4, <2>5
  <1>2. QED
    BY <1>1, RowInductive, PTL

-----------------------------------------------------------------------------
(* The refinement.  A generation is read off the tables alone: that its    *)
(* files are there is what the invariants are for.                         *)

Gen(h, ms, segs) ==
    IF h = NoHash THEN [generation |-> 0, rows |-> <<>>]
    ELSE [generation |-> ms[h].generation, rows |-> RowsIn(ms[h], segs)]

Pub  == Gen(current, manifests, segments)
Rec  == {Gen(h, manifests, segments) : h \in survivors}
Prom == Gen(acked, manifests, segments)

StoreInv == IInv /\ ChainInv /\ CleanInv /\ FitInv /\ RowInv

\* What open would find is what the tables say.
Readings ==
    /\ Generation(current, live \ torn) = Pub
    /\ {Generation(h, sure \ (torn \cup unsynced)) : h \in survivors} = Rec
    /\ Generation(acked, live \ torn) = Prom

LEMMA AckedNamed ==
    ASSUME IInv, ChainInv
    PROVE  /\ acked # NoHash => acked \in DOMAIN manifests
           /\ acked # NoHash => FilesOf(acked) \subseteq Durable
  <1> SUFFICES ASSUME acked # NoHash
               PROVE  acked \in DOMAIN manifests /\ FilesOf(acked) \subseteq Durable
    OBVIOUS
  <1>1. /\ current \in 0 .. Len(manifests) /\ manifests \in Seq(ManifestRecord)
        /\ DOMAIN manifests = 1 .. Len(manifests) /\ current \in survivors
    BY CurrentNamed
  <1>2. acked \in Chain(current) /\ Backward(manifests)
    BY <1>1 DEF ChainInv
  <1>3. Chain(current) \subseteq 1 .. current
    BY <1>1, <1>2, ChainMembers, ChainIsChainOf
  <1>4. acked \in DOMAIN manifests
    BY <1>1, <1>2, <1>3, SMT
  <1>5. FilesOf(acked) \subseteq ChainFiles(current)
    BY <1>2 DEF ChainFiles
  <1>6. QED
    BY <1>4, <1>5 DEF ChainInv

LEMMA ReadingsHold == StoreInv => Readings
  <1> SUFFICES ASSUME IInv, ChainInv PROVE Readings
    BY DEF StoreInv
  <1>1. /\ current \in survivors
        /\ \A h \in survivors \ {NoHash} : h \in DOMAIN manifests /\ FilesOf(h) \subseteq Durable
    BY CurrentNamed DEF IInv, Recoverable, Durable
  <1>2. Durable \subseteq live \ torn
    BY DEF Durable, IInv
  <1>3. ASSUME NEW h, NEW present,
               h # NoHash => h \in DOMAIN manifests /\ FilesOf(h) \subseteq present
        PROVE  Generation(h, present) = Gen(h, manifests, segments)
    BY <1>3, RowsOfIsRowsIn DEF Generation, Gen
  <1>4. Generation(current, live \ torn) = Pub
    BY <1>1, <1>2, <1>3 DEF Pub
  <1>5. Generation(acked, live \ torn) = Prom
    BY <1>2, <1>3, AckedNamed DEF Prom
  <1>6. \A h \in survivors :
           Generation(h, sure \ (torn \cup unsynced)) = Gen(h, manifests, segments)
    BY <1>1, <1>3 DEF Durable
  <1>7. QED
    BY <1>4, <1>5, <1>6 DEF Readings, Rec

\* A generation's number and rows are final once it is sealed.
LEMMA GenStays ==
    ASSUME IInv, ChainInv, FitInv, [Next]_vars, NEW h, h = NoHash \/ h \in DOMAIN manifests
    PROVE  Gen(h, manifests', segments') = Gen(h, manifests, segments)
  <1>1. Given /\ Extended
    BY GivenStep, ExtendedStep
  <1>2. CASE h # NoHash
    <2>1. /\ manifests'[h] = manifests[h]
          /\ RowsIn(manifests'[h], segments') = RowsIn(manifests[h], segments)
      BY <1>1, <1>2, ExtendedGrows, PublishedRowsStay DEF Grows, ChainInv
    <2>2. QED
      BY <2>1 DEF Gen
  <1>3. QED
    BY <1>2 DEF Gen

LEMMA GenType ==
    ASSUME IInv, FitInv, NEW h, h = NoHash \/ h \in DOMAIN manifests
    PROVE  /\ Gen(h, manifests, segments).generation \in Nat
           /\ Gen(h, manifests, segments).rows \in Seq(Vectors)
  <1>1. CASE h = NoHash
    BY <1>1 DEF Gen
  <1>2. CASE h # NoHash
    <2>1. /\ manifests[h].segments \in Seq(SegmentEntry) /\ manifests[h].generation \in Nat
          /\ IdsBelow(manifests[h], Len(segments)) /\ segments \in Seq(Seq(Vectors))
      <3>1. /\ manifests[h] \in ManifestRecord /\ segments \in Seq(Seq(Vectors))
            /\ ManifestFits(manifests[h], Len(segments))
        BY <1>2 DEF IInv, TypeOK, FitInv
      <3>2. QED
        BY <3>1 DEF ManifestRecord, ManifestFits
    <2>2. RowsIn(manifests[h], segments) \in Seq(Vectors)
      BY <2>1, RowsInFacts
    <2>3. QED
      BY <1>2, <2>1, <2>2 DEF Gen
  <1>3. QED
    BY <1>1, <1>2

LEMMA PrefixOfConcat ==
    ASSUME NEW V, NEW s \in Seq(V), NEW t \in Seq(V)
    PROVE  SubSeq(s \o t, 1, Len(s)) = s
  <1>1. Len(s) \in Nat
    OBVIOUS
  <1>2. CASE Len(s) = 0
    BY <1>2, SubSeqEmpty
  <1>3. CASE Len(s) # 0
    <2>1. 1 \in 1 .. Len(s) /\ Len(s) \in 1 .. Len(s)
      BY <1>1, <1>3, SMT
    <2>2. SubSeq(s \o t, 1, Len(s)) = SubSeq(s, 1, Len(s))
      BY <2>1, SubSeqOfConcat1
    <2>3. QED
      BY <2>2, SubSeqFull
  <1>4. QED
    BY <1>2, <1>3


\* A step of the store, as what it does to the three generations.
PromiseStep ==
    \/ UNCHANGED <<Pub, Rec, Prom>>
    \/ /\ Rec = {Pub} /\ Promise!Extends(Pub', Pub)
       /\ Rec' = {Pub, Pub'} /\ UNCHANGED Prom
    \/ Rec' = {Pub} /\ UNCHANGED <<Pub, Prom>>
    \/ Rec = {Pub} /\ Prom' = Pub /\ UNCHANGED <<Pub, Rec>>
    \/ Pub' \in Rec /\ Rec' = {Pub'} /\ UNCHANGED Prom

\* The rename of CURRENT publishes the next generation of the same rows.
LEMMA RenamePublishes ==
    ASSUME StoreInv, StoreInv', [Next]_vars, NEW p \in Builders, SwapRename(p)
    PROVE  PromiseStep
  <1> DEFINE c == builder[p]
             t == c.target.id
  <1>0. IInv /\ ChainInv /\ FitInv /\ RowInv
    BY DEF StoreInv
  <1>1. /\ c.pc = "swapRename" /\ FsRenameToCurrent(t)
        /\ UNCHANGED <<tables, acked>>
    BY DEF SwapRename, At
  <1>2. c \in BuilderRecord /\ Sound(c) /\ DraftFits(c) /\ c.pc # "idle" /\ c.pc # "ready"
    BY <1>0, <1>1 DEF IInv, TypeOK, FitInv
  <1>3. /\ Drafting(c) /\ ~ c.poisoned /\ c.call = "commit" /\ c.added > 0
        /\ t \in DOMAIN manifests /\ manifests[t] = c.draft /\ CurrentTmp \notin unsynced
    BY <1>1, <1>2 DEF Drafting, Swapping, Sound, SwapSound, DraftFits
  <1>4. /\ survivors = {current} /\ c.draft.previous = current
        /\ c.draft.generation = NextGeneration
    BY <1>2, <1>3 DEF Sound, DraftSound
  <1>5. current' = t /\ survivors' = {current, t}
    BY <1>1, <1>3, <1>4 DEF FsRenameToCurrent
  <1>6. Pub' = Gen(t, manifests, segments) /\ Prom' = Prom
    BY <1>1, <1>5 DEF Pub, Prom, tables
  <1>7. Rec = {Pub} /\ Rec' = {Pub, Pub'}
    <2>1. Rec = {Pub}
      BY <1>4 DEF Rec, Pub
    <2>2. Rec' = {Gen(h, manifests, segments) : h \in {current, t}}
      BY <1>1, <1>5 DEF Rec, tables
    <2>3. QED
      BY <1>6, <2>1, <2>2 DEF Pub
  <1>8. Promise!Extends(Pub', Pub)
    <2>1. t # NoHash
      BY <1>0, <1>3, CurrentNamed DEF NoHash
    <2>2. /\ Pub'.generation = c.draft.generation
          /\ Pub'.rows = RowsIn(c.draft, segments)
      BY <1>3, <1>6, <2>1 DEF Gen
    <2>3. Pub.rows = PublishedRows
      BY DEF Pub, Gen, PublishedRows
    <2>4. /\ RowsIn(c.draft, segments) \o <<>> = PublishedRows \o c.pushed
          /\ Len(c.pushed) = c.added /\ RowsIn(c.draft, segments) \in Seq(Vectors)
      <3>1. Sealing(c)
        BY <1>1 DEF Sealing, Swapping
      <3>2. QED
        BY <1>0, <1>3, <3>1, RowsHeld DEF DraftRows, TakenRows
    <2>5. Pub'.rows = PublishedRows \o c.pushed
      BY <2>2, <2>4, ConcatEmptySeq
    <2>6. /\ PublishedRows \in Seq(Vectors) /\ Pub.generation \in Nat
          /\ c.pushed \in Seq(Vectors)
      <3>1. current = NoHash \/ current \in DOMAIN manifests
        BY <1>0, CurrentNamed
      <3>2. QED
        BY <1>0, <1>2, <2>3, <3>1, GenType DEF Pub, BuilderRecord
    <2>7. NextGeneration = Pub.generation + 1
      BY DEF NextGeneration, Pub, Gen
    <2> DEFINE rows == PublishedRows
               more == c.pushed
    <2>8. /\ rows \in Seq(Vectors) /\ more \in Seq(Vectors) /\ Len(more) > 0
      BY <1>3, <2>4, <2>6
    <2> HIDE DEF rows, more
    <2>9. /\ Len(rows \o more) > Len(rows)
          /\ SubSeq(rows \o more, 1, Len(rows)) = rows
      BY <2>8, PrefixOfConcat
    <2>10. Pub'.generation = Pub.generation + 1
      BY <1>4, <2>2, <2>7
    <2>11. Pub.rows = rows /\ Pub'.rows = rows \o more
      BY <2>3, <2>5 DEF rows, more
    <2>12. QED
      BY <2>9, <2>10, <2>11 DEF Promise!Extends
  <1>9. QED
    BY <1>6, <1>7, <1>8 DEF PromiseStep

\* A step that leaves CURRENT alone settles it, acknowledges it, or neither.
LEMMA CalmKeepsPromise ==
    ASSUME StoreInv, StoreInv', [Next]_vars, current' = current,
           survivors' = survivors \/ survivors' = {current}
    PROVE  PromiseStep
  <1>0. IInv /\ ChainInv /\ FitInv
    BY DEF StoreInv
  <1>1. /\ current \in survivors
        /\ \A h \in survivors : h = NoHash \/ h \in DOMAIN manifests
        /\ acked = NoHash \/ acked \in DOMAIN manifests
    BY <1>0, CurrentNamed, AckedNamed
  <1>2. Pub' = Pub
    BY <1>0, <1>1, GenStays DEF Pub
  <1>3. \A h \in survivors : Gen(h, manifests', segments') = Gen(h, manifests, segments)
    BY <1>0, <1>1, GenStays
  <1>4. survivors' = {current} => Rec' = {Pub}
    BY <1>1, <1>3 DEF Rec, Pub
  <1>5. survivors' = survivors => Rec' = Rec
    BY <1>3 DEF Rec
  <1>6. acked' = acked => Prom' = Prom
    BY <1>0, <1>1, GenStays DEF Prom
  <1>7. ASSUME NEW p \in Builders, builder[p].call = "tidy", acked' = current
        PROVE  Rec = {Pub} /\ Rec' = Rec /\ Prom' = Pub
    <2>1. survivors = {current}
      BY <1>0, <1>7 DEF ChainInv, WalkWhole
    <2>2. Rec = {Pub} /\ Rec' = {Pub}
      BY <1>4, <2>1 DEF Rec, Pub
    <2>3. Prom' = Pub
      BY <1>2, <1>7 DEF Prom, Pub
    <2>4. QED
      BY <2>2, <2>3
  <1>8. QED
    BY <1>0, <1>2, <1>4, <1>5, <1>6, <1>7, AckedStep DEF PromiseStep

LEMMA StoreKeepsPromise ==
    ASSUME StoreInv, StoreInv', [Next]_vars
    PROVE  PromiseStep
  <1>0. IInv /\ IInv'
    BY DEF StoreInv
  <1>1. CASE Calm
    BY <1>1, CalmKeepsPromise DEF Calm
  <1>2. ASSUME NEW p \in Builders, RemoveOrphan(p) PROVE PromiseStep
    <2>1. current' = current /\ survivors' = survivors
      BY <1>2 DEF RemoveOrphan, FsRemove
    <2>2. QED
      BY <2>1, CalmKeepsPromise
  <1>3. CASE Crash
    <2>1. PICK h \in survivors : current' = h /\ survivors' = {h}
      BY <1>3 DEF Crash
    <2>2. UNCHANGED <<tables, acked>>
      BY <1>3 DEF Crash
    <2>3. Prom' = Prom /\ Pub' = Gen(h, manifests, segments)
      BY <2>1, <2>2 DEF Prom, Pub, tables
    <2>4. Pub' \in Rec
      BY <2>3 DEF Rec
    <2>5. Rec' = {Pub'}
      BY <2>1 DEF Rec, Pub
    <2>6. QED
      BY <2>3, <2>4, <2>5 DEF PromiseStep
  <1>4. QED
    BY <1>0, <1>1, <1>2, <1>3, CalmSteps, RenamePublishes

LEMMA StoreInvStep == StoreInv /\ [Next]_vars => StoreInv'
  <1>1. StoreInv /\ [Next]_vars =>
           IInv' /\ ChainInv' /\ CleanInv' /\ FitInv' /\ RowInv'
    BY IInvStep, ChainInvStep, CleanInvStep, FitInvStep, RowInvStep DEF StoreInv
  <1>2. QED
    BY <1>1 DEF StoreInv

\* Whatever the store does, files are kept while cleanup walks, a builder finds
\* and leaves no orphan, a draft always seals to a valid manifest, and rows stay
\* where push put them.
THEOREM StoreInductive == Spec => []StoreInv
  BY RowInductive, PTL DEF StoreInv

\* The store implements what it promises: whatever builders, failed calls, kills
\* and crashes do, the generation a process would open changes only to the next
\* one on top of it or, in a crash, to one of those CURRENT may be left with,
\* and commit acknowledges only a generation that is the sole one left.
THEOREM StoreImplementsPromise == Spec => ImplementsPromise
  <1>1. Init => Promise!Init
    <2>1. ASSUME Init PROVE Promise!Init
      <3>1. current = NoHash /\ acked = NoHash /\ survivors = {NoHash}
        BY <2>1 DEF Init
      <3>2. \A h, present : h = NoHash => Generation(h, present) = Promise!Absent
        BY DEF Generation, Promise!Absent
      <3>3. QED
        BY <3>1, <3>2 DEF Promise!Init
    <2>2. QED
      BY <2>1
  <1>2. StoreInv /\ StoreInv' /\ Readings /\ Readings' /\ [Next]_vars =>
            [Promise!Next]_(Promise!vars)
    <2> SUFFICES ASSUME StoreInv, StoreInv', Readings, Readings', [Next]_vars
                 PROVE  [Promise!Next]_(Promise!vars)
      OBVIOUS
    <2>1. PromiseStep
      BY StoreKeepsPromise
    <2>2. QED
      BY <2>1 DEF Readings, PromiseStep, Promise!Next, Promise!Publish, Promise!Settle,
         Promise!Acknowledge, Promise!Crash, Promise!vars
  <1>3. QED
    BY <1>1, <1>2, ReadingsHold, StoreInductive, PTL DEF Spec, ImplementsPromise, Promise!Spec


-----------------------------------------------------------------------------
(* The promise itself.                                                     *)

\* A generation that holds another's rows, each under the same RowId.
Outlasts(new, old) ==
    /\ new.generation >= old.generation
    /\ Len(old.rows) <= Len(new.rows)
    /\ SubSeq(new.rows, 1, Len(old.rows)) = old.rows

PromiseInv == \A g \in Rec : Outlasts(g, Prom)

Generations == [generation : Nat, rows : Seq(Vectors)]

LEMMA RowsOutlast ==
    ASSUME NEW r \in Seq(Vectors), NEW s \in Seq(Vectors), NEW t \in Seq(Vectors),
           Len(r) <= Len(s), SubSeq(s, 1, Len(r)) = r,
           Len(s) <= Len(t), SubSeq(t, 1, Len(s)) = s
    PROVE  Len(r) <= Len(t) /\ SubSeq(t, 1, Len(r)) = r
  <1>1. Len(r) \in Nat /\ Len(s) \in Nat /\ Len(t) \in Nat
    OBVIOUS
  <1>2. CASE Len(r) = 0
    BY <1>1, <1>2, SubSeqEmpty
  <1>3. CASE Len(r) # 0
    <2> DEFINE k == Len(r)
               n == Len(s)
    <2>1. /\ 1 \in 1 .. Len(t) /\ n \in 1 .. Len(t)
          /\ 1 \in 1 .. n - 1 + 1 /\ k \in 1 .. n - 1 + 1
          /\ 1 + 1 - 1 = 1 /\ 1 + k - 1 = k
      BY <1>1, <1>3, SMT
    <2>2. SubSeq(SubSeq(t, 1, n), 1, k) = SubSeq(t, 1 + 1 - 1, 1 + k - 1)
      BY <2>1, SubSeqOfSubSeq
    <2>3. QED
      BY <1>1, <2>1, <2>2
  <1>4. QED
    BY <1>2, <1>3

LEMMA OutlastsOrder ==
    ASSUME NEW x \in Generations, NEW y \in Generations, NEW z \in Generations
    PROVE  /\ Outlasts(x, x)
           /\ Outlasts(y, x) /\ Outlasts(z, y) => Outlasts(z, x)
           /\ Promise!Extends(y, x) => Outlasts(y, x)
  <1>1. /\ \A g \in {x, y, z} : /\ g.rows \in Seq(Vectors) /\ g.generation \in Nat
                                /\ Len(g.rows) \in Nat
    BY DEF Generations
  <1>2. Outlasts(x, x)
    BY <1>1, SubSeqFull DEF Outlasts
  <1>3. Promise!Extends(y, x) => Outlasts(y, x)
    BY <1>1 DEF Outlasts, Promise!Extends
  <1>4. ASSUME Outlasts(y, x), Outlasts(z, y) PROVE Outlasts(z, x)
    <2>1. z.generation >= x.generation
      BY <1>1, <1>4 DEF Outlasts
    <2>2. /\ Len(x.rows) <= Len(y.rows) /\ SubSeq(y.rows, 1, Len(x.rows)) = x.rows
          /\ Len(y.rows) <= Len(z.rows) /\ SubSeq(z.rows, 1, Len(y.rows)) = y.rows
      BY <1>4 DEF Outlasts
    <2>3. Len(x.rows) <= Len(z.rows) /\ SubSeq(z.rows, 1, Len(x.rows)) = x.rows
      BY <1>1, <2>2, RowsOutlast
    <2>4. QED
      BY <2>1, <2>3 DEF Outlasts
  <1>5. QED
    BY <1>2, <1>3, <1>4

LEMMA PromiseType == StoreInv => Pub \in Rec /\ Pub \in Generations /\ Prom \in Generations
                                     /\ Rec \subseteq Generations
  <1> SUFFICES ASSUME IInv, ChainInv, FitInv
               PROVE  Pub \in Rec /\ Pub \in Generations /\ Prom \in Generations
                          /\ Rec \subseteq Generations
    BY DEF StoreInv
  <1>1. ASSUME NEW h, h = NoHash \/ h \in DOMAIN manifests
        PROVE  Gen(h, manifests, segments) \in Generations
    BY <1>1, GenType DEF Gen, Generations
  <1>2. QED
    BY <1>1, CurrentNamed, AckedNamed DEF Pub, Prom, Rec

LEMMA PromiseInvStep == StoreInv /\ PromiseInv /\ [Next]_vars => PromiseInv'
  <1>1. StoreInv' => Pub' \in Rec' /\ Pub' \in Generations' /\ Prom' \in Generations'
                        /\ Rec' \subseteq Generations'
    <2>1. (StoreInv => Pub \in Rec /\ Pub \in Generations /\ Prom \in Generations
                        /\ Rec \subseteq Generations)'
      BY PromiseType, PTL
    <2>2. QED
      BY <2>1
  <1>2. Generations' = Generations
    BY DEF Generations
  <1> SUFFICES ASSUME StoreInv, PromiseInv, [Next]_vars PROVE PromiseInv'
    OBVIOUS
  <1>3. /\ Pub \in Rec /\ Pub \in Generations /\ Prom \in Generations
        /\ Rec \subseteq Generations /\ Pub' \in Generations
    BY <1>1, <1>2, PromiseType, StoreInvStep
  <1>4. \A g \in Rec : Outlasts(g, Prom)
    BY DEF PromiseInv
  <1>5. PromiseStep
    BY StoreInvStep, StoreKeepsPromise
  <1>6. \A g \in Rec' : Outlasts(g, Prom')
    <2>1. CASE UNCHANGED <<Pub, Rec, Prom>>
      BY <1>4, <2>1
    <2>2. CASE Rec' = {Pub} /\ UNCHANGED <<Pub, Prom>>
      BY <1>3, <1>4, <2>2
    <2>3. CASE Rec = {Pub} /\ Prom' = Pub /\ UNCHANGED <<Pub, Rec>>
      BY <1>3, <2>3, OutlastsOrder
    <2>4. CASE Pub' \in Rec /\ Rec' = {Pub'} /\ UNCHANGED Prom
      BY <1>4, <2>4
    <2>5. CASE /\ Rec = {Pub} /\ Promise!Extends(Pub', Pub)
               /\ Rec' = {Pub, Pub'} /\ UNCHANGED Prom
      <3>1. Outlasts(Pub', Pub) /\ Outlasts(Pub, Prom)
        BY <1>3, <1>4, <2>5, OutlastsOrder
      <3>2. Outlasts(Pub', Prom)
        BY <1>3, <3>1, OutlastsOrder
      <3>3. QED
        BY <2>5, <3>1, <3>2
    <2>6. QED
      BY <1>5, <2>1, <2>2, <2>3, <2>4, <2>5 DEF PromiseStep
  <1>7. QED
    BY <1>6 DEF PromiseInv, Outlasts

\* What commit has acknowledged is never taken back: every generation CURRENT may
\* be left with after a crash is that one or a later one, and it holds the
\* acknowledged rows, each under the RowId push returned for it.
THEOREM AcknowledgedRowsStay == Spec => []PromiseKept
  <1>1. Init => PromiseInv
    <2>1. ASSUME Init PROVE PromiseInv
      <3>1. acked = NoHash /\ survivors = {NoHash}
        BY <2>1 DEF Init
      <3>2. \A g \in Rec : g = Prom
        BY <3>1 DEF Rec, Prom
      <3>3. Prom = [generation |-> 0, rows |-> <<>>] /\ Len(<<>>) = 0
        BY <3>1 DEF Prom, Gen
      <3>4. Prom \in Generations
        BY <3>3 DEF Generations
      <3>5. QED
        BY <3>2, <3>4, OutlastsOrder DEF PromiseInv
    <2>2. QED
      BY <2>1
  <1>2. Readings /\ PromiseInv => PromiseKept
    BY DEF Readings, PromiseInv, Outlasts, PromiseKept, Promise!PromiseKept, Promise!Kept
  <1>3. QED
    BY <1>1, <1>2, PromiseInvStep, ReadingsHold, StoreInductive, PTL DEF Spec
=============================================================================
