------------------------------- MODULE OpenIndex -------------------------------
(* Opening a committed index and appending to one (crates/spherra: open.rs,    *)
(* builder.rs, certified.rs; spherra-format: PairedSegmentReaders).  Both read *)
(* every segment the manifest lists, a primary and a residual file, with       *)
(* checks of their own.  The lock keeps them apart (IndexStore); between two   *)
(* uses the files may be rewritten, with hashes made to fit or not, as         *)
(* open_tests.rs does.                                                         *)
(*                                                                             *)
(* A hash is the file it was made of.  whole stands for what SegmentReader     *)
(* checks of a file besides its kind and its identities.  A certificate's      *)
(* terms decode or not, and are those of the model's scorer or not.            *)
EXTENDS SegmentFormat

CONSTANTS
    Ids,            \* segment ids builders may draw
    RowCounts,      \* rows of the segments they stage
    MaxSegments,    \* MAX_SEGMENTS
    Descriptors,    \* the process's limit on open files
    Edits(_, _)     \* what an edit may make of one segment of a committed index

SegmentRows == 65536    \* MAX_SEGMENT_ROWS

ASSUME OpenAssumption ==
    /\ Descriptors \in Nat /\ MaxSegments \in Nat
    /\ RowCounts \subseteq 1 .. SegmentRows

VARIABLES
    index,      \* the segments of the committed generation, and their files
    session,    \* "none", "opening", "open", "verifying" or "building"
    at,         \* the segment the loop of open or append is at
    phase,      \* of open's loop: "files", "checks" or "rows"
    loaded,     \* segments whose physical checks have passed
    bound,      \* bound certificates
    held,       \* descriptors the index holds
    draft,      \* segments staged and not yet committed
    outcome,    \* the last call's
    history     \* what became of the committed index since it last changed

vars == <<index, session, at, phase, loaded, bound, held, draft, outcome, history>>

Ok(call) == [call |-> call, error |-> "none"]
Error(call, error) == [call |-> call, error |-> error]

\* Written by the steps and read by no guard: whether a file was rewritten
\* since the last commit, an open succeeded, an append refused the segments.
Unseen(rewritten) == [rewritten |-> rewritten, opened |-> FALSE, refused |-> FALSE]

-------------------------------------------------------------------------------
(* Segments.                                                                   *)

Reserved == 64
\* Seeded fault: room for the codes of a full segment only.
MaxFileOfCodes == 24 * 1024 * 1024
MaxFile == 40 * 1024 * 1024

FileLen == [kind \in FileKinds |-> [rows \in RowCounts |-> Encode(kind, rows, "model").len]]

File(kind, id, rows) ==
    [kind |-> kind, len |-> FileLen[kind][rows], whole |-> TRUE,
     identity |-> "model", collection |-> "index", segment |-> id, rows |-> rows,
     primaryTerms |-> "valid", refinedTerms |-> "valid", magnitudes |-> "finite"]

Absent == [kind |-> "absent", len |-> 0]

\* An entry that fits its two files.
EntryFor(id, rows, primary, residual) ==
    [id |-> id, rows |-> rows,
     primaryLen |-> primary.len, residualLen |-> residual.len,
     primaryHash |-> primary, residualHash |-> residual]

\* stage_segment
Staged(id, rows) ==
    LET primary == File("Primary", id, rows)
        residual == File("Residual", id, rows)
    IN  [entry |-> EntryFor(id, rows, primary, residual),
         primary |-> primary, residual |-> residual]

\* Manifest::validate, of what the files have to do with it.
ManifestOK(segments) ==
    \A i, j \in DOMAIN segments : i # j => segments[i].entry.id # segments[j].entry.id

-------------------------------------------------------------------------------
(* Checks, in the order of the code: the first error met is the result.        *)

Check(fails, error) == IF fails THEN error ELSE "none"
first ?? second == IF first = "none" THEN second ELSE first

LengthError(s) ==
    Check(s.primary.len # s.entry.primaryLen \/ s.residual.len # s.entry.residualLen,
          "IdentityMismatch")

\* PrimaryFileReader::open or ResidualFileReader::open
ReaderError(file, kind) ==
    Check(file.kind # kind, "Corrupt")
    ?? Check(file.identity # "model", "IdentityMismatch")
    ?? Check(~ file.whole, "Corrupt")

ReadersError(s) == ReaderError(s.primary, "Primary") ?? ReaderError(s.residual, "Residual")

HashesDiffer(s) ==
    s.primary # s.entry.primaryHash \/ s.residual # s.entry.residualHash

\* Seeded fault: the segment's name is not compared.
MatchesUnnamed(file, entry) == file.collection = "index" /\ file.rows = entry.rows

Matches(file, entry) ==
    file.collection = "index" /\ file.segment = entry.id /\ file.rows = entry.rows

\* PairedSegmentReaders::open
PairError(s) ==
    Check(\/ s.primary.collection # s.residual.collection
          \/ s.primary.segment # s.residual.segment
          \/ s.primary.rows # s.residual.rows
          \/ s.primary.identity # s.residual.identity, "IdentityMismatch")

\* What open does with the two files of a segment until they are paired.
OpenError(s) ==
    LengthError(s)
    ?? ReadersError(s)
    ?? Check(HashesDiffer(s) \/ ~ Matches(s.primary, s.entry)
                             \/ ~ Matches(s.residual, s.entry), "IdentityMismatch")
    ?? PairError(s)

Decoded(terms) == Check(terms = "undecodable", "Corrupt")
Certified(terms) == Check(terms = "foreign", "CertificateInvalid")

RowsError(s) ==
    Check(s.primary.magnitudes # "finite", "Corrupt")
    ?? Decoded(s.primary.primaryTerms) ?? Decoded(s.primary.refinedTerms)

\* BoundPair::bind
BindError(s) == Certified(s.primary.primaryTerms) ?? Certified(s.primary.refinedTerms)

SizeError(s) == Check(s.primary.len > MaxFile \/ s.residual.len > MaxFile, "Io")

\* Seeded fault: append takes any certificate that decodes.
VerifyErrorUncertified(s) ==
    SizeError(s) ?? LengthError(s) ?? ReadersError(s)
    ?? Check(HashesDiffer(s) \/ ~ Matches(s.primary, s.entry), "IdentityMismatch")
    ?? Decoded(s.primary.primaryTerms) ?? Decoded(s.primary.refinedTerms)
    ?? PairError(s)

\* verify_segment: the residual's names and rows are left to the pairing, and
\* the magnitudes are not looked at.
VerifyError(s) ==
    SizeError(s) ?? LengthError(s) ?? ReadersError(s)
    ?? Check(HashesDiffer(s) \/ ~ Matches(s.primary, s.entry), "IdentityMismatch")
    ?? Decoded(s.primary.primaryTerms) ?? Certified(s.primary.primaryTerms)
    ?? Decoded(s.primary.refinedTerms) ?? Certified(s.primary.refinedTerms)
    ?? PairError(s)

Missing(s) == s.primary = Absent \/ s.residual = Absent

-------------------------------------------------------------------------------
Init ==
    /\ index = <<>> /\ draft = <<>>
    /\ session = "none" /\ at = 1 /\ phase = "files"
    /\ loaded = <<>> /\ bound = <<>> /\ held = 0
    /\ outcome = Ok("none")
    /\ history = Unseen(FALSE)

\* A segment that open has read, and a certificate bound to a segment.
Loaded(i) == [id |-> index[i].entry.id, rows |-> index[i].entry.rows,
              primary |-> index[i].primary, residual |-> index[i].residual]
Bound(i) == [segment |-> i, id |-> loaded[i].id, rows |-> loaded[i].rows,
             of |-> loaded[i].primary.segment]

\* What a call that failed has built is dropped, and its files are closed.
Fails(call, error) ==
    /\ session' = "none" /\ at' = 1 /\ phase' = "files"
    /\ loaded' = <<>> /\ bound' = <<>> /\ held' = 0 /\ draft' = <<>>
    /\ outcome' = Error(call, error)
    /\ UNCHANGED index

-------------------------------------------------------------------------------
(* Index::open.  The lock's file is the first descriptor.                      *)

OpenRefused ==
    /\ session = "none"
    /\ \/ index = <<>> /\ Fails("open", "NotFound")
       \/ ~ ManifestOK(index) /\ Fails("open", "Corrupt")
       \/ /\ index # <<>> /\ ManifestOK(index)
          /\ Len(index) + 1 + Reserved > Descriptors
          /\ Fails("open", "DescriptorLimit")
    /\ UNCHANGED history

StartOpen ==
    /\ session = "none" /\ index # <<>> /\ ManifestOK(index)
    /\ Len(index) + 1 + Reserved <= Descriptors
    /\ session' = "opening" /\ held' = 1
    /\ UNCHANGED <<index, at, phase, loaded, bound, draft, outcome, history>>

OpenFiles ==
    /\ session = "opening" /\ at <= Len(index) /\ phase = "files"
    /\ IF Missing(index[at]) THEN Fails("open", "Io")
       ELSE /\ phase' = "checks" /\ held' = held + 2
            /\ UNCHANGED <<index, session, at, loaded, bound, draft, outcome>>
    /\ UNCHANGED history

CheckFiles ==
    /\ session = "opening" /\ phase = "checks"
    /\ IF OpenError(index[at]) # "none" THEN Fails("open", OpenError(index[at]))
       ELSE /\ phase' = "rows"
            /\ UNCHANGED <<index, session, at, loaded, bound, held, draft, outcome>>
    /\ UNCHANGED history

\* Seeded fault: the primary file stays open with its rows in memory.
LoadRowsOpen ==
    /\ session = "opening" /\ phase = "rows"
    /\ IF RowsError(index[at]) # "none" THEN Fails("open", RowsError(index[at]))
       ELSE /\ loaded' = Append(loaded, Loaded(at))
            /\ at' = at + 1 /\ phase' = "files"
            /\ UNCHANGED <<index, session, bound, held, draft, outcome>>
    /\ UNCHANGED history

\* Tiles, magnitudes and certificates are read; into_residual closes the
\* primary file.
LoadRows ==
    /\ session = "opening" /\ phase = "rows"
    /\ IF RowsError(index[at]) # "none" THEN Fails("open", RowsError(index[at]))
       ELSE /\ loaded' = Append(loaded, Loaded(at))
            /\ at' = at + 1 /\ phase' = "files" /\ held' = held - 1
            /\ UNCHANGED <<index, session, bound, draft, outcome>>
    /\ UNCHANGED history

\* Seeded fault: a segment's certificates are bound as soon as it is loaded.
BindOnceLoaded ==
    /\ session = "opening" /\ phase = "files" /\ Len(bound) < Len(loaded)
    /\ LET i == Len(bound) + 1 IN
       IF BindError(index[i]) # "none" THEN Fails("open", BindError(index[i]))
       ELSE /\ bound' = Append(bound, Bound(i))
            /\ UNCHANGED <<index, session, at, phase, loaded, held, draft, outcome>>
    /\ UNCHANGED history

Bind ==
    /\ session = "opening" /\ at > Len(index) /\ Len(bound) < Len(index)
    /\ LET i == Len(bound) + 1 IN
       IF BindError(index[i]) # "none" THEN Fails("open", BindError(index[i]))
       ELSE /\ bound' = Append(bound, Bound(i))
            /\ UNCHANGED <<index, session, at, phase, loaded, held, draft, outcome>>
    /\ UNCHANGED history

\* WorkerPool::new
FinishOpen ==
    /\ session = "opening" /\ at > Len(index) /\ Len(bound) = Len(index)
    /\ history' = [history EXCEPT !.opened = TRUE]
    /\ \/ Fails("open", "Io")
       \/ /\ session' = "open" /\ outcome' = Ok("open")
          /\ UNCHANGED <<index, at, phase, loaded, bound, held, draft>>

CloseIndex ==
    /\ session = "open"
    /\ session' = "none" /\ at' = 1
    /\ loaded' = <<>> /\ bound' = <<>> /\ held' = 0
    /\ UNCHANGED <<index, phase, draft, outcome, history>>

-------------------------------------------------------------------------------
(* IndexBuilder: create, append, push and commit.                              *)

Create ==
    /\ session = "none" /\ index = <<>>
    /\ session' = "building"
    /\ UNCHANGED <<index, at, phase, loaded, bound, held, draft, outcome, history>>

StartAppend ==
    /\ session = "none"
    /\ IF index = <<>> THEN Fails("append", "NotFound")
       ELSE IF ~ ManifestOK(index) THEN Fails("append", "Corrupt")
       ELSE /\ session' = "verifying"
            /\ UNCHANGED <<index, at, phase, loaded, bound, held, draft, outcome>>
    /\ UNCHANGED history

VerifySegment ==
    /\ session = "verifying" /\ at <= Len(index)
    /\ LET error == IF Missing(index[at]) THEN "Io" ELSE VerifyError(index[at]) IN
       IF error # "none"
       THEN /\ Fails("append", error)
            /\ history' = [history EXCEPT !.refused = TRUE]
       ELSE /\ at' = at + 1
            /\ UNCHANGED <<index, session, phase, loaded, bound, held, draft,
                           outcome, history>>

\* The cleanup that follows may fail (IndexStore).
StartBuilding ==
    /\ session = "verifying" /\ at > Len(index)
    /\ \/ Fails("append", "Io")
       \/ /\ session' = "building" /\ at' = 1 /\ outcome' = Ok("append")
          /\ UNCHANGED <<index, phase, loaded, bound, held, draft>>
    /\ UNCHANGED history

IdsOf(segments) == {segments[i].entry.id : i \in DOMAIN segments}

StageSegment(id, rows) ==
    /\ session = "building"
    /\ Len(index) + Len(draft) < MaxSegments
    /\ id \notin IdsOf(index) \cup IdsOf(draft)
    /\ draft' = Append(draft, Staged(id, rows))
    /\ UNCHANGED <<index, session, at, phase, loaded, bound, held, outcome, history>>

Commit ==
    /\ session = "building" /\ draft # <<>>
    /\ index' = index \o draft
    /\ draft' = <<>> /\ session' = "none" /\ outcome' = Ok("commit")
    /\ history' = Unseen(FALSE)
    /\ UNCHANGED <<at, phase, loaded, bound, held>>

DropBuilder ==
    /\ session = "building"
    /\ session' = "none" /\ draft' = <<>>
    /\ UNCHANGED <<index, at, phase, loaded, bound, held, outcome, history>>

\* Another program changes files, or the manifest, while nobody uses them.
Edit ==
    /\ session = "none"
    /\ \E i \in DOMAIN index : \E s \in Edits(index, i) :
          index' = [index EXCEPT ![i] = s]
    /\ history' = Unseen(TRUE)
    /\ UNCHANGED <<session, at, phase, loaded, bound, held, draft, outcome>>

-------------------------------------------------------------------------------
Next ==
    \/ OpenRefused \/ StartOpen \/ OpenFiles \/ CheckFiles \/ LoadRows
    \/ Bind \/ FinishOpen \/ CloseIndex
    \/ Create \/ StartAppend \/ VerifySegment \/ StartBuilding
    \/ \E id \in Ids, rows \in RowCounts : StageSegment(id, rows)
    \/ Commit \/ DropBuilder \/ Edit

Spec == Init /\ [][Next]_vars

-------------------------------------------------------------------------------
(* Properties.                                                                 *)

Unreadable == {"Corrupt", "IdentityMismatch", "CertificateInvalid"}

\* "Appending must not turn committed corruption into a fresh generation"
\* (builder.rs:172): an index that open finds corrupt was rewritten after its
\* last commit.  What append checks of the old segments, and what a commit
\* writes, leaves open nothing to refuse.
FreshGenerationOpens ==
    outcome.call = "open" /\ outcome.error \in Unreadable => history.rewritten

\* Open and append have checks of their own, in an order of their own: neither
\* the largest segments nor a rewrite that open accepts make append refuse.
AppendsWhatOpens == ~ (history.opened /\ history.refused)

\* The certificates of an opened index were bound after the files of every
\* segment had passed (open.rs:132, certified.rs), in the segments' order, and
\* each is of a primary file that belongs with the residual file rows are
\* refined from: no two segments share one.
BoundToTheirFiles ==
    /\ bound # <<>> => Len(loaded) = Len(index)
    /\ \A i \in DOMAIN bound :
          LET s == loaded[bound[i].segment] IN
          /\ bound[i].id = s.id /\ bound[i].of = s.residual.segment
          /\ bound[i].rows = s.residual.rows /\ s.primary.rows = s.residual.rows
    /\ \A i, j \in DOMAIN bound :
          i # j => loaded[i].residual.segment # loaded[j].residual.segment

\* Of the descriptors open leaves to its caller (open.rs, required) it takes one
\* while it runs, however many segments there are, and none when it is done: an
\* open index holds its residual files and the lock, a failed one nothing.
DescriptorsBounded ==
    /\ session = "opening" => held < Descriptors - (Reserved - 2)
    /\ session = "open" => held = Len(index) + 1
    /\ session \notin {"opening", "open"} => held = 0
===============================================================================
