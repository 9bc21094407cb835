-------------------------- MODULE MCSegmentReader --------------------------
(***************************************************************************)
(* What a rewrite makes of a file: one field changed, one section damaged, *)
(* an entry lost, repeated or moved, and a few files that take several     *)
(* changes to make.                                                        *)
(***************************************************************************)
EXTENDS SegmentReader, SequencesExt

CONSTANT RowCounts      \* of the files that are written

Written == {Encode(kind, n, ExpectedIdentity) : kind \in FileKinds, n \in RowCounts}

Others == {"Unknown", "CrcTable", "RadiusFlags", "Pq96Residual", "PqCodebook"}

\* Offsets near which something begins or ends.
Marks(f) ==
    {0, HeaderLen, DirectoryEnd(f), f.len, U64Max}
        \cup {e.offset : e \in Range(f.entries)} \cup {End(e) : e \in Range(f.entries)}

EntriesLike(f, e) == UNION {
    {[e EXCEPT !.kind = k] : k \in Others},
    {[e EXCEPT !.alignment = a] : a \in {0, 3, 4, 128, 8192}},
    {[e EXCEPT !.offset = o] : o \in Marks(f) \cup {e.offset + 64, e.offset + 4}},
    {[e EXCEPT !.length = n] : n \in {e.length \div 2, e.length + 1, U64Max}},
    {[e EXCEPT !.rows = n] : n \in {0, f.rows, f.rows + 1}},
    {[e EXCEPT !.block = n] : n \in {0, BlockSize, 2 * BlockSize}},
    {[e EXCEPT !.crc = n] : n \in 0 .. Len(f.entries) \cup {NoCrcTable}}}

Headers(f) == UNION {
    {[f EXCEPT !.v1 = FALSE], [f EXCEPT !.identity = "other"],
     [f EXCEPT !.sealed = FALSE]},
    {[f EXCEPT !.kind = k] : k \in FileKinds},
    {[f EXCEPT !.rows = n] : n \in {0, f.rows + 1}},
    {[f EXCEPT !.payload = n] : n \in {0, f.payload + 1, U64Max}},
    {[f EXCEPT !.directory = n] :
        n \in {0, HeaderLen - 1, HeaderLen + 1, f.len, U64Max}},
    {[f EXCEPT !.len = n] : n \in {100, f.len + 1}},
    {[f EXCEPT !.len = f.len + 64, !.payload = f.payload + 64]}}

Directories(f) ==
    LET n == Len(f.entries)
        swapped(i) == [f.entries EXCEPT ![i] = f.entries[i + 1], ![i + 1] = f.entries[i]]
    IN  {[f EXCEPT !.entries = SubSeq(@, 1, m)] : m \in {0, n - 1}}
        \cup {[f EXCEPT !.entries = Append(@, e)] :
                 e \in {f.entries[n], [f.entries[n] EXCEPT !.offset = f.len, !.length = 0]}}
        \cup {[f EXCEPT !.entries = swapped(i)] : i \in 1 .. n - 1}

Damages(f) ==
    {[f EXCEPT !.staleBlocks = {i}, !.staleSections = {i}, !.sealed = FALSE] :
        i \in DOMAIN f.entries}
    \cup {[f EXCEPT !.staleSections = {i}] : i \in DOMAIN f.entries}

Edits(f) == UNION (
    {{[f EXCEPT !.entries[i] = e] : e \in EntriesLike(f, f.entries[i])} :
        i \in DOMAIN f.entries}
    \cup {Headers(f), Directories(f), Damages(f)})

\* The two certificates of a primary file share a table, or exchange theirs.
Certificates(f) ==
    {[f EXCEPT !.entries = SubSeq([@ EXCEPT ![6].crc = 10], 1, 11)],
     [f EXCEPT !.entries[5].crc = 11, !.entries[6].crc = 10]}

\* More sections than there may be.
Crowd(f) ==
    {[f EXCEPT !.entries = @ \o [i \in 1 .. n |-> f.entries[Len(f.entries)]],
               !.directory = f.len,
               !.len = f.len + 5000, !.payload = f.payload + 5000] : n \in {60, 61}}

Fresh(f) == f \in Written

\* Residual files of a partial tile are rewritten twice, the others once.
MCRewrites(f) ==
    IF f.entries = <<>> \/ f.rows = 0 \/ Len(f.entries) > 12 THEN {}
    ELSE IF f.kind = "Residual" /\ (Fresh(f) \/ f.rows % TileRows # 0)
         THEN Edits(f) \cup Crowd(f)
    ELSE IF f.kind = "Primary" /\ Fresh(f) THEN Edits(f) \cup Certificates(f)
    ELSE {}
=============================================================================
