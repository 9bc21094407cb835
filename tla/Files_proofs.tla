---------------------------- MODULE Files_proofs ----------------------------
(***************************************************************************)
(* Proofs about what is read back from disk.                               *)
(*                                                                         *)
(* The segment reader: whatever file it is given, what it opens is well    *)
(* formed and its accessors stay inside their sections; what it refuses is *)
(* not well formed, or damaged, or not what was asked for; and so it opens *)
(* whatever the encoder writes.  The loop of check_sections compares       *)
(* neighbours and counts owners, so the invariant says what the entries    *)
(* checked so far have in common.                                          *)
(*                                                                         *)
(* Manifests: validate accepts the lists of segments that partition the    *)
(* rows.  Manifests and CURRENT: what their readers accept is the file,    *)
(* word for word, and the file that was written unless somebody gave it a  *)
(* new hash.                                                               *)
(***************************************************************************)
EXTENDS Files, SegmentFormat_proofs, FiniteSetTheorems, SequenceTheorems, TLAPS

-----------------------------------------------------------------------------
(* The inductive invariant. *)

PastHeader == pc \notin {"header", "refused"}
PastDirectory == PastHeader /\ pc # "directory"
PastSet == PastDirectory /\ pc # "set"
PastEntries == PastSet /\ pc # "entries"
PastOwners == PastEntries /\ pc # "owners"

\* The entries of f before entry n, and the data sections among them.
Before(n) == 1 .. n - 1
DataBefore(f, n) == {i \in Before(n) : ~ IsTable(f, i)}
TableOf(f, i) == f.entries[i].crc + 1

\* The entries before entry n lie one behind the other.
Ordered(f, n) ==
    \A i, j \in Before(n) : i < j => End(f.entries[i]) <= f.entries[j].offset

\* counts[t] is 0 if none of the data sections before entry n names t its
\* table, and more than 1 if several do.
Counted(f, counts, n) ==
    /\ \A t \in DOMAIN f.entries :
          counts[t] > 0 => \E i \in DataBefore(f, n) : TableOf(f, i) = t
    /\ \A i \in DataBefore(f, n) : counts[TableOf(f, i)] > 0
    /\ \A i, j \in DataBefore(f, n) :
          i # j /\ TableOf(f, i) = TableOf(f, j) => counts[TableOf(f, i)] > 1

LoopSound ==
    /\ DOMAIN owners = DOMAIN file.entries
    /\ pc = "entries" => index \in DOMAIN file.entries
    /\ PastEntries => index = Len(file.entries) + 1
    /\ \A i \in Before(index) : EntryError(file, i) = "Ok"
    /\ Ordered(file, index)
    /\ Counted(file, owners, index)

ReadSound == read # NoRead => pc = "open" /\ ReadsInside

IInv ==
    /\ TypeOK
    /\ pc \in {"header", "directory", "set"} => index = 1
    /\ PastHeader => HeaderError(file, asked) = "Ok"
    /\ PastDirectory => DirectoryError(file) = "Ok"
    /\ PastSet => SetError(file) = "Ok" /\ LoopSound
    /\ PastOwners => OwnersError(file, owners) = "Ok"
    /\ ReadSound

-----------------------------------------------------------------------------
(* What it means that a check found nothing. *)

\* The entries of a file are entries, numbered from 1.
LEMMA EntryTypes ==
    ASSUME NEW f \in SegmentFile
    PROVE  /\ f.entries \in Seq(SectionEntry)
           /\ Len(f.entries) \in Nat
           /\ DOMAIN f.entries = 1 .. Len(f.entries)
           /\ \A i \in DOMAIN f.entries : f.entries[i] \in SectionEntry
<1>1. f.entries \in Seq(SectionEntry)
  BY DEF SegmentFile
<1> QED
  BY <1>1

\* A good directory has entries, each of a known kind, after the header.
LEMMA DirectoryFacts ==
    ASSUME NEW f \in SegmentFile, DirectoryError(f) = "Ok"
    PROVE  /\ Len(f.entries) > 0
           /\ HeaderLen <= f.directory
           /\ \A i \in DOMAIN f.entries : f.entries[i].kind \in SectionKinds
<1>1. ASSUME NEW i \in DOMAIN f.entries
      PROVE  f.entries[i].kind \in SectionKinds \cup {"Unknown"}
  <2>1. f.entries[i] \in SectionEntry
    BY EntryTypes
  <2> QED
    BY <2>1 DEF SectionEntry
<1>2. \A i \in DOMAIN f.entries : f.entries[i].kind # "Unknown"
  BY DEF DirectoryError
<1>3. f.entries # <<>> /\ ~ (f.directory < HeaderLen)
  BY DEF DirectoryError
<1>4. f.directory \in Nat
  BY DEF SegmentFile
<1> QED
  BY <1>1, <1>2, <1>3, <1>4, EntryTypes DEF HeaderLen

\* A good set of sections has every required kind, once.
LEMMA SetFacts ==
    ASSUME NEW f \in SegmentFile, SetError(f) = "Ok"
    PROVE  /\ \A i \in DOMAIN f.entries :
                 ~ IsTable(f, i) => f.entries[i].kind \in Required(f.kind)
           /\ \A i, j \in DOMAIN f.entries :
                 ~ IsTable(f, i) /\ i # j
                     => f.entries[i].kind # f.entries[j].kind
           /\ \A k \in Required(f.kind) :
                 \E i \in DOMAIN f.entries : f.entries[i].kind = k
<1> DEFINE bad == {i \in DOMAIN f.entries : Forbidden(f, i) \/ Repeated(f, i)}
<1>1. bad = {}
  BY DEF SetError
<1>2. \A k \in Required(f.kind) :
         \E i \in DOMAIN f.entries : f.entries[i].kind = k
  BY <1>1 DEF SetError
<1>3. \A i \in DOMAIN f.entries : ~ Forbidden(f, i) /\ ~ Repeated(f, i)
  BY <1>1
<1>4. DOMAIN f.entries = 1 .. Len(f.entries) /\ Len(f.entries) \in Nat
  BY EntryTypes
<1>5. ASSUME NEW i \in DOMAIN f.entries, NEW j \in DOMAIN f.entries,
             ~ IsTable(f, i), i # j
      PROVE  f.entries[i].kind # f.entries[j].kind
  <2>1. CASE j < i
    BY <1>3, <1>4, <1>5, <2>1 DEF Repeated
  <2>2. CASE i < j
    BY <1>3, <1>4, <1>5, <2>2 DEF Repeated, IsTable
  <2> QED
    BY <1>4, <1>5, <2>1, <2>2
<1> QED
  BY <1>2, <1>3, <1>5 DEF Forbidden

\* A good entry is aligned, inside the file and behind its neighbour, of the
\* length and the row count its kind needs, and names a fitting table.
LEMMA EntryFacts ==
    ASSUME NEW f \in SegmentFile, NEW i \in DOMAIN f.entries,
           EntryError(f, i) = "Ok"
    PROVE  LET e == f.entries[i] IN
           /\ e.alignment \in Alignments /\ e.offset % e.alignment = 0
           /\ DirectoryEnd(f) <= e.offset /\ End(e) <= f.len
           /\ i > 1 => End(f.entries[i - 1]) <= e.offset
           /\ e.rows = RowsOf(f, e)
           /\ e.kind \in DataKinds => e.length = ExpectedLen(e.kind, f.rows)
           /\ PairingError(f, e) = "Ok"
<1> DEFINE e == f.entries[i]
<1>1. /\ e.alignment \in Alignments /\ e.offset % e.alignment = 0
      /\ InFile(f, e) /\ Follows(f, i)
  BY DEF EntryError
<1>2. /\ e.rows = RowsOf(f, e)
      /\ e.kind \in DataKinds => e.length = ExpectedLen(e.kind, f.rows)
      /\ PairingError(f, e) = "Ok"
  BY DEF EntryError
<1>3. i > 1 => End(f.entries[i - 1]) <= e.offset
  <2>1. SUFFICES ASSUME i > 1
                 PROVE  End(f.entries[i - 1]) <= e.offset
    OBVIOUS
  <2>2. e \in SectionEntry /\ f.entries[i - 1] \in SectionEntry
    BY <2>1, EntryTypes
  <2> QED
    BY <1>1, <2>1, <2>2 DEF Follows, End, SectionEntry
<1> QED
  BY <1>1, <1>2, <1>3 DEF InFile

\* A data section's table is an entry of the directory, of the length the
\* section needs; a table names none.
LEMMA PairingFacts ==
    ASSUME NEW f \in SegmentFile, NEW i \in DOMAIN f.entries,
           PairingError(f, f.entries[i]) = "Ok"
    PROVE  IF IsTable(f, i)
           THEN f.entries[i].crc = NoCrcTable /\ f.entries[i].block = 0
           ELSE /\ TableOf(f, i) \in DOMAIN f.entries
                /\ IsTable(f, TableOf(f, i))
                /\ f.entries[i].block = BlockSize
                /\ f.entries[TableOf(f, i)].length = CrcTableLen(f.entries[i].length)
<1>1. f.entries[i].crc \in Nat
  <2>1. f.entries[i] \in SectionEntry
    BY EntryTypes
  <2> QED
    BY <2>1 DEF SectionEntry
<1> QED
  BY <1>1, EntryTypes
     DEF PairingError, IsTable, TableOf, BlockCount, CrcTableLen

-----------------------------------------------------------------------------
(* A file that is open. *)

\* What the phases established adds up to a well-formed file.
LEMMA OpenIsWellFormed ==
    ASSUME IInv, pc = "open"
    PROVE  WellFormed(file)
<1> DEFINE entries == DOMAIN file.entries
           data == {i \in entries : ~ IsTable(file, i)}
           n == Len(file.entries)
<1>1. /\ file \in SegmentFile
      /\ DirectoryError(file) = "Ok" /\ SetError(file) = "Ok"
      /\ OwnersError(file, owners) = "Ok" /\ LoopSound
      /\ index = n + 1
  BY DEF IInv, TypeOK, PastHeader, PastDirectory, PastSet, PastEntries,
         PastOwners, LoopSound
<1>2. n \in Nat /\ entries = 1 .. n /\ Before(index) = entries
      /\ DataBefore(file, index) = data
  BY <1>1, EntryTypes DEF Before, DataBefore
<1>3. \A i \in entries : EntryError(file, i) = "Ok"
  BY <1>1, <1>2 DEF LoopSound
<1>4. \A i \in entries : PairingError(file, file.entries[i]) = "Ok"
  BY <1>1, <1>3, EntryFacts
<1>5. \A i \in data :
         /\ TableOf(file, i) \in entries \ data
         /\ file.entries[i].block = BlockSize
         /\ file.entries[TableOf(file, i)].length
              = CrcTableLen(file.entries[i].length)
  BY <1>1, <1>4, PairingFacts
<1>6. \A i \in entries \ data :
         file.entries[i].block = 0 /\ file.entries[i].crc = NoCrcTable
  BY <1>1, <1>4, PairingFacts
<1>7. \A t \in entries \ data : owners[t] = 1
  BY <1>1 DEF OwnersError
<1>8. {file.entries[i].kind : i \in data} = Required(file.kind)
  <2>1. \A i \in data : file.entries[i].kind \in Required(file.kind)
    BY <1>1, SetFacts
  <2>2. ASSUME NEW k \in Required(file.kind)
        PROVE  \E i \in data : file.entries[i].kind = k
    <3>1. PICK i \in entries : file.entries[i].kind = k
      BY <1>1, SetFacts
    <3>2. k # "CrcTable"
      BY DEF Required, DataSections
    <3> QED
      BY <3>1, <3>2 DEF IsTable
  <2> QED
    BY <2>1, <2>2
<1>9. {TableOf(file, i) : i \in data} = entries \ data
  <2>1. ASSUME NEW t \in entries \ data
        PROVE  \E i \in data : TableOf(file, i) = t
    BY <1>1, <1>2, <1>7 DEF LoopSound, Counted
  <2> QED
    BY <1>5, <2>1
<1>10. ASSUME NEW i \in data, NEW j \in data, i # j
       PROVE  /\ file.entries[i].kind # file.entries[j].kind
              /\ TableOf(file, i) # TableOf(file, j)
  <2>1. file.entries[i].kind # file.entries[j].kind
    BY <1>1, <1>10, SetFacts
  <2>2. owners[TableOf(file, i)] = 1
    BY <1>5, <1>7
  <2>3. ~ (1 > 1)
    OBVIOUS
  <2>4. TableOf(file, i) = TableOf(file, j) => owners[TableOf(file, i)] > 1
    BY <1>1, <1>2, <1>10 DEF LoopSound, Counted
  <2> QED
    BY <2>1, <2>2, <2>3, <2>4
<1>11. \A i \in data :
          file.entries[i].length = ExpectedLen(file.entries[i].kind, file.rows)
  <2>1. ASSUME NEW i \in data
        PROVE  file.entries[i].kind \in DataKinds
    BY <1>1, DirectoryFacts DEF SectionKinds, IsTable
  <2> QED
    BY <1>1, <1>3, <2>1, EntryFacts
<1>12. \A i \in entries :
          LET e == file.entries[i] IN
          /\ e.alignment \in Alignments /\ e.offset % e.alignment = 0
          /\ e.rows = RowsOf(file, e)
          /\ HeaderLen <= file.directory
          /\ DirectoryEnd(file) <= e.offset /\ End(e) <= file.len
  BY <1>1, <1>3, EntryFacts, DirectoryFacts
<1>13. \A i, j \in entries :
          i < j => End(file.entries[i]) <= file.entries[j].offset
  BY <1>1, <1>2 DEF LoopSound, Ordered
<1> QED
  BY <1>5, <1>6, <1>8, <1>9, <1>10, <1>11, <1>12, <1>13
     DEF WellFormed, TableOf

\* In an open file an accessor finds its section, and only that one.
LEMMA SectionFound ==
    ASSUME IInv, pc = "open", NEW kind \in Required(file.kind)
    PROVE  \E i \in DOMAIN file.entries :
               /\ Section(file, kind) = file.entries[i]
               /\ file.entries[i].kind = kind
               /\ file.entries[i].offset \in Nat
               /\ file.entries[i].length = ExpectedLen(kind, file.rows)
               /\ End(file.entries[i]) <= file.len
<1> DEFINE IsFirst(i) == /\ file.entries[i].kind = kind
                         /\ \A j \in 1 .. i - 1 : file.entries[j].kind # kind
<1>1. file \in SegmentFile /\ SetError(file) = "Ok" /\ WellFormed(file)
  BY OpenIsWellFormed DEF IInv, TypeOK, PastHeader, PastDirectory, PastSet
<1>2. kind # "CrcTable"
  BY DEF Required, DataSections
<1>3. PICK k \in DOMAIN file.entries : file.entries[k].kind = kind
  BY <1>1, SetFacts
<1>4. \A j \in 1 .. k - 1 : j \in DOMAIN file.entries /\ j # k
  BY <1>1, <1>3, EntryTypes
<1>5. IsFirst(k)
  BY <1>1, <1>2, <1>3, <1>4, SetFacts DEF IsTable
<1>6. PICK i \in DOMAIN file.entries :
         IsFirst(i) /\ Section(file, kind) = file.entries[i]
  BY <1>3, <1>5 DEF Section
<1>7. file.entries[i] \in SectionEntry
  BY <1>1, EntryTypes
<1>8. /\ file.entries[i].offset \in Nat
      /\ ~ IsTable(file, i)
  BY <1>2, <1>6, <1>7 DEF IsTable, SectionEntry
<1> QED
  BY <1>1, <1>6, <1>8 DEF WellFormed

\* A read of some bytes of a section stays inside it.
LEMMA ReadKeeps ==
    ASSUME IInv, pc = "open", NEW kind \in Required(file.kind),
           NEW at \in Nat, NEW length \in Nat \ {0},
           at + length <= ExpectedLen(kind, file.rows),
           Read(kind, at, length)
    PROVE  IInv'
<1>1. PICK i \in DOMAIN file.entries :
         /\ Section(file, kind) = file.entries[i]
         /\ file.entries[i].kind = kind
         /\ file.entries[i].offset \in Nat
         /\ file.entries[i].length = ExpectedLen(kind, file.rows)
         /\ End(file.entries[i]) <= file.len
  BY SectionFound
<1> DEFINE e == file.entries[i]
<1>2. /\ read' = [kind |-> kind, from |-> e.offset + at,
                  to |-> e.offset + at + length]
      /\ UNCHANGED <<file, rewrites, asked, pc, index, owners, error>>
  BY <1>1 DEF Read
<1>3. e.length \in Nat
  <2>1. e \in SectionEntry
    BY EntryTypes DEF IInv, TypeOK
  <2> QED
    BY <2>1 DEF SectionEntry
<1>4. /\ e.offset <= read'.from /\ read'.from < read'.to
      /\ read'.to <= End(e) /\ e.kind = read'.kind
  BY <1>1, <1>2, <1>3 DEF End
<1>5. ReadSound'
  BY <1>1, <1>2, <1>4 DEF ReadSound, ReadsInside
<1>6. TypeOK'
  <2>1. kind \in DataKinds
    BY DEF DataKinds, Required, DataSections
  <2>2. read' \in [kind : DataKinds \cup {"none"}, from : Nat, to : Nat]
    BY <1>1, <1>2, <2>1
  <2> QED
    BY <1>2, <2>2 DEF IInv, TypeOK
<1> QED
  BY <1>2, <1>5, <1>6
     DEF IInv, PastHeader, PastDirectory, PastSet, PastEntries, PastOwners,
         LoopSound

\* Every accessor checks its argument well enough for ReadKeeps.
LEMMA AccessKeeps ==
    ASSUME IInv, Access
    PROVE  IInv'
<1> USE ReaderAssumption
<1>a. pc = "open"
  BY DEF Access
<1>0. file.rows \in Nat
  BY DEF IInv, TypeOK, SegmentFile
<1>1. ASSUME NEW kind \in DOMAIN RowBytes, NEW row \in Probes,
             ReadRow(kind, row)
      PROVE  IInv'
  <2>1. /\ pc = "open" /\ kind \in Required(file.kind)
        /\ row \in Nat /\ row + 1 <= file.rows
    BY <1>a, <1>0, <1>1 DEF ReadRow, Read
  <2>2. RowBytes[kind] \in {40, 4, 96}
    BY DEF RowBytes
  <2>3. /\ row * RowBytes[kind] \in Nat /\ RowBytes[kind] \in Nat \ {0}
        /\ row * RowBytes[kind] + RowBytes[kind] <= file.rows * RowBytes[kind]
    <3>1. CASE RowBytes[kind] = 40
      BY <1>0, <2>1, <3>1
    <3>2. CASE RowBytes[kind] = 4
      BY <1>0, <2>1, <3>2
    <3>3. CASE RowBytes[kind] = 96
      BY <1>0, <2>1, <3>3
    <3> QED
      BY <2>2, <3>1, <3>2, <3>3
  <2>4. ExpectedLen(kind, file.rows) = file.rows * RowBytes[kind]
    BY DEF ExpectedLen
  <2>5. Read(kind, row * RowBytes[kind], RowBytes[kind])
    BY <1>1 DEF ReadRow
  <2> QED
    BY <2>1, <2>3, <2>4, <2>5, ReadKeeps
<1>2. ASSUME NEW first \in Probes, NEW count \in Probes,
             RadiusFlagsRange(first, count)
      PROVE  IInv'
  <2>1. /\ pc = "open" /\ "RadiusFlags" \in Required(file.kind)
        /\ first \in Nat /\ count \in Nat \ {0}
        /\ first + count <= file.rows
    BY <1>a, <1>0, <1>2 DEF RadiusFlagsRange, Read
  <2>2. ExpectedLen("RadiusFlags", file.rows) = file.rows * 4
    BY DEF ExpectedLen, RowBytes
  <2>3. /\ first * 4 \in Nat /\ count * 4 \in Nat \ {0}
        /\ first * 4 + count * 4 <= ExpectedLen("RadiusFlags", file.rows)
    BY <1>0, <2>1, <2>2
  <2>4. Read("RadiusFlags", first * 4, count * 4)
    BY <1>2 DEF RadiusFlagsRange
  <2> QED
    BY <2>1, <2>3, <2>4, ReadKeeps
<1>3. ASSUME NEW tile \in Nat, PrimaryTile(tile)
      PROVE  IInv'
  <2>1. /\ pc = "open" /\ "PrimaryDirectInt4" \in Required(file.kind)
        /\ tile + 1 <= CeilDiv(file.rows, TileRows)
    BY <1>a, <1>0, <1>3 DEF PrimaryTile, TileCount, Read, CeilDiv, TileRows
  <2>2. ExpectedLen("PrimaryDirectInt4", file.rows)
          = CeilDiv(file.rows, TileRows) * TileBytes
    BY DEF ExpectedLen, RowBytes
  <2>3. /\ tile * TileBytes \in Nat /\ TileBytes \in Nat \ {0}
        /\ tile * TileBytes + TileBytes
              <= ExpectedLen("PrimaryDirectInt4", file.rows)
    BY <1>0, <2>1, <2>2 DEF CeilDiv, TileRows, TileBytes
  <2>4. Read("PrimaryDirectInt4", tile * TileBytes, TileBytes)
    BY <1>3 DEF PrimaryTile
  <2> QED
    BY <2>1, <2>3, <2>4, ReadKeeps
<1>4. ASSUME NEW row \in Probes, PrimaryCode(row)
      PROVE  IInv'
  <2>1. row \div TileRows \in Nat
    BY DEF TileRows
  <2> QED
    BY <1>3, <1>4, <2>1 DEF PrimaryCode
<1>5. ASSUME NEW kind \in DOMAIN TableBytes, ReadTable(kind)
      PROVE  IInv'
  <2>1. pc = "open" /\ kind \in Required(file.kind)
    BY <1>a, <1>5 DEF ReadTable, Read
  <2>2. ExpectedLen(kind, file.rows) \in Nat \ {0}
    BY DEF ExpectedLen, TableBytes, RowBytes
  <2>3. Section(file, kind).length = ExpectedLen(kind, file.rows)
    BY <2>1, SectionFound
  <2>4. Read(kind, 0, Section(file, kind).length)
    BY <1>5 DEF ReadTable
  <2> QED
    BY <2>1, <2>2, <2>3, <2>4, ReadKeeps
<1> QED
  BY <1>1, <1>2, <1>3, <1>4, <1>5 DEF Access

-----------------------------------------------------------------------------
(* The steps before a file is open. *)

\* The file has no read on record before it is open.
LEMMA NothingRead ==
    ASSUME IInv, pc # "open"
    PROVE  read = NoRead
BY DEF IInv, ReadSound

\* A check that fails leaves nothing to keep but the types.
LEMMA RefusalKeeps ==
    ASSUME IInv, pc # "open", pc' = "refused",
           asked' \in FileKinds \cup {"none"},
           UNCHANGED <<file, rewrites, index, read>>, owners' \in Seq(Nat)
    PROVE  IInv'
<1>1. read' = NoRead
  BY NothingRead
<1> QED
  BY <1>1 DEF IInv, TypeOK, Phases, PastHeader, PastDirectory, PastSet,
              PastEntries, PastOwners, ReadSound

\* A rewrite happens before anything was checked.
LEMMA RewriteKeeps ==
    ASSUME IInv, Rewrite
    PROVE  IInv'
<1>1. /\ pc = "header" /\ file' \in SegmentFile
      /\ rewrites' \in 0 .. MaxRewrites /\ index = 1
      /\ UNCHANGED <<asked, pc, index, owners, error, read>>
  BY ReaderAssumption DEF IInv, TypeOK, Rewrite
<1>2. index' \in 1 .. Len(file'.entries) + 1
  BY <1>1 DEF SegmentFile
<1>3. read' = NoRead
  BY <1>1, NothingRead
<1> QED
  BY <1>1, <1>2, <1>3
     DEF IInv, TypeOK, PastHeader, PastDirectory, PastSet, PastEntries,
         PastOwners, ReadSound

\* The header is good for the kind that was asked for.
LEMMA OpenAsKeeps ==
    ASSUME IInv, NEW kind \in FileKinds, OpenAs(kind)
    PROVE  IInv'
<1>1. CASE HeaderError(file, kind) = "Ok"
  <2>1. /\ pc = "header" /\ pc' = "directory" /\ asked' = kind
        /\ UNCHANGED <<file, rewrites, index, owners, read>>
    BY <1>1 DEF OpenAs, Check
  <2>2. read' = NoRead
    BY <2>1, NothingRead
  <2> QED
    BY <1>1, <2>1, <2>2
       DEF IInv, TypeOK, Phases, PastHeader, PastDirectory, PastSet,
           PastEntries, PastOwners, ReadSound
<1>2. CASE HeaderError(file, kind) # "Ok"
  BY <1>2, RefusalKeeps DEF OpenAs, Check, IInv, TypeOK
<1> QED
  BY <1>1, <1>2

\* So is the directory.
LEMMA ReadDirectoryKeeps ==
    ASSUME IInv, ReadDirectory
    PROVE  IInv'
<1>1. CASE DirectoryError(file) = "Ok"
  <2>1. /\ pc = "directory" /\ pc' = "set"
        /\ UNCHANGED <<file, rewrites, asked, index, owners, read>>
    BY <1>1 DEF ReadDirectory, Check
  <2>2. read' = NoRead
    BY <2>1, NothingRead
  <2> QED
    BY <1>1, <2>1, <2>2
       DEF IInv, TypeOK, Phases, PastHeader, PastDirectory, PastSet,
           PastEntries, PastOwners, ReadSound
<1>2. CASE DirectoryError(file) # "Ok"
  BY <1>2, RefusalKeeps DEF ReadDirectory, Check, IInv, TypeOK
<1> QED
  BY <1>1, <1>2

\* The loop starts with no entry checked and no owner counted.
LEMMA CheckSetKeeps ==
    ASSUME IInv, CheckSet
    PROVE  IInv'
<1>1. /\ file \in SegmentFile /\ index = 1 /\ pc = "set"
      /\ DirectoryError(file) = "Ok" /\ HeaderError(file, asked) = "Ok"
      /\ UNCHANGED <<file, rewrites, asked, index, read>>
      /\ owners' = [i \in DOMAIN file.entries |-> 0]
  BY DEF IInv, TypeOK, CheckSet, NoOwners, Check, PastHeader, PastDirectory
<1>2. owners' \in Seq(Nat)
  BY <1>1, EntryTypes
<1>3. CASE SetError(file) = "Ok"
  <2>1. pc' = "entries"
    BY <1>3 DEF CheckSet, Check
  <2>2. read' = NoRead
    BY <1>1, NothingRead
  <2>3. Before(index') = {} /\ DataBefore(file', index') = {}
    BY <1>1 DEF Before, DataBefore
  <2>4. LoopSound'
    <3>1. 1 \in DOMAIN file.entries
      BY <1>1, EntryTypes, DirectoryFacts
    <3>2. Ordered(file', index') /\ Counted(file', owners', index')
      BY <1>1, <2>3 DEF Ordered, Counted
    <3> QED
      BY <1>1, <2>1, <2>3, <3>1, <3>2 DEF LoopSound, PastEntries
  <2> QED
    BY <1>1, <1>2, <1>3, <2>1, <2>2, <2>4
       DEF IInv, TypeOK, Phases, PastHeader, PastDirectory, PastSet,
           PastEntries, PastOwners, ReadSound
<1>4. CASE SetError(file) # "Ok"
  BY <1>1, <1>2, <1>4, RefusalKeeps DEF CheckSet, Check, IInv, TypeOK
<1> QED
  BY <1>3, <1>4

\* An entry that starts behind its neighbour starts behind all the others.
LEMMA OrderGrows ==
    ASSUME NEW f \in SegmentFile, NEW n \in DOMAIN f.entries,
           Ordered(f, n), EntryError(f, n) = "Ok"
    PROVE  Ordered(f, n + 1)
<1>1. \A i \in DOMAIN f.entries :
         f.entries[i].offset \in Nat /\ f.entries[i].length \in Nat
  <2>1. \A i \in DOMAIN f.entries : f.entries[i] \in SectionEntry
    BY EntryTypes
  <2> QED
    BY <2>1 DEF SectionEntry
<1>2. n \in 1 .. Len(f.entries) /\ Len(f.entries) \in Nat
      /\ DOMAIN f.entries = 1 .. Len(f.entries)
  BY EntryTypes
<1>3. ASSUME NEW i \in Before(n)
      PROVE  End(f.entries[i]) <= f.entries[n].offset
  <2>1. i \in DOMAIN f.entries /\ n - 1 \in DOMAIN f.entries /\ n > 1
    BY <1>2 DEF Before
  <2>2. End(f.entries[n - 1]) <= f.entries[n].offset
    BY <2>1, EntryFacts
  <2>3. CASE i = n - 1
    BY <2>2, <2>3
  <2>4. CASE i < n - 1
    <3>1. n - 1 \in Before(n)
      BY <1>2, <2>1 DEF Before
    <3>2. End(f.entries[i]) <= f.entries[n - 1].offset
      BY <2>4, <3>1 DEF Ordered
    <3> QED
      BY <1>1, <2>1, <2>2, <3>2 DEF End
  <2> QED
    BY <1>2, <2>3, <2>4 DEF Before
<1>4. Before(n + 1) = Before(n) \cup {n} /\ \A i \in Before(n) : ~ n < i
  BY <1>2 DEF Before
<1> QED
  BY <1>2, <1>3, <1>4 DEF Ordered

\* A table that gets an owner counts it.
LEMMA CountGrows ==
    ASSUME NEW f \in SegmentFile, NEW n \in DOMAIN f.entries,
           NEW counts \in Seq(Nat), DOMAIN counts = DOMAIN f.entries,
           \A i \in Before(n) : EntryError(f, i) = "Ok",
           Counted(f, counts, n), EntryError(f, n) = "Ok"
    PROVE  Counted(f, IF IsTable(f, n) THEN counts
                      ELSE [counts EXCEPT ![TableOf(f, n)] = @ + 1], n + 1)
<1>1. n \in 1 .. Len(f.entries) /\ Len(f.entries) \in Nat
  BY EntryTypes
<1>2. Before(n + 1) = Before(n) \cup {n}
  BY <1>1 DEF Before
<1>3. CASE IsTable(f, n)
  <2>1. DataBefore(f, n + 1) = DataBefore(f, n)
    BY <1>2, <1>3 DEF DataBefore
  <2> QED
    BY <1>3, <2>1 DEF Counted
<1>4. CASE ~ IsTable(f, n)
  <2> DEFINE mine == TableOf(f, n)
             more == [counts EXCEPT ![mine] = @ + 1]
  <2>1. DataBefore(f, n + 1) = DataBefore(f, n) \cup {n}
    BY <1>2, <1>4 DEF DataBefore
  <2>2. mine \in DOMAIN counts
    BY <1>4, EntryFacts, PairingFacts
  <2>3. \A t \in DOMAIN counts : counts[t] \in Nat
    OBVIOUS
  <2>4. /\ more[mine] = counts[mine] + 1
        /\ \A t \in DOMAIN counts \ {mine} : more[t] = counts[t]
    BY <2>2
  <2>5. \A i \in DataBefore(f, n) :
           TableOf(f, i) \in DOMAIN counts /\ counts[TableOf(f, i)] > 0
    <3>1. \A i \in DataBefore(f, n) : counts[TableOf(f, i)] > 0
      BY DEF Counted
    <3>2. \A i \in DataBefore(f, n) : TableOf(f, i) \in DOMAIN counts
      BY <1>1, EntryTypes, EntryFacts, PairingFacts DEF DataBefore, Before
    <3> QED
      BY <3>1, <3>2
  <2>6. \A t \in DOMAIN f.entries :
           more[t] > 0 => \E i \in DataBefore(f, n + 1) : TableOf(f, i) = t
    BY <2>1, <2>2, <2>4 DEF Counted
  <2>7. \A i \in DataBefore(f, n + 1) : more[TableOf(f, i)] > 0
    BY <2>1, <2>2, <2>3, <2>4, <2>5
  <2>8. ASSUME NEW i \in DataBefore(f, n + 1), NEW j \in DataBefore(f, n + 1),
               i # j, TableOf(f, i) = TableOf(f, j)
        PROVE  more[TableOf(f, i)] > 1
    <3>1. CASE i = n \/ j = n
      BY <2>1, <2>2, <2>3, <2>4, <2>5, <2>8, <3>1
    <3>2. CASE i # n /\ j # n
      <4>1. counts[TableOf(f, i)] > 1
        BY <2>1, <2>8, <3>2 DEF Counted
      <4> QED
        BY <2>1, <2>2, <2>3, <2>4, <2>5, <3>2, <4>1
    <3> QED
      BY <3>1, <3>2
  <2> QED
    BY <1>4, <2>6, <2>7, <2>8 DEF Counted
<1> QED
  BY <1>3, <1>4

\* A turn of the loop adds one entry to those known to be good.
LEMMA CheckEntryKeeps ==
    ASSUME IInv, CheckEntry
    PROVE  IInv'
<1> DEFINE n == Len(file.entries)
<1>1. /\ file \in SegmentFile /\ pc = "entries" /\ LoopSound
      /\ HeaderError(file, asked) = "Ok" /\ DirectoryError(file) = "Ok"
      /\ SetError(file) = "Ok" /\ index \in DOMAIN file.entries
      /\ UNCHANGED <<file, rewrites, asked, read>>
  BY DEF IInv, TypeOK, CheckEntry, Check, PastHeader, PastDirectory, PastSet,
         LoopSound
<1>2. n \in Nat /\ index \in 1 .. n /\ DOMAIN file.entries = 1 .. n
  BY <1>1, EntryTypes
<1>3. CASE EntryError(file, index) = "Ok"
  <2>1. /\ index' = index + 1
        /\ pc' = IF index = n THEN "owners" ELSE "entries"
        /\ owners' = IF IsTable(file, index) THEN owners
                     ELSE [owners EXCEPT ![TableOf(file, index)] = @ + 1]
    BY <1>3 DEF CheckEntry, Check, IsTable, TableOf
  <2>2. owners \in Seq(Nat) /\ DOMAIN owners = DOMAIN file.entries
    BY <1>1 DEF IInv, TypeOK, LoopSound
  <2>3. ~ IsTable(file, index) => TableOf(file, index) \in DOMAIN owners
    BY <1>1, <1>3, <2>2, EntryFacts, PairingFacts
  <2>4. owners' \in Seq(Nat) /\ DOMAIN owners' = DOMAIN file.entries
    BY <2>1, <2>2, <2>3
  <2>5. Ordered(file, index + 1) /\ Counted(file, owners', index + 1)
    BY <1>1, <1>3, <2>1, <2>2, OrderGrows, CountGrows DEF LoopSound
  <2>6. \A i \in Before(index + 1) : EntryError(file, i) = "Ok"
    BY <1>1, <1>2, <1>3 DEF LoopSound, Before
  <2>7. LoopSound'
    <3>1. CASE index = n
      BY <1>1, <1>2, <2>1, <2>4, <2>5, <2>6, <3>1 DEF LoopSound, PastEntries
    <3>2. CASE index # n
      BY <1>1, <1>2, <2>1, <2>4, <2>5, <2>6, <3>2
         DEF LoopSound, PastEntries, PastSet
    <3> QED
      BY <3>1, <3>2
  <2>8. read' = NoRead
    BY <1>1, NothingRead
  <2>9. TypeOK'
    BY <1>1, <1>2, <2>1, <2>4 DEF IInv, TypeOK, Phases
  <2> QED
    BY <1>1, <2>1, <2>7, <2>8, <2>9
       DEF IInv, PastHeader, PastDirectory, PastSet, PastEntries, PastOwners,
           ReadSound
<1>4. CASE EntryError(file, index) # "Ok"
  BY <1>1, <1>4, RefusalKeeps DEF CheckEntry, Check, IInv, TypeOK
<1> QED
  BY <1>3, <1>4

\* The phases after the loop change nothing but the phase.
LEMMA LatePhasesKeep ==
    ASSUME IInv, CheckOwners \/ CheckBlocks \/ CheckIdentities \/ CheckSeal
    PROVE  IInv'
<1>1. /\ pc \in {"owners", "blocks", "identities", "seal"}
      /\ UNCHANGED <<file, rewrites, asked, index, owners, read>>
  BY DEF CheckOwners, CheckBlocks, CheckIdentities, CheckSeal, Check
<1>2. CASE pc' = "refused"
  BY <1>1, <1>2, RefusalKeeps DEF IInv, TypeOK
<1>3. CASE pc' # "refused"
  <2>1. /\ pc' \in {"blocks", "identities", "seal", "open"}
        /\ pc = "owners" => OwnersError(file, owners) = "Ok"
    BY <1>3 DEF CheckOwners, CheckBlocks, CheckIdentities, CheckSeal, Check
  <2>2. OwnersError(file, owners) = "Ok"
    BY <1>1, <2>1 DEF IInv, PastHeader, PastDirectory, PastSet, PastEntries,
                      PastOwners
  <2>3. read' = NoRead
    BY <1>1, NothingRead
  <2>4. LoopSound /\ index = Len(file.entries) + 1
    BY <1>1 DEF IInv, LoopSound, PastHeader, PastDirectory, PastSet,
                PastEntries
  <2>5. LoopSound'
    BY <1>1, <2>1, <2>4 DEF LoopSound
  <2>6. TypeOK'
    BY <1>1, <2>1 DEF IInv, TypeOK, Phases
  <2> QED
    BY <1>1, <2>1, <2>2, <2>3, <2>5, <2>6
       DEF IInv, PastHeader, PastDirectory, PastSet, PastEntries, PastOwners,
           ReadSound
<1> QED
  BY <1>2, <1>3

-----------------------------------------------------------------------------
(* The theorems. *)

\* The invariant holds in every state of every reader.
THEOREM ReaderInductive == Spec => []IInv
<1>1. Init => IInv
  <2>1. Init => TypeOK
    BY ReaderAssumption DEF Init, TypeOK, Phases, NoRead, SegmentFile
  <2> QED
    BY <2>1 DEF Init, IInv, PastHeader, PastDirectory, PastSet, PastEntries,
                PastOwners, ReadSound
<1>2. IInv /\ [Next]_vars => IInv'
  <2> SUFFICES ASSUME IInv, [Next]_vars
               PROVE  IInv'
    OBVIOUS
  <2>1. CASE Rewrite
    BY <2>1, RewriteKeeps
  <2>2. CASE Open
    BY <2>2, OpenAsKeeps, ReadDirectoryKeeps, CheckSetKeeps, CheckEntryKeeps,
       LatePhasesKeep DEF Open
  <2>3. CASE Access
    BY <2>3, AccessKeeps
  <2>4. CASE UNCHANGED vars
    BY <2>4 DEF vars, IInv, TypeOK, PastHeader, PastDirectory, PastSet,
                PastEntries, PastOwners, LoopSound, ReadSound, ReadsInside
  <2> QED
    BY <2>1, <2>2, <2>3, <2>4 DEF Next, Refused
<1> QED
  BY <1>1, <1>2, PTL DEF Spec

\* The variables keep their types.
THEOREM ReaderTypes == Spec => []TypeOK
<1>1. IInv => TypeOK
  BY DEF IInv
<1> QED
  BY <1>1, ReaderInductive, PTL

\* Only a well-formed file opens: sections apart from each other and from the
\* directory, each with a checksum table of its own.
THEOREM OpensOnlyWellFormed == Spec => []OpenedWellFormed
<1>1. IInv => OpenedWellFormed
  BY OpenIsWellFormed DEF OpenedWellFormed
<1> QED
  BY <1>1, ReaderInductive, PTL

\* No accessor reads a byte outside the section it was asked for.
THEOREM AccessorsStayInside == Spec => []ReadsInside
<1>1. IInv => ReadsInside
  BY DEF IInv, ReadSound, ReadsInside
<1> QED
  BY <1>1, ReaderInductive, PTL

-----------------------------------------------------------------------------
(* A file that is refused.                                                 *)

\* A file there is nothing to refuse about when it is opened as kind.
Acceptable(f, kind) ==
    /\ f.v1 /\ f.rows > 0 /\ f.kind = kind /\ f.identity = ExpectedIdentity
    /\ f.len = HeaderLen + f.payload
    /\ f.entries # <<>> /\ Len(f.entries) <= MaxSections
    /\ WellFormed(f)
    /\ f.staleBlocks = {} /\ f.staleSections = {} /\ f.sealed

\* A table counted more than once is named by two of the data sections before
\* entry n.
TwiceNamed(f, counts, n) ==
    \A t \in DOMAIN f.entries :
       counts[t] > 1 => \E i, j \in DataBefore(f, n) :
                           i # j /\ TableOf(f, i) = t /\ TableOf(f, j) = t

RefusalInv ==
    /\ RefusalsJustified
    /\ PastSet => TwiceNamed(file, owners, index)

\* What a well-formed file says of its entries, one by one.
LEMMA FormFacts ==
    ASSUME NEW f \in SegmentFile, WellFormed(f)
    PROVE  /\ \A i \in DOMAIN f.entries :
                 LET e == f.entries[i] IN
                 /\ e.kind \in SectionKinds
                 /\ e.alignment \in Alignments /\ e.offset % e.alignment = 0
                 /\ e.rows = RowsOf(f, e)
                 /\ HeaderLen <= f.directory
                 /\ DirectoryEnd(f) <= e.offset /\ End(e) <= f.len
           /\ \A i, j \in DOMAIN f.entries :
                 i < j => End(f.entries[i]) <= f.entries[j].offset
           /\ \A i \in DOMAIN f.entries :
                 IsTable(f, i) => f.entries[i].block = 0
                                  /\ f.entries[i].crc = NoCrcTable
           /\ \A i \in DOMAIN f.entries :
                 ~ IsTable(f, i) =>
                    /\ f.entries[i].kind \in Required(f.kind)
                    /\ TableOf(f, i) \in DOMAIN f.entries
                    /\ IsTable(f, TableOf(f, i))
                    /\ f.entries[i].length = ExpectedLen(f.entries[i].kind, f.rows)
                    /\ f.entries[i].block = BlockSize
                    /\ f.entries[TableOf(f, i)].length
                          = CrcTableLen(f.entries[i].length)
           /\ \A i, j \in DOMAIN f.entries :
                 ~ IsTable(f, i) /\ ~ IsTable(f, j) /\ i # j =>
                    /\ f.entries[i].kind # f.entries[j].kind
                    /\ TableOf(f, i) # TableOf(f, j)
           /\ \A t \in DOMAIN f.entries :
                 IsTable(f, t) => \E i \in DOMAIN f.entries :
                                     ~ IsTable(f, i) /\ TableOf(f, i) = t
           /\ \A k \in Required(f.kind) :
                 \E i \in DOMAIN f.entries : f.entries[i].kind = k
<1> DEFINE entries == DOMAIN f.entries
           data == {i \in entries : ~ IsTable(f, i)}
<1>1. /\ {f.entries[i].kind : i \in data} = Required(f.kind)
      /\ {TableOf(f, i) : i \in data} = entries \ data
      /\ \A i, j \in data : i # j => /\ f.entries[i].kind # f.entries[j].kind
                                     /\ TableOf(f, i) # TableOf(f, j)
      /\ \A i \in data :
            /\ f.entries[i].length = ExpectedLen(f.entries[i].kind, f.rows)
            /\ f.entries[i].block = BlockSize
            /\ f.entries[TableOf(f, i)].length = CrcTableLen(f.entries[i].length)
      /\ \A i \in entries \ data :
            f.entries[i].block = 0 /\ f.entries[i].crc = NoCrcTable
      /\ \A i \in entries :
            LET e == f.entries[i] IN
            /\ e.alignment \in Alignments /\ e.offset % e.alignment = 0
            /\ e.rows = RowsOf(f, e)
            /\ HeaderLen <= f.directory
            /\ DirectoryEnd(f) <= e.offset /\ End(e) <= f.len
      /\ \A i, j \in entries : i < j => End(f.entries[i]) <= f.entries[j].offset
  BY Zenon DEF WellFormed, TableOf
<1>2. Required(f.kind) \subseteq DataKinds
  <2>1. f.kind \in FileKinds
    BY DEF SegmentFile
  <2> QED
    BY <2>1 DEF DataKinds, FileKinds
<1>3. \A i \in entries : f.entries[i].kind \in SectionKinds
  <2>1. ASSUME NEW i \in entries PROVE f.entries[i].kind \in SectionKinds
    <3>1. CASE IsTable(f, i)
      BY <3>1 DEF IsTable, SectionKinds
    <3>2. CASE ~ IsTable(f, i)
      BY <1>1, <1>2, <3>2 DEF SectionKinds
    <3> QED
      BY <3>1, <3>2
  <2> QED
    BY <2>1
<1>4. \A i \in data : /\ f.entries[i].kind \in Required(f.kind)
                      /\ TableOf(f, i) \in entries /\ IsTable(f, TableOf(f, i))
  BY <1>1
<1>5. \A t \in entries : IsTable(f, t) => \E i \in data : TableOf(f, i) = t
  BY <1>1
<1>6. \A k \in Required(f.kind) : \E i \in entries : f.entries[i].kind = k
  BY <1>1
<1> QED
  BY <1>1, <1>3, <1>4, <1>5, <1>6

\* No phase before the owners are counted refuses such a file.
LEMMA AcceptableHeader ==
    ASSUME NEW f \in SegmentFile, NEW kind, Acceptable(f, kind)
    PROVE  HeaderError(f, kind) = "Ok"
<1>1. /\ f.len \in Nat /\ f.payload \in Nat /\ f.rows \in Nat /\ U64Max \in Nat
      /\ f.len <= U64Max
  BY U64Assumption DEF SegmentFile
<1>2. DecodeError(f) = "Ok" /\ MeetsExpectations(f)
  BY <1>1 DEF Acceptable, DecodeError, MeetsExpectations
<1>3. ~ f.len < HeaderLen /\ ~ HeaderLen + f.payload > U64Max
  BY <1>1 DEF Acceptable, HeaderLen
<1> QED
  BY <1>2, <1>3 DEF Acceptable, HeaderError

LEMMA AcceptableDirectory ==
    ASSUME NEW f \in SegmentFile, NEW kind, Acceptable(f, kind)
    PROVE  DirectoryError(f) = "Ok"
<1>1. /\ f.entries # <<>> /\ Len(f.entries) <= MaxSections
      /\ WellFormed(f) /\ f.len <= U64Max
  BY U64Assumption DEF Acceptable, SegmentFile
<1>2. /\ 1 \in DOMAIN f.entries /\ f.entries[1] \in SectionEntry
      /\ Len(f.entries) \in Nat
  BY <1>1, EntryTypes
<1>3. /\ HeaderLen <= f.directory
      /\ DirectoryEnd(f) <= f.entries[1].offset /\ End(f.entries[1]) <= f.len
  BY <1>1, <1>2, FormFacts
<1>4. f.len \in Nat /\ f.directory \in Nat /\ U64Max \in Nat
  BY U64Assumption DEF SegmentFile
<1>5. /\ ~ DirectoryEnd(f) > U64Max /\ ~ DirectoryEnd(f) > f.len
      /\ ~ f.directory < HeaderLen /\ ~ Len(f.entries) > MaxSections
  <2>1. f.entries[1].offset \in Nat /\ f.entries[1].length \in Nat
    BY <1>2 DEF SectionEntry
  <2>2. DirectoryEnd(f) \in Nat
    BY <1>2, <1>4 DEF DirectoryEnd, EntryLen
  <2>3. DirectoryEnd(f) <= f.len
    BY <1>3, <1>4, <2>1, <2>2 DEF End
  <2>4. HeaderLen \in Nat /\ MaxSections \in Nat
    BY DEF HeaderLen, MaxSections
  <2> QED
    BY <1>1, <1>2, <1>3, <1>4, <2>2, <2>3, <2>4
<1>6. \A i \in DOMAIN f.entries : f.entries[i].kind # "Unknown"
  <2>1. "Unknown" \notin SectionKinds
    BY DEF SectionKinds, DataKinds, Required, DataSections
  <2> QED
    BY <1>1, <2>1, FormFacts
<1> QED
  BY <1>1, <1>5, <1>6 DEF DirectoryError

LEMMA AcceptableSet ==
    ASSUME NEW f \in SegmentFile, NEW kind, Acceptable(f, kind)
    PROVE  SetError(f) = "Ok"
<1>1. WellFormed(f)
  BY DEF Acceptable
<1>2. Len(f.entries) \in Nat /\ DOMAIN f.entries = 1 .. Len(f.entries)
  BY EntryTypes
<1>3. \A i \in DOMAIN f.entries : ~ Forbidden(f, i)
  BY <1>1, FormFacts DEF Forbidden
<1>4. ASSUME NEW i \in DOMAIN f.entries, Repeated(f, i) PROVE FALSE
  <2>1. ~ IsTable(f, i)
    BY <1>4 DEF Repeated
  <2>2. PICK j \in 1 .. i - 1 : f.entries[j].kind = f.entries[i].kind
    BY <1>4 DEF Repeated
  <2>3. j \in DOMAIN f.entries /\ j # i
    BY <1>2, <2>2
  <2>4. ~ IsTable(f, j)
    BY <2>1, <2>2 DEF IsTable
  <2> QED
    BY <1>1, <2>1, <2>2, <2>3, <2>4, FormFacts
<1>5. {i \in DOMAIN f.entries : Forbidden(f, i) \/ Repeated(f, i)} = {}
  BY <1>3, <1>4
<1>6. \A k \in Required(f.kind) : \E i \in DOMAIN f.entries : f.entries[i].kind = k
  BY <1>1, FormFacts
<1> QED
  BY <1>5, <1>6 DEF SetError

LEMMA AcceptableEntry ==
    ASSUME NEW f \in SegmentFile, NEW kind, Acceptable(f, kind),
           NEW i \in DOMAIN f.entries
    PROVE  EntryError(f, i) = "Ok"
<1> DEFINE e == f.entries[i]
<1>1. /\ WellFormed(f) /\ f.len <= U64Max /\ f.len \in Nat /\ U64Max \in Nat
      /\ Len(f.entries) <= MaxSections
  BY U64Assumption DEF Acceptable, SegmentFile
<1>2. /\ Len(f.entries) \in Nat /\ DOMAIN f.entries = 1 .. Len(f.entries)
      /\ \A j \in DOMAIN f.entries : f.entries[j] \in SectionEntry
  BY EntryTypes
<1>3. /\ e.alignment \in Alignments /\ e.offset % e.alignment = 0
      /\ e.rows = RowsOf(f, e) /\ e.kind \in SectionKinds
      /\ DirectoryEnd(f) <= e.offset /\ End(e) <= f.len
  BY <1>1, FormFacts
<1>4. End(e) \in Nat
  <2>1. e \in SectionEntry
    BY <1>2
  <2> QED
    BY <2>1 DEF SectionEntry, End
<1>5. ~ End(e) > U64Max /\ InFile(f, e)
  BY <1>1, <1>3, <1>4 DEF InFile
<1>6. Follows(f, i) /\ ~ (i > 1 /\ e.offset < f.entries[i - 1].offset)
  <2>1. CASE i = 1
    BY <2>1 DEF Follows
  <2>2. CASE i # 1
    <3>1. i - 1 \in DOMAIN f.entries /\ i - 1 < i
      BY <1>2, <2>2
    <3>2. End(f.entries[i - 1]) <= e.offset
      BY <1>1, <3>1, FormFacts
    <3>3. f.entries[i - 1] \in SectionEntry /\ e \in SectionEntry
      BY <1>2, <3>1
    <3> QED
      BY <3>2, <3>3 DEF Follows, End, SectionEntry
  <2> QED
    BY <2>1, <2>2
<1>7. e.kind \in DataKinds => e.length = ExpectedLen(e.kind, f.rows)
  <2>1. "CrcTable" \notin DataKinds
    BY DEF DataKinds, Required, DataSections
  <2> QED
    BY <1>1, <2>1, FormFacts DEF IsTable
<1>8. PairingError(f, e) = "Ok"
  <2>1. CASE IsTable(f, i)
    <3>1. e.crc = NoCrcTable /\ e.block = 0
      BY <1>1, <2>1, FormFacts
    <3> QED
      BY <2>1, <3>1 DEF PairingError, IsTable
  <2>2. CASE ~ IsTable(f, i)
    <3>1. /\ TableOf(f, i) \in DOMAIN f.entries /\ IsTable(f, TableOf(f, i))
          /\ e.block = BlockSize
          /\ f.entries[TableOf(f, i)].length = CrcTableLen(e.length)
      BY <1>1, <2>2, FormFacts
    <3>2. e.crc \in Nat
      <4>1. e \in SectionEntry
        BY <1>2
      <4> QED
        BY <4>1 DEF SectionEntry
    <3>3. e.crc # NoCrcTable /\ ~ e.crc >= Len(f.entries)
      BY <1>1, <1>2, <3>1, <3>2 DEF TableOf, NoCrcTable, MaxSections
    <3>4. f.entries[e.crc + 1].length = 4 * BlockCount(e)
      BY <3>1 DEF TableOf, CrcTableLen, BlockCount
    <3> QED
      BY <2>2, <3>1, <3>3, <3>4 DEF PairingError, IsTable, TableOf
  <2> QED
    BY <2>1, <2>2
<1> QED
  BY <1>3, <1>5, <1>6, <1>7, <1>8 DEF EntryError

\* Nor does the count: each table is named by one section, and by one only.
LEMMA AcceptableOwners ==
    ASSUME NEW f \in SegmentFile, NEW kind, Acceptable(f, kind),
           NEW counts \in Seq(Nat), DOMAIN counts = DOMAIN f.entries,
           Counted(f, counts, Len(f.entries) + 1),
           TwiceNamed(f, counts, Len(f.entries) + 1)
    PROVE  OwnersError(f, counts) = "Ok"
<1> DEFINE n == Len(f.entries) + 1
<1>1. WellFormed(f)
  BY DEF Acceptable
<1>2. DataBefore(f, n) = {i \in DOMAIN f.entries : ~ IsTable(f, i)}
  BY EntryTypes DEF DataBefore, Before
<1>3. ASSUME NEW t \in DOMAIN f.entries, IsTable(f, t)
      PROVE  counts[t] = 1
  <2>1. counts[t] \in Nat
    OBVIOUS
  <2>2. counts[t] > 0
    <3>1. PICK i \in DataBefore(f, n) : TableOf(f, i) = t
      BY <1>1, <1>2, <1>3, FormFacts
    <3> QED
      BY <3>1 DEF Counted
  <2>3. ~ counts[t] > 1
    <3>1. SUFFICES ASSUME counts[t] > 1 PROVE FALSE
      OBVIOUS
    <3>2. PICK i, j \in DataBefore(f, n) :
             i # j /\ TableOf(f, i) = t /\ TableOf(f, j) = t
      BY <3>1 DEF TwiceNamed
    <3> QED
      BY <1>1, <1>2, <3>2, FormFacts
  <2> QED
    BY <2>1, <2>2, <2>3
<1> QED
  BY <1>3 DEF OwnersError

\* What is counted twice was named twice.
LEMMA TwiceGrows ==
    ASSUME NEW f \in SegmentFile, NEW n \in DOMAIN f.entries,
           NEW counts \in Seq(Nat), DOMAIN counts = DOMAIN f.entries,
           Counted(f, counts, n), TwiceNamed(f, counts, n),
           ~ IsTable(f, n) => TableOf(f, n) \in DOMAIN counts
    PROVE  TwiceNamed(f, IF IsTable(f, n) THEN counts
                         ELSE [counts EXCEPT ![TableOf(f, n)] = @ + 1], n + 1)
<1>1. n \in 1 .. Len(f.entries) /\ Len(f.entries) \in Nat
  BY EntryTypes
<1>2. Before(n + 1) = Before(n) \cup {n} /\ n \notin Before(n)
  BY <1>1 DEF Before
<1>3. CASE IsTable(f, n)
  <2>1. DataBefore(f, n + 1) = DataBefore(f, n)
    BY <1>2, <1>3 DEF DataBefore
  <2> QED
    BY <1>3, <2>1 DEF TwiceNamed
<1>4. CASE ~ IsTable(f, n)
  <2> DEFINE mine == TableOf(f, n)
             more == [counts EXCEPT ![mine] = @ + 1]
  <2>1. DataBefore(f, n + 1) = DataBefore(f, n) \cup {n} /\ n \notin DataBefore(f, n)
    BY <1>2, <1>4 DEF DataBefore
  <2>2. mine \in DOMAIN counts
    BY <1>4
  <2>3. /\ more[mine] = counts[mine] + 1 /\ counts[mine] \in Nat
        /\ \A t \in DOMAIN counts \ {mine} : more[t] = counts[t]
    BY <2>2
  <2>4. ASSUME NEW t \in DOMAIN f.entries, more[t] > 1
        PROVE  \E i, j \in DataBefore(f, n + 1) :
                  i # j /\ TableOf(f, i) = t /\ TableOf(f, j) = t
    <3>1. CASE t = mine
      <4>1. counts[mine] > 0
        BY <2>3, <2>4, <3>1
      <4>2. PICK i \in DataBefore(f, n) : TableOf(f, i) = mine
        BY <2>2, <4>1 DEF Counted
      <4> QED
        BY <2>1, <3>1, <4>2
    <3>2. CASE t # mine
      <4>1. counts[t] > 1
        BY <2>3, <2>4, <3>2
      <4> QED
        BY <2>1, <4>1 DEF TwiceNamed
    <3> QED
      BY <3>1, <3>2
  <2> QED
    BY <1>4, <2>4 DEF TwiceNamed
<1> QED
  BY <1>3, <1>4

\* A phase refuses a file because of something about it.
LEMMA RefusalStep ==
    ASSUME IInv, RefusalInv, [Next]_vars
    PROVE  RefusalInv'
<1> DEFINE Good == Acceptable(file, asked')
<1>1. /\ file \in SegmentFile /\ Len(file.entries) \in Nat
      /\ DOMAIN file.entries = 1 .. Len(file.entries)
  BY EntryTypes DEF IInv, TypeOK
<1>2. RefusalsJustified <=> (pc = "refused" => ~ Acceptable(file, asked))
  BY Zenon DEF RefusalsJustified, Acceptable
<1>3. RefusalsJustified' <=> (pc' = "refused" => ~ Acceptable(file', asked'))
  BY Zenon DEF RefusalsJustified, Acceptable
<1>4. ASSUME NEW phase, NEW result, NEW next, Check(phase, result, next),
             phase # "refused", next # "refused", Good => result = "Ok"
      PROVE  RefusalsJustified'
  <2>1. file' = file /\ pc' = IF result = "Ok" THEN next ELSE "refused"
    BY <1>4 DEF Check
  <2>2. pc' = "refused" => result # "Ok"
    BY <1>4, <2>1
  <2> QED
    BY <1>3, <1>4, <2>1, <2>2
<1>5. CASE Rewrite
  <2>1. pc' = "header"
    BY <1>5 DEF Rewrite
  <2> QED
    BY <1>3, <2>1 DEF RefusalInv, PastSet, PastDirectory, PastHeader
<1>6. ASSUME NEW kind \in FileKinds, OpenAs(kind)
      PROVE  RefusalInv'
  <2>1. /\ asked' = kind /\ Check("header", HeaderError(file, kind), "directory")
        /\ pc' \in {"directory", "refused"}
    BY <1>6 DEF OpenAs, Check
  <2>2. RefusalsJustified'
    BY <1>1, <1>4, <2>1, AcceptableHeader
  <2> QED
    BY <2>1, <2>2 DEF RefusalInv, PastSet, PastDirectory, PastHeader
<1>7. CASE ReadDirectory
  <2>1. /\ Check("directory", DirectoryError(file), "set")
        /\ pc' \in {"set", "refused"}
    BY <1>7 DEF ReadDirectory, Check
  <2>2. RefusalsJustified'
    BY <1>1, <1>4, <2>1, AcceptableDirectory
  <2> QED
    BY <2>1, <2>2 DEF RefusalInv, PastSet, PastDirectory, PastHeader
<1>8. CASE CheckSet
  <2>1. /\ Check("set", SetError(file), "entries")
        /\ owners' = [i \in DOMAIN file.entries |-> 0] /\ file' = file
    BY <1>8 DEF CheckSet, Check, NoOwners
  <2>2. RefusalsJustified'
    BY <1>1, <1>4, <2>1, AcceptableSet
  <2>3. TwiceNamed(file', owners', index')
    BY <2>1 DEF TwiceNamed
  <2> QED
    BY <2>2, <2>3 DEF RefusalInv
<1>9. CASE CheckEntry
  <2>1. /\ Check("entries", EntryError(file, index),
                 IF index = Len(file.entries) THEN "owners" ELSE "entries")
        /\ pc = "entries" /\ file' = file
    BY <1>9 DEF CheckEntry, Check
  <2>2. /\ LoopSound /\ owners \in Seq(Nat) /\ index \in DOMAIN file.entries
        /\ DOMAIN owners = DOMAIN file.entries
        /\ TwiceNamed(file, owners, index) /\ Counted(file, owners, index)
    BY <2>1 DEF IInv, TypeOK, RefusalInv, PastHeader, PastDirectory, PastSet,
                LoopSound
  <2>3. RefusalsJustified'
    BY <1>1, <1>4, <2>1, <2>2, AcceptableEntry
  <2>4. CASE EntryError(file, index) = "Ok"
    <3>1. /\ index' = index + 1
          /\ owners' = IF IsTable(file, index) THEN owners
                       ELSE [owners EXCEPT ![TableOf(file, index)] = @ + 1]
      BY <1>9, <2>4 DEF CheckEntry, IsTable, TableOf
    <3>2. ~ IsTable(file, index) => TableOf(file, index) \in DOMAIN owners
      BY <1>1, <2>2, <2>4, EntryFacts, PairingFacts
    <3>3. TwiceNamed(file, owners', index + 1)
      BY <1>1, <2>2, <3>1, <3>2, TwiceGrows
    <3> QED
      BY <2>1, <2>3, <3>1, <3>3 DEF RefusalInv
  <2>5. CASE EntryError(file, index) # "Ok"
    <3>1. pc' = "refused"
      BY <2>1, <2>5 DEF Check
    <3> QED
      BY <2>3, <3>1 DEF RefusalInv, PastSet, PastDirectory, PastHeader
  <2> QED
    BY <2>4, <2>5
<1>10. CASE CheckOwners
  <2>1. /\ Check("owners", OwnersError(file, owners), "blocks")
        /\ pc = "owners" /\ UNCHANGED <<file, asked, index, owners>>
    BY <1>10 DEF CheckOwners, Check
  <2>2. /\ owners \in Seq(Nat) /\ DOMAIN owners = DOMAIN file.entries
        /\ index = Len(file.entries) + 1
        /\ TwiceNamed(file, owners, index) /\ Counted(file, owners, index)
    BY <2>1 DEF IInv, TypeOK, RefusalInv, PastHeader, PastDirectory, PastSet,
                PastEntries, LoopSound
  <2>3. RefusalsJustified'
    BY <1>1, <1>4, <2>1, <2>2, AcceptableOwners
  <2> QED
    BY <2>1, <2>2, <2>3 DEF RefusalInv
<1>11. CASE CheckBlocks \/ CheckIdentities \/ CheckSeal
  <2>1. /\ pc \in {"blocks", "identities", "seal"}
        /\ UNCHANGED <<file, asked, index, owners>>
    BY <1>11 DEF CheckBlocks, CheckIdentities, CheckSeal, Check
  <2>2. Acceptable(file, asked) => /\ BlocksError(file) = "Ok"
                                   /\ IdentitiesError(file) = "Ok"
                                   /\ SealError(file) = "Ok"
    BY DEF Acceptable, BlocksError, IdentitiesError, SealError
  <2>3. RefusalsJustified'
    BY <1>4, <1>11, <2>1, <2>2 DEF CheckBlocks, CheckIdentities, CheckSeal
  <2>4. TwiceNamed(file, owners, index)
    BY <2>1 DEF RefusalInv, PastHeader, PastDirectory, PastSet
  <2> QED
    BY <2>1, <2>3, <2>4 DEF RefusalInv
<1>12. CASE Access
  <2>1. UNCHANGED <<file, asked, pc, index, owners>>
    BY <1>12 DEF Access, ReadRow, RadiusFlagsRange, PrimaryTile, PrimaryCode,
                 ReadTable, Read
  <2> QED
    BY <1>2, <1>3, <2>1 DEF RefusalInv, PastSet, PastDirectory, PastHeader
<1>13. CASE UNCHANGED vars
  BY <1>2, <1>3, <1>13 DEF vars, RefusalInv, PastSet, PastDirectory, PastHeader
<1> QED
  BY <1>5, <1>6, <1>7, <1>8, <1>9, <1>10, <1>11, <1>12, <1>13
     DEF Next, Open, Refused

\* A file is refused for a reason: not one that is well formed, undamaged and
\* what the caller expects, whatever its rows, gaps and order of sections.
THEOREM RefusesForAReason == Spec => []RefusalsJustified
<1>1. Init => RefusalInv
  BY DEF Init, RefusalInv, RefusalsJustified, PastHeader, PastDirectory, PastSet
<1>2. IInv /\ RefusalInv /\ [Next]_vars => RefusalInv'
  BY RefusalStep
<1>3. RefusalInv => RefusalsJustified
  BY DEF RefusalInv
<1> QED
  BY <1>1, <1>2, <1>3, ReaderInductive, PTL DEF Spec

-----------------------------------------------------------------------------
(* What the encoder writes.                                                *)

\* F has its entries at f, sections first, each with the table as many entries
\* behind it as there are sections.
EncodedAs(F, f, kind, rows, n) ==
    /\ n \in {2, 6} /\ F.len = f[2 * n] + LengthOf(kind, rows, 2 * n)
    /\ F.kind = kind /\ F.rows = rows /\ F.directory = HeaderLen
    /\ Len(F.entries) = 2 * n /\ DOMAIN F.entries = 1 .. 2 * n
    /\ \A i \in 1 .. 2 * n :
          /\ F.entries[i].alignment = 64 /\ F.entries[i].offset = f[i]
          /\ F.entries[i].length = LengthOf(kind, rows, i)
    /\ \A i \in 1 .. n :
          /\ F.entries[i].kind = DataSections(kind)[i]
          /\ F.entries[i].rows = RowsOf(F, F.entries[i])
          /\ F.entries[i].length = ExpectedLen(F.entries[i].kind, rows)
          /\ F.entries[n + i].length = CrcTableLen(F.entries[i].length)
          /\ F.entries[i].block = BlockSize /\ F.entries[i].crc = n + i - 1
    /\ \A i \in n + 1 .. 2 * n :
          /\ F.entries[i].kind = "CrcTable" /\ F.entries[i].rows = 0
          /\ F.entries[i].block = 0 /\ F.entries[i].crc = NoCrcTable

\* The encoder's entries are like that.
LEMMA EncodedEntries ==
    ASSUME NEW kind \in FileKinds, NEW rows \in Nat, NEW identity, NEW f,
           NEW n, n = Len(DataSections(kind)), LaidOut(f, kind, rows, 2 * n),
           NEW F, F = FileAt(f, kind, rows, identity)
    PROVE  EncodedAs(F, f, kind, rows, n)
<1>1. n \in {2, 6}
  BY KindFacts
<1>2. /\ F.entries = [i \in 1 .. 2 * n |-> IF i <= n THEN DataAt(f, kind, rows, i)
                                           ELSE TableAt(f, kind, rows, i)]
      /\ F.len = f[2 * n] + LengthOf(kind, rows, 2 * n)
      /\ F.kind = kind /\ F.rows = rows /\ F.directory = HeaderLen
  BY DEF FileAt
<1>3. Len(F.entries) = 2 * n /\ DOMAIN F.entries = 1 .. 2 * n
  BY <1>1, <1>2
<1>4. ASSUME NEW i \in 1 .. n
      PROVE  /\ i \in 1 .. 2 * n /\ F.entries[i] = DataAt(f, kind, rows, i)
             /\ F.entries[i].kind = DataSections(kind)[i]
             /\ F.entries[i].rows = RowsOf(F, F.entries[i])
             /\ F.entries[i].length = LengthOf(kind, rows, i)
             /\ F.entries[i].length = ExpectedLen(F.entries[i].kind, rows)
             /\ F.entries[n + i].length = CrcTableLen(F.entries[i].length)
             /\ F.entries[i].block = BlockSize /\ F.entries[i].crc = n + i - 1
             /\ F.entries[i].alignment = 64 /\ F.entries[i].offset = f[i]
  <2>1. /\ i \in 1 .. 2 * n /\ i <= n /\ n + i \in 1 .. 2 * n /\ ~ n + i <= n
        /\ (n + i) - n = i
    BY <1>1
  <2>2. /\ F.entries[i] = DataAt(f, kind, rows, i)
        /\ F.entries[n + i] = TableAt(f, kind, rows, n + i)
    BY <1>2, <2>1
  <2>3. /\ F.entries[i].kind = DataSections(kind)[i]
        /\ F.entries[i].length = LengthOf(kind, rows, i)
        /\ F.entries[i].rows = IF IsRowAddressed(DataSections(kind)[i]) THEN rows ELSE 0
        /\ F.entries[i].block = BlockSize /\ F.entries[i].crc = n + i - 1
        /\ F.entries[i].alignment = 64 /\ F.entries[i].offset = f[i]
    BY <2>2 DEF DataAt, SectionAlignment
  <2>4. F.entries[i].rows = RowsOf(F, F.entries[i])
    BY <1>2, <2>3 DEF RowsOf
  <2>5. LengthOf(kind, rows, i) = ExpectedLen(DataSections(kind)[i], rows)
    BY <2>1 DEF LengthOf
  <2>6. LengthOf(kind, rows, n + i) = CrcTableLen(ExpectedLen(DataSections(kind)[i], rows))
    BY <2>1 DEF LengthOf
  <2>7. F.entries[n + i].length = LengthOf(kind, rows, n + i)
    BY <2>2 DEF TableAt
  <2> QED
    BY <2>1, <2>2, <2>3, <2>4, <2>5, <2>6, <2>7
<1>5. ASSUME NEW i \in n + 1 .. 2 * n
      PROVE  /\ i \in 1 .. 2 * n
             /\ F.entries[i].kind = "CrcTable" /\ F.entries[i].rows = 0
             /\ F.entries[i].length = LengthOf(kind, rows, i)
             /\ F.entries[i].block = 0 /\ F.entries[i].crc = NoCrcTable
             /\ F.entries[i].alignment = 64 /\ F.entries[i].offset = f[i]
  <2>1. i \in 1 .. 2 * n /\ ~ i <= n
    BY <1>1
  <2>2. F.entries[i] = TableAt(f, kind, rows, i)
    BY <1>2, <2>1
  <2> QED
    BY <2>1, <2>2 DEF TableAt, SectionAlignment
<1>6. \A i \in 1 .. 2 * n : i \in 1 .. n \/ i \in n + 1 .. 2 * n
  BY <1>1
<1> QED
  BY <1>1, <1>2, <1>3, <1>4, <1>5, <1>6 DEF EncodedAs

\* The encoder writes well-formed files: every section has a place of its own,
\* behind the one before, and a table.
LEMMA EncodedWellFormed ==
    ASSUME NEW kind \in FileKinds, NEW rows \in Nat, NEW identity, NEW f,
           NEW n, n = Len(DataSections(kind)), LaidOut(f, kind, rows, 2 * n),
           NEW F, F = FileAt(f, kind, rows, identity)
    PROVE  WellFormed(F) /\ F.len \in Nat /\ HeaderLen <= F.len
<1> DEFINE l == [i \in 1 .. 2 * n |-> LengthOf(kind, rows, i)]
           entries == DOMAIN F.entries
           data == {i \in entries : ~ IsTable(F, i)}
           table(i) == F.entries[i].crc + 1
<1>1. /\ n \in {2, 6} /\ F.len = f[2 * n] + LengthOf(kind, rows, 2 * n)
      /\ F.kind = kind /\ F.rows = rows /\ F.directory = HeaderLen
      /\ Len(F.entries) = 2 * n /\ entries = 1 .. 2 * n
      /\ \A i \in 1 .. 2 * n :
            /\ F.entries[i].alignment = 64 /\ F.entries[i].offset = f[i]
            /\ F.entries[i].length = LengthOf(kind, rows, i)
      /\ \A i \in 1 .. n :
            /\ F.entries[i].kind = DataSections(kind)[i]
            /\ F.entries[i].rows = RowsOf(F, F.entries[i])
            /\ F.entries[i].length = ExpectedLen(F.entries[i].kind, rows)
            /\ F.entries[n + i].length = CrcTableLen(F.entries[i].length)
            /\ F.entries[i].block = BlockSize /\ F.entries[i].crc = n + i - 1
      /\ \A i \in n + 1 .. 2 * n :
            /\ F.entries[i].kind = "CrcTable" /\ F.entries[i].rows = 0
            /\ F.entries[i].block = 0 /\ F.entries[i].crc = NoCrcTable
  <2>1. EncodedAs(F, f, kind, rows, n)
    BY EncodedEntries
  <2> QED
    BY <2>1 DEF EncodedAs
<1>2. /\ \A i \in 1 .. n : /\ DataSections(kind)[i] \in DataKinds
                           /\ DataSections(kind)[i] # "CrcTable"
      /\ \A i, j \in 1 .. n : i # j => DataSections(kind)[i] # DataSections(kind)[j]
      /\ Required(kind) = {DataSections(kind)[i] : i \in 1 .. n}
  BY KindFacts
<1>3. /\ 1 .. n \subseteq 1 .. 2 * n /\ 1 .. 2 * n = (1 .. n) \cup (n + 1 .. 2 * n)
      /\ 1 \in 1 .. 2 * n /\ 2 * n \in 1 .. 2 * n /\ 2 * n \in Nat
  BY <1>1
<1>4. data = 1 .. n /\ entries \ data = n + 1 .. 2 * n
  <2>1. \A i \in 1 .. n : ~ IsTable(F, i)
    BY <1>1, <1>2 DEF IsTable
  <2>2. \A i \in n + 1 .. 2 * n : IsTable(F, i)
    BY <1>1 DEF IsTable
  <2>3. \A i \in n + 1 .. 2 * n : i \notin 1 .. n
    BY <1>1
  <2> QED
    BY <1>1, <1>3, <2>1, <2>2, <2>3
<1> HIDE DEF data, entries
<1>5. \A i \in 1 .. n : table(i) = n + i /\ table(i) \in n + 1 .. 2 * n
  <2>1. n \in {2, 6} /\ \A i \in 1 .. n : F.entries[i].crc = n + i - 1
    BY <1>1
  <2>2. n \in Nat
    BY <2>1
  <2>3. \A i \in 1 .. n : table(i) = (n + i - 1) + 1
    BY <2>1
  <2> HIDE DEF table
  <2>4. \A i \in 1 .. n : (n + i - 1) + 1 = n + i /\ n + i \in n + 1 .. 2 * n
    BY <2>2, SMT
  <2> QED
    BY <2>3, <2>4
<1> HIDE DEF table
<1>6. {table(i) : i \in 1 .. n} = n + 1 .. 2 * n
  <2>1. ASSUME NEW t \in n + 1 .. 2 * n PROVE \E i \in 1 .. n : table(i) = t
    <3>1. n \in {2, 6}
      BY <1>1
    <3>2. t - n \in 1 .. n /\ n + (t - n) = t
      BY <3>1
    <3> QED
      BY <1>5, <3>2
  <2> QED
    BY <1>5, <2>1
<1>7. \A i, j \in 1 .. n : i # j => table(i) # table(j)
  <2>1. n \in {2, 6}
    BY <1>1
  <2> QED
    BY <1>5, <2>1
<1>8. l \in [1 .. 2 * n -> Nat] /\ \A i \in 1 .. 2 * n : l[i] = LengthOf(kind, rows, i)
  BY LengthsAreNatural
<1> HIDE DEF l
<1>9. /\ f \in [1 .. 2 * n -> Nat] /\ f[1] >= 240 + 72 * (2 * n)
      /\ \A i \in 1 .. 2 * n : f[i] % 64 = 0
      /\ \A i \in 2 .. 2 * n : f[i - 1] + LengthOf(kind, rows, i - 1) <= f[i]
  BY <1>1 DEF LaidOut
<1>10. \A i \in 2 .. 2 * n : f[i - 1] + l[i - 1] <= f[i]
  <2>1. \A i \in 2 .. 2 * n : i - 1 \in 1 .. 2 * n
    BY <1>1
  <2> QED
    BY <1>8, <1>9, <2>1
<1>11. \A i, j \in 1 .. 2 * n : i < j => f[i] + l[i] <= f[j]
  BY <1>3, <1>8, <1>9, <1>10, Ascend
<1>12. \A i \in 1 .. 2 * n : f[i] \in Nat /\ l[i] \in Nat
  BY <1>8, <1>9
<1>13. \A i \in 1 .. 2 * n : End(F.entries[i]) = f[i] + l[i]
  BY <1>1, <1>8 DEF End
<1>14. DirectoryEnd(F) = 240 + 72 * (2 * n)
  BY <1>1 DEF DirectoryEnd, HeaderLen, EntryLen
<1>15. \A i \in 1 .. 2 * n : DirectoryEnd(F) <= f[i] /\ f[i] + l[i] <= F.len
  <2>1. F.len = f[2 * n] + l[2 * n]
    BY <1>1, <1>3, <1>8
  <2>2. ASSUME NEW i \in 1 .. 2 * n
        PROVE  DirectoryEnd(F) <= f[i] /\ f[i] + l[i] <= F.len
    <3>1. i = 1 \/ f[1] + l[1] <= f[i]
      BY <1>1, <1>3, <1>11
    <3>2. i = 2 * n \/ f[i] + l[i] <= f[2 * n]
      BY <1>1, <1>3, <1>11
    <3>3. /\ f[1] \in Nat /\ l[1] \in Nat /\ f[i] \in Nat /\ l[i] \in Nat
          /\ f[2 * n] \in Nat /\ l[2 * n] \in Nat /\ DirectoryEnd(F) <= f[1]
          /\ DirectoryEnd(F) \in Nat
      BY <1>1, <1>3, <1>9, <1>12, <1>14
    <3>4. DirectoryEnd(F) <= f[i]
      BY <3>1, <3>3
    <3>5. f[i] + l[i] <= F.len
      BY <2>1, <3>2, <3>3
    <3> QED
      BY <3>4, <3>5
  <2> QED
    BY <2>2
<1>16. /\ F.len \in Nat /\ HeaderLen <= F.len
  <2>1. /\ f[2 * n] \in Nat /\ l[2 * n] \in Nat /\ F.len = f[2 * n] + l[2 * n]
        /\ DirectoryEnd(F) <= f[2 * n]
    BY <1>1, <1>3, <1>8, <1>12, <1>15
  <2> QED
    BY <1>1, <1>14, <2>1 DEF HeaderLen
<1>17. {F.entries[i].kind : i \in data} = Required(F.kind)
  <2>1. \A i \in data : F.entries[i].kind = DataSections(kind)[i]
    BY <1>1, <1>4
  <2>2. {F.entries[i].kind : i \in data} = {DataSections(kind)[i] : i \in data}
    BY <2>1
  <2> QED
    BY <1>1, <1>2, <1>4, <2>2
<1>18. {table(i) : i \in data} = entries \ data
  BY <1>4, <1>6
<1>19. \A i, j \in data : i # j => /\ F.entries[i].kind # F.entries[j].kind
                                   /\ table(i) # table(j)
  <2>1. \A i \in data : i \in 1 .. n /\ F.entries[i].kind = DataSections(kind)[i]
    BY <1>1, <1>4
  <2> QED
    BY <1>2, <1>7, <2>1
<1>20. \A i \in data :
          LET e == F.entries[i] IN
          /\ e.length = ExpectedLen(e.kind, F.rows)
          /\ e.block = BlockSize
          /\ F.entries[table(i)].length = CrcTableLen(e.length)
  BY <1>1, <1>4, <1>5
<1>21. \A i \in entries \ data :
          F.entries[i].block = 0 /\ F.entries[i].crc = NoCrcTable
  BY <1>1, <1>4
<1>22. \A i \in 1 .. 2 * n : F.entries[i].rows = RowsOf(F, F.entries[i])
  <2>1. \A i \in n + 1 .. 2 * n : RowsOf(F, F.entries[i]) = 0
    <3>1. ~ IsRowAddressed("CrcTable")
      BY DEF IsRowAddressed, RowBytes
    <3> QED
      BY <1>1, <3>1 DEF RowsOf
  <2> QED
    BY <1>1, <1>3, <2>1
<1>23. \A i \in entries :
          LET e == F.entries[i] IN
          /\ e.alignment \in Alignments /\ e.offset % e.alignment = 0
          /\ e.rows = RowsOf(F, e)
          /\ HeaderLen <= F.directory
          /\ DirectoryEnd(F) <= e.offset /\ End(e) <= F.len
  <2>1. 64 \in Alignments /\ HeaderLen <= F.directory
    BY <1>1 DEF Alignments, HeaderLen
  <2>2. entries = 1 .. 2 * n
    BY <1>1
  <2> QED
    BY <1>1, <1>9, <1>13, <1>15, <1>22, <2>1, <2>2
<1>24. \A i, j \in entries : i < j => End(F.entries[i]) <= F.entries[j].offset
  BY <1>1, <1>11, <1>13
<1>25. WellFormed(F)
  BY <1>17, <1>18, <1>19, <1>20, <1>21, <1>23, <1>24, Zenon
     DEF WellFormed, data, entries, table
<1> QED
  BY <1>16, <1>25

\* There is nothing to refuse about what the encoder writes, as long as the
\* length of a file can be told.
LEMMA EncodedAcceptable ==
    ASSUME NEW kind \in FileKinds, NEW rows \in Nat \ {0}
    PROVE  Acceptable(Encode(kind, rows, ExpectedIdentity), kind)
<1> DEFINE n == Len(DataSections(kind))
<1>1. n \in {2, 6}
  BY KindFacts
<1>2. \A i \in 1 .. 2 * n : LengthOf(kind, rows, i) \in Nat
  BY LengthsAreNatural
<1>3. n \in Nat \ {0} /\ 2 * n \in Nat
  BY <1>1
<1>4. PICK f : LaidOut(f, kind, rows, 2 * n)
  BY <1>2, <1>3, Layout, Zenon
<1> HIDE DEF n
<1> DEFINE F == FileAt(f, kind, rows, ExpectedIdentity)
<1>5. Encode(kind, rows, ExpectedIdentity) = F
  BY <1>4 DEF LaidOut
<1>6. /\ F.v1 /\ F.rows = rows /\ F.kind = kind /\ F.identity = ExpectedIdentity
      /\ F.payload = F.len - HeaderLen
      /\ F.staleBlocks = {} /\ F.staleSections = {} /\ F.sealed
  BY DEF FileAt
<1>7. WellFormed(F) /\ F.len \in Nat /\ HeaderLen <= F.len
  <2>1. rows \in Nat /\ n = Len(DataSections(kind))
    BY DEF n
  <2> QED
    BY <1>4, <2>1, EncodedWellFormed, Zenon
<1>8. Len(F.entries) = 2 * n
  <2>1. rows \in Nat /\ n = Len(DataSections(kind))
    BY DEF n
  <2> QED
    <3>1. EncodedAs(F, f, kind, rows, n)
      BY <1>4, <2>1, EncodedEntries, Zenon
    <3> QED
      BY <3>1 DEF EncodedAs
<1> HIDE DEF F
<1>9. F.len = HeaderLen + F.payload
  BY <1>6, <1>7 DEF HeaderLen
<1>10. F.entries # <<>> /\ Len(F.entries) <= MaxSections
  BY <1>1, <1>8 DEF MaxSections
<1>11. F.rows > 0
  BY <1>6
<1> QED
  BY <1>5, <1>6, <1>7, <1>9, <1>10, <1>11 DEF Acceptable

\* The reader opens whatever the encoder writes, for every number of rows: the
\* two agree on every length, place and pairing.
THEOREM ReadsWhatIsWritten == Spec => []WrittenOpens
<1>1. IInv /\ RefusalInv => WrittenOpens
  <2> SUFFICES ASSUME IInv, RefusalInv, pc = "refused", file.rows > 0,
                      file = Encode(asked, file.rows, ExpectedIdentity)
               PROVE  FALSE
    BY DEF WrittenOpens
  <2>1. file \in SegmentFile /\ ~ Acceptable(file, asked)
    BY Zenon DEF IInv, TypeOK, RefusalInv, RefusalsJustified, Acceptable
  <2>2. file.rows \in Nat \ {0} /\ file.kind \in FileKinds
    BY <2>1 DEF SegmentFile
  <2>3. file.kind = asked
    <3>1. Encode(asked, file.rows, ExpectedIdentity).kind = asked
      BY DEF Encode
    <3> QED
      BY <3>1
  <2>4. Acceptable(Encode(asked, file.rows, ExpectedIdentity), asked)
    BY <2>2, <2>3, EncodedAcceptable
  <2> QED
    BY <2>1, <2>4
<1>2. Init => RefusalInv
  BY DEF Init, RefusalInv, RefusalsJustified, PastHeader, PastDirectory, PastSet
<1>3. IInv /\ RefusalInv /\ [Next]_vars => RefusalInv'
  BY RefusalStep
<1> QED
  BY <1>1, <1>2, <1>3, ReaderInductive, PTL DEF Spec

-----------------------------------------------------------------------------
(* Manifest::validate.  In the next two lemmas F and E hold where each of n *)
(* segments starts and ends.                                                *)

HeldBy(n, F, E, row) == {i \in 1 .. n : F[i] <= row /\ row < E[i]}

\* Segments that each start where the one before it ended, the first at 0, hold
\* every row below the last end once, and no other.
LEMMA ChainHolds ==
    ASSUME NEW n \in Nat \ {0}, NEW F \in [1 .. n -> Nat], NEW E \in [1 .. n -> Nat],
           \A i \in 1 .. n : F[i] < E[i],
           F[1] = 0, \A i \in 2 .. n : F[i] = E[i - 1]
    PROVE  /\ \A i, j \in 1 .. n : i < j => E[i] <= F[j]
           /\ \A row \in Nat : row < E[n] => \E i \in 1 .. n : HeldBy(n, F, E, row) = {i}
           /\ \A row \in Nat : row >= E[n] => HeldBy(n, F, E, row) = {}
  <1>1. ASSUME NEW i \in 1 .. n, NEW k \in 1 .. n, i < k PROVE E[i] <= F[k]
    <2> DEFINE Bad == {j \in 1 .. n : i < j /\ ~ (E[i] <= F[j])}
    <2>1. SUFFICES ASSUME Bad # {} PROVE FALSE
      BY <1>1
    <2>2. Bad \subseteq Nat
      BY SMT
    <2>3. PICK j \in Bad : \A x \in Bad : ~ (x < j)
      BY <2>1, <2>2, LeastNatural
    <2>4. j \in 2 .. n /\ j - 1 \in 1 .. n /\ F[j] = E[j - 1] /\ i < j
      BY <2>3, SMT
    <2>5. j - 1 < j
      BY <2>4, SMT
    <2> HIDE DEF Bad
    <2>50. j - 1 \notin Bad
      BY <2>3, <2>5
    <2> USE DEF Bad
    <2>51. E[i] \in Nat /\ ~ (E[i] <= F[j])
      BY <2>3
    <2>52. ASSUME i = j - 1 PROVE E[i] = F[j]
      BY <2>4, <2>52
    <2>6. i # j - 1
      BY <2>51, <2>52, SMT
    <2>7. E[i] <= F[j - 1]
      BY <2>4, <2>50, <2>6, SMT
    <2>8. E[i] <= F[j]
      BY <2>4, <2>7, SMT
    <2>9. QED
      BY <2>3, <2>8
  <1>2. ASSUME NEW row \in Nat, row < E[n]
        PROVE  \E i \in 1 .. n : HeldBy(n, F, E, row) = {i}
    <2> DEFINE Past == {j \in 1 .. n : row < E[j]}
    <2>1. n \in Past /\ Past \subseteq Nat
      BY <1>2, SMT
    <2>2. PICK i \in Past : \A x \in Past : ~ (x < i)
      BY <2>1, LeastNatural
    <2>3. F[i] <= row
      <3>1. CASE i = 1
        BY <3>1
      <3>2. CASE i # 1
        <4>1. i \in 2 .. n /\ i - 1 \in 1 .. n /\ i - 1 < i
          BY <3>2, <2>2, SMT
        <4>2. ~ (row < E[i - 1])
          BY <4>1, <2>2
        <4>3. QED
          BY <4>1, <4>2, SMT
      <3>3. QED
        BY <3>1, <3>2
    <2>4. ASSUME NEW j \in 1 .. n, F[j] <= row, row < E[j] PROVE j = i
      <3>1. ~ (j < i)
        BY <2>2, <2>4
      <3>2. ~ (i < j)
        <4>1. SUFFICES ASSUME i < j PROVE FALSE
          OBVIOUS
        <4>2. E[i] <= F[j]
          BY <4>1, <1>1
        <4>3. QED
          BY <4>2, <2>2, <2>4, SMT
      <3>3. QED
        BY <3>1, <3>2, <2>2, SMT
    <2>5. QED
      BY <2>2, <2>3, <2>4 DEF HeldBy
  <1>3. ASSUME NEW row \in Nat, row >= E[n] PROVE HeldBy(n, F, E, row) = {}
    <2>1. ASSUME NEW j \in 1 .. n PROVE E[j] <= E[n]
      <3>1. n \in 1 .. n
        BY SMT
      <3>2. CASE j = n
        BY <3>2, SMT
      <3>3. CASE j < n
        BY <3>1, <3>3, <1>1, SMT
      <3>4. QED
        BY <3>2, <3>3, SMT
    <2>2. QED
      BY <1>3, <2>1, SMT DEF HeldBy
  <1>4. QED
    BY <1>1, <1>2, <1>3

\* Segments in ascending order that hold every row below total once, and no
\* other row that is at most top.
HoldOnce(n, F, E, total, top) ==
    /\ n \in Nat \ {0} /\ F \in [1 .. n -> Nat] /\ E \in [1 .. n -> Nat]
    /\ \A i \in 1 .. n : F[i] < E[i]
    /\ \A i, j \in 1 .. n : i < j => F[i] < F[j]
    /\ total \in Nat /\ top \in Nat /\ total <= top
    /\ \A i \in 1 .. n : E[i] - 1 <= top
    /\ \A row \in 0 .. top : row < total => \E i \in 1 .. n : HeldBy(n, F, E, row) = {i}
    /\ \A row \in 0 .. top : row >= total => HeldBy(n, F, E, row) = {}

\* And the other way round: such segments start each where the one before it
\* ended, and the last ends at total.
LEMMA HoldsChain ==
    ASSUME NEW n, NEW F, NEW E, NEW total, NEW top, HoldOnce(n, F, E, total, top)
    PROVE  F[1] = 0 /\ (\A i \in 2 .. n : F[i] = E[i - 1]) /\ E[n] = total
  <1> USE DEF HoldOnce
  <1>1. ASSUME NEW i \in 1 .. n, NEW row \in Nat, F[i] <= row, row < E[i]
        PROVE  row < total /\ HeldBy(n, F, E, row) = {i}
    <2>1. row \in 0 .. top /\ i \in HeldBy(n, F, E, row)
      BY <1>1, SMT DEF HeldBy
    <2>2. row < total
      BY <2>1, SMT
    <2>3. QED
      BY <2>1, <2>2
  <1>2. ASSUME NEW row \in Nat, row < total
        PROVE  \E i \in 1 .. n : F[i] <= row /\ row < E[i]
    <2>1. row \in 0 .. top
      BY <1>2, SMT
    <2>2. QED
      BY <1>2, <2>1 DEF HeldBy
  <1>3. ASSUME NEW i \in 1 .. n, NEW j \in 1 .. n, i < j PROVE E[i] <= F[j]
    <2>1. SUFFICES ASSUME F[j] < E[i] PROVE FALSE
      BY SMT
    <2>2. F[j] \in Nat /\ F[i] \in Nat /\ F[i] < F[j] /\ F[j] < E[j]
      BY <1>3
    <2>20. F[i] <= F[j] /\ F[j] <= F[j]
      BY <2>2, SMT
    <2>3. HeldBy(n, F, E, F[j]) = {i}
      BY <2>1, <2>2, <2>20, <1>1
    <2>30. HeldBy(n, F, E, F[j]) = {j}
      BY <2>2, <2>20, <1>1
    <2>31. i # j
      BY <1>3, SMT
    <2>4. QED
      BY <2>3, <2>30, <2>31
  <1>4. F[1] = 0
    <2>1. 1 \in 1 .. n /\ F[1] \in Nat /\ F[1] <= F[1] /\ F[1] < E[1]
      BY SMT
    <2>2. F[1] < total
      BY <2>1, <1>1
    <2>20. 0 \in Nat /\ 0 < total
      BY <2>1, <2>2, SMT
    <2>3. PICK i \in 1 .. n : F[i] <= 0 /\ 0 < E[i]
      BY <2>20, <1>2
    <2>4. i = 1 \/ 1 < i
      BY SMT
    <2>5. F[i] \in Nat /\ (1 < i => F[1] < F[i])
      BY <2>1
    <2>6. QED
      BY <2>1, <2>3, <2>4, <2>5, SMT
  <1>5. ASSUME NEW i \in 2 .. n PROVE F[i] = E[i - 1]
    <2>1. i \in 1 .. n /\ i - 1 \in 1 .. n /\ i - 1 < i /\ E[i - 1] \in Nat /\ F[i] \in Nat
      BY SMT
    <2>2. E[i - 1] <= F[i]
      BY <2>1, <1>3
    <2>3. SUFFICES ASSUME E[i - 1] < F[i] PROVE FALSE
      BY <2>1, <2>2, SMT
    <2>4. F[i] <= F[i] /\ F[i] < E[i]
      BY <2>1, SMT
    <2>40. F[i] < total
      BY <2>1, <2>4, <1>1
    <2>41. E[i - 1] < total
      BY <2>1, <2>3, <2>40, SMT
    <2>5. PICK j \in 1 .. n : F[j] <= E[i - 1] /\ E[i - 1] < E[j]
      BY <2>1, <2>41, <1>2
    <2>50. j \in Nat /\ F[j] \in Nat /\ E[j] \in Nat /\ (i < j => F[i] < F[j])
      BY <2>1, SMT
    <2>51. i # j
      BY <2>50, <2>1, <2>3, <2>5, SMT
    <2>52. ~ (i < j)
      BY <2>50, <2>1, <2>3, <2>5, SMT
    <2>6. ~ (i <= j)
      BY <2>50, <2>51, <2>52, <2>1, SMT
    <2>7. ASSUME j = i - 1 PROVE FALSE
      <3>1. E[j] = E[i - 1]
        BY <2>7
      <3>2. QED
        BY <3>1, <2>5, <2>50, SMT
    <2>8. j < i - 1
      BY <2>1, <2>6, <2>7, SMT
    <2>9. E[j] <= F[i - 1] /\ F[i - 1] < E[i - 1]
      BY <2>1, <2>8, <1>3
    <2>10. QED
      BY <2>1, <2>5, <2>9, SMT
  <1>6. E[n] = total
    <2>1. n \in 1 .. n /\ E[n] \in Nat /\ F[n] \in Nat /\ F[n] < E[n]
      BY SMT
    <2>2. E[n] - 1 \in Nat /\ F[n] <= E[n] - 1 /\ E[n] - 1 < E[n]
      BY <2>1, SMT
    <2>3. E[n] - 1 < total
      BY <2>1, <2>2, <1>1
    <2>4. SUFFICES ASSUME E[n] < total PROVE FALSE
      BY <2>1, <2>3, SMT
    <2>5. PICK j \in 1 .. n : F[j] <= E[n] /\ E[n] < E[j]
      BY <2>1, <2>4, <1>2
    <2>6. j < n
      BY <2>1, <2>5, SMT
    <2>7. E[j] <= F[n]
      BY <2>1, <2>6, <1>3
    <2>8. QED
      BY <2>1, <2>5, <2>7, SMT
  <1>7. QED
    BY <1>4, <1>5, <1>6

\* The manifests that are listed, or decoded.
ListedEntry == [id : Nat, first : 0 .. MaxRow64, count : Nat]
Listed == [generation : Nat, previous : Nat, model : Nat, total : Nat,
           segments : Seq(ListedEntry)]

FirstOf(s) == [i \in 1 .. Len(s) |-> s[i].first]
EndOf(s) == [i \in 1 .. Len(s) |-> M!End(s[i])]

\* validate takes each entry for itself: it names the first bad one, and so
\* accepts a manifest when none is bad.
LEMMA ValidParts ==
    ASSUME NEW r \in Listed
    PROVE  M!Valid(r, r.generation) <=>
             /\ r.generation > 0
             /\ Len(r.segments) \in 1 .. MaxSegments
             /\ r.total <= MaxRows
             /\ \A i \in 1 .. Len(r.segments) : M!EntryError(r.segments, i) = "Ok"
             /\ M!NextRow(r.segments, Len(r.segments) + 1) = r.total
  <1> DEFINE s == r.segments
             bad == {i \in DOMAIN s : M!EntryError(s, i) # "Ok"}
             first == CHOOSE i \in bad : \A j \in bad : i <= j
  <1>1. s \in Seq(ListedEntry) /\ Len(s) \in Nat /\ DOMAIN s = 1 .. Len(s)
        /\ r.total \in Nat /\ r.generation \in Nat
    BY DEF Listed
  <1>2. ASSUME bad # {} PROVE M!EntryError(s, first) # "Ok"
    <2>1. bad \subseteq Nat
      BY <1>1, SMT
    <2>2. PICK x \in bad : \A y \in bad : ~ (y < x)
      BY <1>2, <2>1, LeastNatural
    <2>3. \A y \in bad : x <= y
      BY <2>1, <2>2, SMT
    <2>4. first \in bad
      BY <2>2, <2>3
    <2>5. QED
      BY <2>4
  <1>3. M!ValidateSegments(s, r.total) =
            IF bad # {} THEN M!EntryError(s, first)
            ELSE IF M!NextRow(s, Len(s) + 1) # r.total THEN "RowSum" ELSE "Ok"
    BY DEF M!ValidateSegments
  <1> HIDE DEF first
  <1>4. M!ValidateSegments(s, r.total) = "Ok" <=>
            bad = {} /\ M!NextRow(s, Len(s) + 1) = r.total
    BY <1>2, <1>3
  <1>5. bad = {} <=> \A i \in 1 .. Len(s) : M!EntryError(s, i) = "Ok"
    BY <1>1
  <1> HIDE DEF bad
  <1>6. M!Valid(r, r.generation) <=>
            /\ r.generation # 0
            /\ Len(s) # 0 /\ ~ (Len(s) > MaxSegments) /\ ~ (r.total > MaxRows)
            /\ M!ValidateSegments(s, r.total) = "Ok"
    BY <1>1 DEF M!Valid, M!Validate
  <1>7. /\ r.generation > 0 <=> r.generation # 0
        /\ Len(s) \in 1 .. MaxSegments <=> Len(s) # 0 /\ ~ (Len(s) > MaxSegments)
        /\ r.total <= MaxRows <=> ~ (r.total > MaxRows)
    BY <1>1, FilesAssumption, SMT
  <1>8. QED
    BY <1>4, <1>5, <1>6, <1>7

\* What an entry that is not bad satisfies.
LEMMA EntryParts ==
    ASSUME NEW s \in Seq(ListedEntry), NEW i \in 1 .. Len(s)
    PROVE  M!EntryError(s, i) = "Ok" <=>
             /\ \A j \in 1 .. i - 1 : s[j].id # s[i].id
             /\ s[i].count \in 1 .. MaxSegmentRows
             /\ M!End(s[i]) <= MaxRow64
             /\ s[i].first = M!NextRow(s, i)
  <1>1. /\ s[i] \in ListedEntry /\ i \in Nat /\ i # 0
        /\ i # 1 => s[i - 1] \in ListedEntry
    <2>1. Len(s) \in Nat /\ DOMAIN s = 1 .. Len(s) /\ \A j \in 1 .. Len(s) : s[j] \in ListedEntry
      OBVIOUS
    <2>2. i # 1 => i - 1 \in 1 .. Len(s)
      BY <2>1, SMT
    <2>3. QED
      BY <2>1, <2>2, SMT
  <1>2. /\ s[i].first \in Nat /\ s[i].count \in Nat /\ M!End(s[i]) \in Nat
        /\ M!NextRow(s, i) \in Nat
    <2>1. \A x \in ListedEntry : x.first \in Nat /\ x.count \in Nat /\ M!End(x) \in Nat
      BY FilesAssumption DEF ListedEntry, M!End
    <2>2. M!NextRow(s, i) \in Nat
      BY <1>1, <2>1 DEF M!NextRow
    <2>3. QED
      BY <1>1, <2>1, <2>2
  <1>3. i = 1 => M!NextRow(s, i) = 0
    BY DEF M!NextRow
  <1> DEFINE dup == \E j \in 1 .. i - 1 : s[j].id = s[i].id
  <1>4. ~ dup <=> \A j \in 1 .. i - 1 : s[j].id # s[i].id
    OBVIOUS
  <1>5. M!EntryError(s, i) =
          CASE dup -> "DuplicateSegment"
            [] s[i].count = 0 \/ s[i].count > MaxSegmentRows -> "RowCount"
            [] M!End(s[i]) > MaxRow64 -> "RowOverflow"
            [] i = 1 /\ s[i].first # 0 -> "FirstRow"
            [] s[i].first < M!NextRow(s, i) -> "Overlap"
            [] s[i].first > M!NextRow(s, i) -> "Gap"
            [] OTHER -> "Ok"
    BY Zenon DEF M!EntryError
  <1> HIDE DEF dup
  <1>6. M!EntryError(s, i) = "Ok" <=>
          /\ ~ dup
          /\ s[i].count \in 1 .. MaxSegmentRows
          /\ M!End(s[i]) <= MaxRow64
          /\ s[i].first = M!NextRow(s, i)
    BY <1>2, <1>3, <1>5, FilesAssumption, SMT
  <1>7. QED
    BY <1>4, <1>6

\* As many ids as entries: no two entries share one.
LEMMA IdsDistinct ==
    ASSUME NEW s \in Seq(ListedEntry)
    PROVE  LET entries == 1 .. Len(s) IN
           /\ Cardinality(entries) = Len(s)
           /\ (Cardinality({s[i].id : i \in entries}) = Cardinality(entries)) <=>
              \A i \in entries : \A j \in 1 .. i - 1 : s[j].id # s[i].id
  <1> DEFINE entries == 1 .. Len(s)
             T == {s[i].id : i \in entries}
             f == [i \in entries |-> s[i].id]
  <1>1. Len(s) \in Nat
    OBVIOUS
  <1>2. IsFiniteSet(entries) /\ Cardinality(entries) = Len(s)
    <2>1. /\ IsFiniteSet(1 .. Len(s))
          /\ Cardinality(1 .. Len(s)) = IF 1 > Len(s) THEN 0 ELSE Len(s) - 1 + 1
      BY <1>1, FS_Interval
    <2>2. QED
      BY <1>1, <2>1, SMT
  <1>3. f \in Surjection(entries, T)
    <2>1. f \in [entries -> T]
      OBVIOUS
    <2>2. \A t \in T : \E i \in entries : f[i] = t
      OBVIOUS
    <2>3. QED
      BY <2>1, <2>2 DEF Surjection
  <1>4. Cardinality(T) = Cardinality(entries) <=> f \in Injection(entries, T)
    <2> HIDE DEF f, T, entries
    <2>1. QED
      BY <1>2, <1>3, FS_Surjection
  <1>5. f \in Injection(entries, T) <=> \A i, j \in entries : s[i].id = s[j].id => i = j
    <2>1. f \in [entries -> T]
      OBVIOUS
    <2>2. \A i \in entries : f[i] = s[i].id
      OBVIOUS
    <2> HIDE DEF f, T, entries
    <2>3. f \in Injection(entries, T) <=> \A i, j \in entries : f[i] = f[j] => i = j
      BY <2>1 DEF Injection, IsInjective
    <2>4. QED
      BY <2>2, <2>3
  <1>6. (\A i, j \in entries : s[i].id = s[j].id => i = j) <=>
        \A i \in entries : \A j \in 1 .. i - 1 : s[j].id # s[i].id
    <2>1. ASSUME \A i, j \in entries : s[i].id = s[j].id => i = j,
                 NEW i \in entries, NEW j \in 1 .. i - 1
          PROVE  s[j].id # s[i].id
      <3>1. j \in entries /\ j # i
        BY <1>1, <2>1, SMT
      <3>2. QED
        BY <2>1, <3>1
    <2>2. ASSUME \A i \in entries : \A j \in 1 .. i - 1 : s[j].id # s[i].id,
                 NEW i \in entries, NEW j \in entries, s[i].id = s[j].id
          PROVE  i = j
      <3>1. i = j \/ j \in 1 .. i - 1 \/ i \in 1 .. j - 1
        BY <1>1, SMT
      <3>2. QED
        BY <2>2, <3>1
    <2>3. QED
      BY <2>1, <2>2
  <1>7. QED
    BY <1>2, <1>4, <1>5, <1>6

\* The rows of the entries, as the lemmas above have them.
LEMMA Bounds ==
    ASSUME NEW r \in Listed
    PROVE  LET s == r.segments IN
           /\ FirstOf(s) \in [1 .. Len(s) -> Nat] /\ EndOf(s) \in [1 .. Len(s) -> Nat]
           /\ Len(s) \in Nat /\ DOMAIN s = 1 .. Len(s)
           /\ \A i \in 1 .. Len(s) :
                 /\ s[i] \in ListedEntry
                 /\ FirstOf(s)[i] = s[i].first /\ s[i].first \in 0 .. MaxRow64
                 /\ EndOf(s)[i] = M!End(s[i]) /\ M!End(s[i]) = s[i].first + s[i].count
                 /\ s[i].count \in Nat
           /\ \A row \in Nat :
                 {i \in DOMAIN s : row \in s[i].first .. M!End(s[i]) - 1} =
                     HeldBy(Len(s), FirstOf(s), EndOf(s), row)
  <1> DEFINE s == r.segments
  <1>1. s \in Seq(ListedEntry)
    BY DEF Listed
  <1> HIDE DEF s
  <1>2. Len(s) \in Nat /\ DOMAIN s = 1 .. Len(s) /\ \A i \in 1 .. Len(s) : s[i] \in ListedEntry
    BY <1>1
  <1>3. \A x \in ListedEntry : /\ x.first \in 0 .. MaxRow64 /\ x.first \in Nat
                              /\ x.count \in Nat
                              /\ M!End(x) = x.first + x.count /\ M!End(x) \in Nat
    BY FilesAssumption DEF ListedEntry, M!End
  <1>4. FirstOf(s) \in [1 .. Len(s) -> Nat] /\ EndOf(s) \in [1 .. Len(s) -> Nat]
    BY <1>2, <1>3 DEF FirstOf, EndOf
  <1>5. \A i \in 1 .. Len(s) : FirstOf(s)[i] = s[i].first /\ EndOf(s)[i] = M!End(s[i])
    BY DEF FirstOf, EndOf
  <1>6. ASSUME NEW row \in Nat
        PROVE  {i \in DOMAIN s : row \in s[i].first .. M!End(s[i]) - 1} =
                   HeldBy(Len(s), FirstOf(s), EndOf(s), row)
    <2>1. \A i \in 1 .. Len(s) :
             row \in s[i].first .. M!End(s[i]) - 1 <=>
                 FirstOf(s)[i] <= row /\ row < EndOf(s)[i]
      <3>1. SUFFICES ASSUME NEW i \in 1 .. Len(s)
                     PROVE  row \in s[i].first .. M!End(s[i]) - 1 <=>
                                FirstOf(s)[i] <= row /\ row < EndOf(s)[i]
        OBVIOUS
      <3>2. s[i].first \in Nat /\ M!End(s[i]) \in Nat
        BY <1>2, <1>3
      <3>3. row \in s[i].first .. M!End(s[i]) - 1 <=> s[i].first <= row /\ row < M!End(s[i])
        BY <3>2, SMT
      <3>4. QED
        BY <3>3, <1>5
    <2>2. QED
      BY <2>1, <1>2, Zenon DEF HeldBy
  <1>7. QED
    BY <1>2, <1>3, <1>4, <1>5, <1>6 DEF s

\* What the entries of a partition are, in the words of the two lemmas on rows.
Partition(r) ==
    LET n == Len(r.segments) IN
    /\ \A i \in 1 .. n : r.segments[i].count \in 1 .. MaxSegmentRows
    /\ \A i, j \in 1 .. n : i < j => r.segments[i].first < r.segments[j].first
    /\ \A row \in 0 .. MaxRow64 + MaxSegmentRows :
          Cardinality({i \in DOMAIN r.segments :
                          row \in r.segments[i].first .. M!End(r.segments[i]) - 1})
              = IF row < r.total THEN 1 ELSE 0

Chained(r) ==
    LET n == Len(r.segments) IN
    /\ \A i \in 1 .. n : /\ r.segments[i].count \in 1 .. MaxSegmentRows
                          /\ M!End(r.segments[i]) <= MaxRow64
                          /\ r.segments[i].first = M!NextRow(r.segments, i)
    /\ M!NextRow(r.segments, n + 1) = r.total

LEMMA ChainedIsPartition ==
    ASSUME NEW r \in Listed, Len(r.segments) # 0, r.total <= MaxRows
    PROVE  Chained(r) <=> Partition(r)
  <1> DEFINE s == r.segments
             n == Len(s)
             F == FirstOf(s)
             E == EndOf(s)
             top == MaxRow64 + MaxSegmentRows
             Holders(row) == {i \in DOMAIN s : row \in s[i].first .. M!End(s[i]) - 1}
  <1>1. /\ n \in Nat \ {0} /\ F \in [1 .. n -> Nat] /\ E \in [1 .. n -> Nat]
        /\ \A i \in 1 .. n : F[i] = s[i].first /\ E[i] = M!End(s[i])
        /\ \A i \in 1 .. n : /\ M!End(s[i]) = s[i].first + s[i].count
                              /\ s[i].count \in Nat /\ s[i].first \in 0 .. MaxRow64
        /\ \A row \in Nat : Holders(row) = HeldBy(n, F, E, row)
    BY Bounds
  <1>2. r.total \in Nat /\ r.total <= MaxRow64 /\ top \in Nat /\ MaxRow64 <= top
        /\ MaxRow64 \in Nat /\ MaxSegmentRows \in Nat
    BY FilesAssumption, SMT DEF Listed
  <1>3. 1 .. n # {} /\ 1 \in 1 .. n /\ n \in 1 .. n /\ \A i \in 2 .. n : i - 1 \in 1 .. n /\ i \in 1 .. n
    BY <1>1, SMT
  <1>4. /\ M!NextRow(s, 1) = 0
        /\ \A i \in 2 .. n : M!NextRow(s, i) = E[i - 1]
        /\ M!NextRow(s, n + 1) = E[n]
    <2>1. \A i \in 2 .. n : i # 1
      BY <1>1, SMT
    <2>2. n + 1 # 1 /\ (n + 1) - 1 = n
      BY <1>1, SMT
    <2>3. QED
      BY <2>1, <2>2, <1>1, <1>3 DEF M!NextRow
  <1>5. (\A i \in 1 .. n : s[i].first = M!NextRow(s, i)) <=>
            F[1] = 0 /\ \A i \in 2 .. n : F[i] = E[i - 1]
    <2>1. \A i \in 1 .. n : i = 1 \/ i \in 2 .. n
      BY <1>1, SMT
    <2>2. QED
      BY <2>1, <1>1, <1>3, <1>4
  <1>6. ASSUME NEW row \in Nat
        PROVE  /\ Cardinality(Holders(row)) = 1 <=> \E i \in 1 .. n : Holders(row) = {i}
               /\ Cardinality(Holders(row)) = 0 <=> Holders(row) = {}
    <2>1. Holders(row) \subseteq 1 .. n /\ IsFiniteSet(1 .. n)
      BY <1>1, FS_Interval DEF HeldBy
    <2>2. IsFiniteSet(Holders(row))
      BY <2>1, FS_Subset
    <2> HIDE DEF Holders
    <2>3. Cardinality(Holders(row)) = 1 <=> \E i : Holders(row) = {i}
      BY <2>2, FS_Singleton
    <2>4. QED
      BY <2>1, <2>2, <2>3, FS_EmptySet
  <1> HIDE DEF s, n, F, E, top
  <1>7. \A i \in 1 .. n : F[i] < E[i] <=> s[i].count # 0
    BY <1>1, SMT
  <1>8. ASSUME Chained(r) PROVE Partition(r)
    <2>1. /\ \A i \in 1 .. n : s[i].count \in 1 .. MaxSegmentRows
          /\ \A i \in 1 .. n : s[i].first = M!NextRow(s, i)
          /\ M!NextRow(s, n + 1) = r.total
      BY <1>8 DEF Chained, s, n
    <2>2. \A i \in 1 .. n : F[i] < E[i]
      BY <2>1, <1>7, SMT
    <2>3. F[1] = 0 /\ (\A i \in 2 .. n : F[i] = E[i - 1]) /\ E[n] = r.total
      BY <2>1, <1>4, <1>5
    <2>4. /\ \A i, j \in 1 .. n : i < j => E[i] <= F[j]
          /\ \A row \in Nat : row < E[n] => \E i \in 1 .. n : HeldBy(n, F, E, row) = {i}
          /\ \A row \in Nat : row >= E[n] => HeldBy(n, F, E, row) = {}
      BY <2>2, <2>3, <1>1, ChainHolds
    <2>5. ASSUME NEW i \in 1 .. n, NEW j \in 1 .. n, i < j PROVE s[i].first < s[j].first
      <3>1. F[i] \in Nat /\ E[i] \in Nat /\ F[j] \in Nat /\ F[i] < E[i] /\ E[i] <= F[j]
        BY <1>1, <2>2, <2>4, <2>5
      <3>2. F[i] < F[j]
        BY <3>1, SMT
      <3>3. QED
        BY <3>2, <1>1
    <2>6. ASSUME NEW row \in 0 .. top
          PROVE  Cardinality(Holders(row)) = IF row < r.total THEN 1 ELSE 0
      <3>1. row \in Nat
        BY <1>2, SMT
      <3>2. CASE row < r.total
        <4>1. \E i \in 1 .. n : Holders(row) = {i}
          BY <3>1, <3>2, <2>3, <2>4, <1>1
        <4>2. QED
          BY <4>1, <3>1, <3>2, <1>6
      <3>3. CASE ~ (row < r.total)
        <4>1. row >= E[n]
          BY <3>1, <3>3, <2>3, <1>2, SMT
        <4>2. Holders(row) = {}
          BY <3>1, <4>1, <2>4, <1>1
        <4>3. QED
          BY <4>2, <3>1, <3>3, <1>6
      <3>4. QED
        BY <3>2, <3>3
    <2>7. QED
      BY <2>1, <2>5, <2>6 DEF Partition, s, n, top
  <1>9. ASSUME Partition(r) PROVE Chained(r)
    <2>1. /\ \A i \in 1 .. n : s[i].count \in 1 .. MaxSegmentRows
          /\ \A i, j \in 1 .. n : i < j => s[i].first < s[j].first
          /\ \A row \in 0 .. top :
                Cardinality(Holders(row)) = IF row < r.total THEN 1 ELSE 0
      BY <1>9 DEF Partition, s, n, top
    <2>2. \A i \in 1 .. n : F[i] < E[i]
      BY <2>1, <1>7, SMT
    <2>3. \A i, j \in 1 .. n : i < j => F[i] < F[j]
      BY <2>1, <1>1
    <2>4. \A i \in 1 .. n : E[i] - 1 <= top
      <3>1. SUFFICES ASSUME NEW i \in 1 .. n PROVE E[i] - 1 <= top
        OBVIOUS
      <3>2. E[i] = s[i].first + s[i].count /\ s[i].first \in 0 .. MaxRow64
            /\ s[i].count \in 1 .. MaxSegmentRows
        BY <1>1, <2>1
      <3>3. QED
        BY <3>2, <1>2, SMT DEF top
    <2>5. ASSUME NEW row \in 0 .. top
          PROVE  /\ row < r.total => \E i \in 1 .. n : HeldBy(n, F, E, row) = {i}
                 /\ row >= r.total => HeldBy(n, F, E, row) = {}
      <3>1. row \in Nat /\ (row >= r.total <=> ~ (row < r.total))
        BY <1>2, SMT
      <3>2. CASE row < r.total
        <4>1. Cardinality(Holders(row)) = 1
          BY <3>2, <2>1
        <4>2. QED
          BY <3>1, <3>2, <4>1, <1>1, <1>6
      <3>3. CASE ~ (row < r.total)
        <4>1. Cardinality(Holders(row)) = 0
          BY <3>3, <2>1
        <4>2. QED
          BY <3>1, <3>3, <4>1, <1>1, <1>6
      <3>4. QED
        BY <3>2, <3>3
    <2>6. r.total <= top
      BY <1>2, SMT
    <2>60. \A row \in 0 .. top : row < r.total => \E i \in 1 .. n : HeldBy(n, F, E, row) = {i}
      BY <2>5
    <2>61. \A row \in 0 .. top : row >= r.total => HeldBy(n, F, E, row) = {}
      BY <2>5
    <2>62. n \in Nat \ {0} /\ F \in [1 .. n -> Nat] /\ E \in [1 .. n -> Nat]
      BY <1>1
    <2>63. r.total \in Nat /\ top \in Nat
      BY <1>2
    <2>64. HoldOnce(n, F, E, r.total, top)
      BY <2>2, <2>3, <2>4, <2>60, <2>61, <2>6, <2>62, <2>63, Zenon DEF HoldOnce
    <2>7. F[1] = 0 /\ (\A i \in 2 .. n : F[i] = E[i - 1]) /\ E[n] = r.total
      BY <2>64, HoldsChain
    <2>8. \A i \in 1 .. n : s[i].first = M!NextRow(s, i)
      BY <2>7, <1>5
    <2>9. ASSUME NEW i \in 1 .. n PROVE M!End(s[i]) <= MaxRow64
      <3>1. \A j, k \in 1 .. n : j < k => E[j] <= F[k]
        BY <2>2, <2>7, <1>1, ChainHolds
      <3>2. i = n \/ i < n
        BY <1>1, SMT
      <3>3. E[i] \in Nat /\ E[n] \in Nat /\ F[n] \in Nat /\ F[n] < E[n]
        BY <1>1, <1>3, <2>2
      <3>4. E[i] <= E[n]
        <4>1. CASE i = n
          BY <4>1, <3>3, SMT
        <4>2. CASE i < n
          <5>1. E[i] <= F[n]
            BY <4>2, <3>1, <1>3
          <5>2. QED
            BY <5>1, <3>3, SMT
        <4>3. QED
          BY <4>1, <4>2, <3>2
      <3>5. E[i] <= MaxRow64
        BY <3>3, <3>4, <2>7, <1>2, SMT
      <3>6. QED
        BY <3>5, <1>1
    <2>10. M!NextRow(s, n + 1) = r.total
      BY <2>7, <1>4
    <2>11. QED
      BY <2>1, <2>8, <2>9, <2>10 DEF Chained, s, n
  <1>10. QED
    BY <1>8, <1>9

\* The instance counts as this module does.
LEMMA SameCardinality == ASSUME NEW S PROVE M!Cardinality(S) = Cardinality(S)
  BY Zenon DEF M!Cardinality, Cardinality

\* validate against what a manifest is for, for every manifest it may be given.
LEMMA ListedAccepted ==
    ASSUME m \in Listed
    PROVE  M!AcceptsPartitions
  <1> DEFINE s == m.segments
             n == Len(s)
  <1>1. s \in Seq(ListedEntry) /\ n \in Nat /\ DOMAIN s = 1 .. n
    BY DEF Listed
  <1>2. /\ Cardinality(1 .. n) = n
        /\ Cardinality({s[i].id : i \in 1 .. n}) = Cardinality(1 .. n) <=>
              \A i \in 1 .. n : \A j \in 1 .. i - 1 : s[j].id # s[i].id
    <2> HIDE DEF s
    <2>1. QED
      BY <1>1, IdsDistinct
  <1>3. Partition(m) <=>
            /\ \A i \in 1 .. n : s[i].count \in 1 .. MaxSegmentRows
            /\ \A i, j \in 1 .. n : i < j => s[i].first < s[j].first
            /\ \A row \in 0 .. MaxRow64 + MaxSegmentRows :
                  Cardinality(M!HoldersOf(row)) = IF row < m.total THEN 1 ELSE 0
    BY DEF Partition, M!HoldersOf
  <1>4. M!AcceptsPartitions <=>
           (M!Valid(m, m.generation) <=>
              /\ m.generation > 0 /\ m.total <= MaxRows
              /\ n \in 1 .. MaxSegments
              /\ \A i \in 1 .. n : \A j \in 1 .. i - 1 : s[j].id # s[i].id
              /\ Partition(m))
    <2>1. M!AcceptsPartitions <=>
           (M!Valid(m, m.generation) <=>
              /\ m.generation > 0 /\ m.total <= MaxRows
              /\ Cardinality(DOMAIN s) \in 1 .. MaxSegments
              /\ Cardinality({s[i].id : i \in DOMAIN s}) = Cardinality(DOMAIN s)
              /\ \A i \in DOMAIN s : s[i].count \in 1 .. MaxSegmentRows
              /\ \A i, j \in DOMAIN s : i < j => s[i].first < s[j].first
              /\ \A row \in 0 .. MaxRow64 + MaxSegmentRows :
                    Cardinality(M!HoldersOf(row)) = IF row < m.total THEN 1 ELSE 0)
      BY SameCardinality, Zenon DEF M!AcceptsPartitions
    <2>2. DOMAIN s = 1 .. n
      BY <1>1
    <2> HIDE DEF s, n
    <2>3. QED
      BY <2>1, <2>2, <1>2, <1>3, Zenon
  <1>5. \A i \in 1 .. n :
           M!EntryError(s, i) = "Ok" <=>
             /\ \A j \in 1 .. i - 1 : s[j].id # s[i].id
             /\ s[i].count \in 1 .. MaxSegmentRows
             /\ M!End(s[i]) <= MaxRow64
             /\ s[i].first = M!NextRow(s, i)
    <2> HIDE DEF s
    <2>1. QED
      BY <1>1, EntryParts
  <1>6. M!Valid(m, m.generation) <=>
              /\ m.generation > 0 /\ m.total <= MaxRows
              /\ n \in 1 .. MaxSegments
              /\ \A i \in 1 .. n : \A j \in 1 .. i - 1 : s[j].id # s[i].id
              /\ Chained(m)
    <2>1. M!Valid(m, m.generation) <=>
             /\ m.generation > 0 /\ n \in 1 .. MaxSegments /\ m.total <= MaxRows
             /\ \A i \in 1 .. n : M!EntryError(s, i) = "Ok"
             /\ M!NextRow(s, n + 1) = m.total
      BY ValidParts
    <2>2. QED
      BY <2>1, <1>5, Zenon DEF Chained
  <1>7. n \in 1 .. MaxSegments => n # 0
    BY FilesAssumption, SMT
  <1>8. n # 0 /\ m.total <= MaxRows => (Chained(m) <=> Partition(m))
    BY ChainedIsPartition
  <1>9. QED
    BY <1>4, <1>6, <1>7, <1>8

-----------------------------------------------------------------------------
(* Sequences of words, whatever these are. *)

IsSeq(s) == \E T : s \in Seq(T)

LEMMA SeqFacts ==
    ASSUME NEW s, IsSeq(s)
    PROVE  Len(s) \in Nat /\ DOMAIN s = 1 .. Len(s)
  BY DEF IsSeq

LEMMA SeqSame ==
    ASSUME NEW s, NEW t, IsSeq(s), IsSeq(t), Len(s) = Len(t),
           \A i \in 1 .. Len(s) : s[i] = t[i]
    PROVE  s = t
  <1>1. PICK S : s \in Seq(S)
    BY DEF IsSeq
  <1>2. PICK T : t \in Seq(T)
    BY DEF IsSeq
  <1>3. s \in Seq(S \cup T) /\ t \in Seq(S \cup T)
    BY <1>1, <1>2
  <1>4. QED
    BY <1>3, SeqEqual

LEMMA AppendFacts ==
    ASSUME NEW s, IsSeq(s), NEW x
    PROVE  /\ IsSeq(Append(s, x)) /\ Len(Append(s, x)) = Len(s) + 1
           /\ \A i \in 1 .. Len(s) : Append(s, x)[i] = s[i]
           /\ Append(s, x)[Len(s) + 1] = x
  <1>1. PICK T : s \in Seq(T)
    BY DEF IsSeq
  <1>2. s \in Seq(T \cup {x}) /\ x \in T \cup {x}
    BY <1>1
  <1>3. Append(s, x) \in Seq(T \cup {x})
    BY <1>2
  <1>4. QED
    BY <1>2, <1>3 DEF IsSeq

LEMMA SubSeqFacts ==
    ASSUME NEW s, IsSeq(s), NEW a \in Nat \ {0}, NEW b \in Nat, b <= Len(s), a <= b + 1
    PROVE  /\ IsSeq(SubSeq(s, a, b)) /\ Len(SubSeq(s, a, b)) = b - a + 1
           /\ \A i \in 1 .. b - a + 1 : SubSeq(s, a, b)[i] = s[a + i - 1]
  <1>1. PICK T : s \in Seq(T)
    BY DEF IsSeq
  <1>2. SubSeq(s, a, b) \in Seq(T)
    BY <1>1, SubSeqProperties
  <1>3. QED
    BY <1>1, <1>2, SubSeqProperties, SMT DEF IsSeq

IsConcat(s, t, st) ==
    /\ IsSeq(st) /\ Len(st) = Len(s) + Len(t)
    /\ \A i \in 1 .. Len(s) : st[i] = s[i]
    /\ \A i \in 1 .. Len(t) : st[Len(s) + i] = t[i]

LEMMA ConcatFacts ==
    ASSUME NEW s, NEW t, IsSeq(s), IsSeq(t)
    PROVE  IsConcat(s, t, s \o t)
  <1>1. PICK S : s \in Seq(S)
    BY DEF IsSeq
  <1>2. PICK T : t \in Seq(T)
    BY DEF IsSeq
  <1>3. s \in Seq(S \cup T) /\ t \in Seq(S \cup T)
    BY <1>1, <1>2
  <1>4. s \o t \in Seq(S \cup T) /\ Len(s \o t) = Len(s) + Len(t)
        /\ \A i \in 1 .. Len(s) + Len(t) : (s \o t)[i] = IF i <= Len(s) THEN s[i] ELSE t[i - Len(s)]
    BY <1>3, ConcatProperties
  <1>5. Len(s) \in Nat /\ Len(t) \in Nat
    BY <1>3
  <1>6. ASSUME NEW i \in 1 .. Len(s) PROVE (s \o t)[i] = s[i]
    <2>1. i \in 1 .. Len(s) + Len(t) /\ i <= Len(s)
      BY <1>5, SMT
    <2>2. QED
      BY <2>1, <1>4
  <1>7. ASSUME NEW i \in 1 .. Len(t) PROVE (s \o t)[Len(s) + i] = t[i]
    <2>1. Len(s) + i \in 1 .. Len(s) + Len(t) /\ ~ (Len(s) + i <= Len(s)) /\ Len(s) + i - Len(s) = i
      BY <1>5, SMT
    <2>2. QED
      BY <2>1, <1>4
  <1>8. QED
    BY <1>4, <1>6, <1>7 DEF IsSeq, IsConcat

LEMMA ExceptFacts ==
    ASSUME NEW s, IsSeq(s), NEW k \in 1 .. Len(s), NEW x
    PROVE  /\ IsSeq([s EXCEPT ![k] = x]) /\ Len([s EXCEPT ![k] = x]) = Len(s)
           /\ [s EXCEPT ![k] = x][k] = x
           /\ \A i \in 1 .. Len(s) : i # k => [s EXCEPT ![k] = x][i] = s[i]
  <1>1. PICK T : s \in Seq(T)
    BY DEF IsSeq
  <1>2. s \in Seq(T \cup {x}) /\ Len(s) \in Nat /\ DOMAIN s = 1 .. Len(s)
    BY <1>1
  <1>3. [s EXCEPT ![k] = x] \in Seq(T \cup {x}) /\ Len([s EXCEPT ![k] = x]) = Len(s)
    BY <1>2, ExceptSeq
  <1>4. QED
    BY <1>2, <1>3 DEF IsSeq

LEMMA TupleFacts ==
    ASSUME NEW a, NEW b, NEW c, NEW d, NEW e
    PROVE  /\ IsSeq(<<>>) /\ Len(<<>>) = 0
           /\ IsSeq(<<a, b>>) /\ Len(<<a, b>>) = 2
           /\ IsSeq(<<a, b, c>>) /\ Len(<<a, b, c>>) = 3
           /\ IsSeq(<<a, b, c, d, e>>) /\ Len(<<a, b, c, d, e>>) = 5
  <1>1. <<>> \in Seq({a})
    OBVIOUS
  <1>2. <<a, b>> \in Seq({a, b})
    OBVIOUS
  <1>3. <<a, b, c>> \in Seq({a, b, c})
    OBVIOUS
  <1>4. <<a, b, c, d, e>> \in Seq({a, b, c, d, e})
    OBVIOUS
  <1>5. QED
    BY <1>1, <1>2, <1>3, <1>4 DEF IsSeq

LEMMA FunctionIsSeq ==
    ASSUME NEW n \in Nat, NEW f, f = [i \in 1 .. n |-> f[i]]
    PROVE  IsSeq(f) /\ Len(f) = n
  <1>1. f \in [1 .. n -> {f[i] : i \in 1 .. n}]
    OBVIOUS
  <1>2. f \in Seq({f[i] : i \in 1 .. n}) /\ Len(f) = n
    BY <1>1, SeqDef
  <1>3. QED
    BY <1>2 DEF IsSeq

-----------------------------------------------------------------------------
(* The framing. *)

WordSet == [word : Nat]

\* A word, a magic, a hash and a checksum are never the same.
LEMMA ItemsDiffer ==
    ASSUME NEW x \in WordSet, NEW y
    PROVE  x # M!Hash(y) /\ x # M!Crc(y)
  <1>1. DOMAIN x = {"word"} /\ DOMAIN M!Hash(y) = {"hash"} /\ DOMAIN M!Crc(y) = {"crc"}
    BY DEF WordSet, M!Hash, M!Crc
  <1>2. {"word"} # {"hash"} /\ {"word"} # {"crc"}
    OBVIOUS
  <1>3. QED
    BY <1>1, <1>2

LEMMA WordFacts ==
    /\ \A n \in Nat : M!Word(n) \in WordSet /\ M!Word(n).word = n
    /\ \A x \in WordSet : x.word \in Nat /\ M!Word(x.word) = x
  BY DEF WordSet, M!Word

LEMMA HashFacts ==
    ASSUME NEW x, NEW y, M!Hash(x) = M!Hash(y)
    PROVE  x = y
  <1>1. M!Hash(x).hash = x /\ M!Hash(y).hash = y
    BY DEF M!Hash
  <1>2. QED
    BY <1>1

LEMMA MagicsDiffer == M!Name(M!CurrentMagic) # M!Name(M!ManifestMagic)
  <1>1. M!Name(M!CurrentMagic).magic = "SPHRCUR1" /\ M!Name(M!ManifestMagic).magic = "SPHRMAN1"
    BY DEF M!Name, M!CurrentMagic, M!ManifestMagic
  <1>2. QED
    BY <1>1

\* The words of a file before its hash.
LEMMA BeforeHash ==
    ASSUME NEW b, IsSeq(b), Len(b) >= 1
    PROVE  LET c == M!Before(b, M!HashLen) IN
           /\ IsSeq(c) /\ Len(c) = Len(b) - 1
           /\ \A i \in 1 .. Len(b) - 1 : c[i] = b[i]
           /\ c = SubSeq(b, 1, Len(b) - 1)
  <1>1. Len(b) \in Nat
    BY SeqFacts
  <1>2. M!Before(b, M!HashLen) = SubSeq(b, 1, Len(b) - 1)
    BY DEF M!Before, M!HashLen
  <1>3. Len(b) - 1 \in Nat /\ Len(b) - 1 <= Len(b) /\ 1 <= Len(b) - 1 + 1
        /\ Len(b) - 1 - 1 + 1 = Len(b) - 1
    BY <1>1, SMT
  <1> DEFINE n == Len(b) - 1
  <1> HIDE DEF n
  <1>4. n \in Nat /\ n <= Len(b) /\ 1 <= n + 1 /\ n - 1 + 1 = n /\ \A i \in 1 .. n : 1 + i - 1 = i
    BY <1>3, SMT DEF n
  <1>5. /\ IsSeq(SubSeq(b, 1, n)) /\ Len(SubSeq(b, 1, n)) = n - 1 + 1
        /\ \A i \in 1 .. n - 1 + 1 : SubSeq(b, 1, n)[i] = b[1 + i - 1]
    BY <1>4, SubSeqFacts
  <1>6. \A i \in 1 .. n : SubSeq(b, 1, n)[i] = b[i]
    BY <1>4, <1>5
  <1>7. QED
    BY <1>2, <1>4, <1>5, <1>6 DEF n

\* What pack makes.
Framed(b, magic, p) ==
    /\ IsSeq(b) /\ Len(b) = Len(p) + 4
    /\ b[1] = M!Name(magic) /\ b[2] = M!Word(1) /\ b[3] = M!Word(Len(p))
    /\ \A i \in 1 .. Len(p) : b[3 + i] = p[i]
    /\ b[Len(b)] = M!Hash(M!Before(b, M!HashLen))

LEMMA PackFrames ==
    ASSUME NEW magic, NEW p, IsSeq(p)
    PROVE  Framed(M!Pack(magic, p), magic, p)
  <1> DEFINE h == M!Header(magic, Len(p))
             body == h \o p
             b == Append(body, M!Hash(body))
  <1>1. Len(p) \in Nat
    BY SeqFacts
  <1>2. h = <<M!Name(magic), M!Word(1), M!Word(Len(p))>>
    BY DEF M!Header
  <1>3. IsSeq(h) /\ Len(h) = 3
    BY <1>2, TupleFacts
  <1>4. h[1] = M!Name(magic) /\ h[2] = M!Word(1) /\ h[3] = M!Word(Len(p))
    BY <1>2
  <1>5. M!Pack(magic, p) = b
    BY DEF M!Pack
  <1> HIDE DEF h
  <1>6. /\ IsSeq(body) /\ Len(body) = Len(p) + 3
        /\ \A i \in 1 .. 3 : body[i] = h[i]
        /\ \A i \in 1 .. Len(p) : body[3 + i] = p[i]
    <2>1. /\ IsSeq(body) /\ Len(body) = Len(h) + Len(p)
          /\ \A i \in 1 .. Len(h) : body[i] = h[i]
          /\ \A i \in 1 .. Len(p) : body[Len(h) + i] = p[i]
      <3>1. IsConcat(h, p, h \o p)
        BY <1>3, ConcatFacts
      <3>2. QED
        BY <3>1, Zenon DEF IsConcat
    <2> HIDE DEF body
    <2>2. 3 + Len(p) = Len(p) + 3
      BY <1>1, SMT
    <2>3. QED
      BY <2>1, <2>2, <1>3, Zenon
  <1> HIDE DEF body
  <1>7. /\ IsSeq(b) /\ Len(b) = Len(body) + 1
        /\ \A i \in 1 .. Len(body) : b[i] = body[i]
        /\ b[Len(body) + 1] = M!Hash(body)
    BY <1>6, AppendFacts
  <1> HIDE DEF b
  <1>8. Len(b) = Len(p) + 4 /\ Len(b) - 1 = Len(body) /\ Len(b) >= 1 /\ Len(body) + 1 = Len(b)
    BY <1>1, <1>6, <1>7, SMT
  <1>9. M!Before(b, M!HashLen) = body
    <2> DEFINE c == M!Before(b, M!HashLen)
    <2>1. IsSeq(c) /\ Len(c) = Len(body) /\ \A i \in 1 .. Len(body) : c[i] = b[i]
      BY <1>7, <1>8, BeforeHash
    <2> HIDE DEF c
    <2>2. \A i \in 1 .. Len(c) : c[i] = body[i]
      BY <2>1, <1>7
    <2>3. c = body
      BY <2>1, <2>2, <1>6, SeqSame
    <2>4. QED
      BY <2>3 DEF c
  <1>10. b[1] = M!Name(magic) /\ b[2] = M!Word(1) /\ b[3] = M!Word(Len(p))
    <2>1. 1 \in 1 .. Len(body) /\ 2 \in 1 .. Len(body) /\ 3 \in 1 .. Len(body)
      BY <1>1, <1>6, SMT
    <2>2. QED
      BY <2>1, <1>4, <1>6, <1>7
  <1>11. \A i \in 1 .. Len(p) : b[3 + i] = p[i]
    <2>1. \A i \in 1 .. Len(p) : 3 + i \in 1 .. Len(body)
      BY <1>1, <1>6, SMT
    <2>2. QED
      BY <2>1, <1>6, <1>7
  <1>12. QED
    BY <1>5, <1>7, <1>8, <1>9, <1>10, <1>11 DEF Framed

\* Two files that frame the same payload alike are the same.
LEMMA FramedAlike ==
    ASSUME NEW b, NEW c, NEW magic, NEW p, NEW q, IsSeq(p), IsSeq(q), p = q,
           Framed(b, magic, p), Framed(c, magic, q)
    PROVE  b = c
  <1>1. Len(p) \in Nat
    BY SeqFacts
  <1>2. Len(b) = Len(p) + 4 /\ Len(c) = Len(p) + 4 /\ IsSeq(b) /\ IsSeq(c)
    BY DEF Framed
  <1>3. ASSUME NEW i \in 1 .. Len(p) + 3 PROVE b[i] = c[i]
    <2>1. i = 1 \/ i = 2 \/ i = 3 \/ (i - 3 \in 1 .. Len(p) /\ 3 + (i - 3) = i)
      BY <1>1, SMT
    <2>2. CASE i \in {1, 2, 3}
      BY <2>2 DEF Framed
    <2>3. CASE i - 3 \in 1 .. Len(p) /\ 3 + (i - 3) = i
      <3>1. b[3 + (i - 3)] = p[i - 3] /\ c[3 + (i - 3)] = p[i - 3]
        BY <2>3 DEF Framed
      <3>2. QED
        BY <3>1, <2>3
    <2>4. QED
      BY <2>1, <2>2, <2>3
  <1>4. Len(b) - 1 = Len(p) + 3 /\ Len(c) - 1 = Len(p) + 3 /\ Len(b) >= 1 /\ Len(c) >= 1
    BY <1>1, <1>2, SMT
  <1>5. M!Before(b, M!HashLen) = M!Before(c, M!HashLen)
    <2> DEFINE x == M!Before(b, M!HashLen)
               y == M!Before(c, M!HashLen)
    <2>1. IsSeq(x) /\ Len(x) = Len(p) + 3 /\ \A i \in 1 .. Len(p) + 3 : x[i] = b[i]
      BY <1>2, <1>4, BeforeHash
    <2>2. IsSeq(y) /\ Len(y) = Len(p) + 3 /\ \A i \in 1 .. Len(p) + 3 : y[i] = c[i]
      BY <1>2, <1>4, BeforeHash
    <2> HIDE DEF x, y
    <2>3. \A i \in 1 .. Len(x) : x[i] = y[i]
      BY <2>1, <2>2, <1>3
    <2>4. x = y
      BY <2>1, <2>2, <2>3, SeqSame
    <2>5. QED
      BY <2>4 DEF x, y
  <1>6. b[Len(p) + 4] = c[Len(p) + 4]
    BY <1>2, <1>5 DEF Framed
  <1>7. \A i \in 1 .. Len(b) : b[i] = c[i]
    <2>1. \A i \in 1 .. Len(b) : i \in 1 .. Len(p) + 3 \/ i = Len(p) + 4
      BY <1>1, <1>2, SMT
    <2>2. QED
      BY <2>1, <1>3, <1>6
  <1>8. QED
    BY <1>2, <1>7, SeqSame

\* unpack accepts what is framed, and what it accepts is framed.
Accepted(b, magic) ==
    /\ Len(b) >= 4 /\ b[1] = M!Name(magic) /\ b[2] = M!Word(1)
    /\ b[3].word <= MaxPayload /\ b[3].word + 4 = Len(b)
    /\ b[Len(b)] = M!Hash(M!Before(b, M!HashLen))

LEMMA UnpackParts ==
    ASSUME NEW b, NEW magic, IsSeq(b), Len(b) >= 4 => b[3] \in WordSet
    PROVE  M!Unpack(b, magic) = "Ok" <=> Accepted(b, magic)
  <1>1. Len(b) \in Nat /\ MaxPayload \in Nat
    BY SeqFacts, FilesAssumption
  <1>2. M!Unpack(b, magic) =
          IF Len(b) < 4 THEN "Length"
          ELSE IF b[1] # M!Name(magic) THEN "Magic"
          ELSE IF b[2] # M!Word(1) THEN "Version"
          ELSE IF b[3].word > MaxPayload \/ b[3].word + 3 + 1 # Len(b)
               THEN "Length"
          ELSE IF b[Len(b)] # M!Hash(M!Before(b, M!HashLen)) THEN "Hash" ELSE "Ok"
    <2>1. M!HeaderLen = 3 /\ M!HashLen = 1 /\ 3 + 1 = 4
      BY SMT DEF M!HeaderLen, M!HashLen
    <2> DEFINE body == M!Before(b, M!HashLen)
    <2> HIDE DEF body
    <2>2. M!Unpack(b, magic) =
          IF Len(b) < M!HeaderLen + M!HashLen THEN "Length"
          ELSE IF b[1] # M!Name(magic) THEN "Magic"
          ELSE IF b[2] # M!Word(1) THEN "Version"
          ELSE IF b[3].word > MaxPayload \/ b[3].word + M!HeaderLen + M!HashLen # Len(b)
               THEN "Length"
          ELSE IF b[Len(b)] # M!Hash(body) THEN "Hash" ELSE "Ok"
      BY DEF M!Unpack, body
    <2>3. QED
      BY <2>1, <2>2 DEF body
  <1>3. Len(b) >= 4 => b[3].word \in Nat
    BY WordFacts
  <1>4. Len(b) < 4 <=> ~ (Len(b) >= 4)
    BY <1>1, SMT
  <1>5. Len(b) >= 4 =>
          /\ b[3].word > MaxPayload <=> ~ (b[3].word <= MaxPayload)
          /\ b[3].word + 3 + 1 = b[3].word + 4
    BY <1>1, <1>3, SMT
  <1>6. QED
    BY <1>2, <1>4, <1>5 DEF Accepted

LEMMA FramedAccepted ==
    ASSUME NEW b, NEW magic, NEW p, IsSeq(p), Framed(b, magic, p), Len(p) <= MaxPayload
    PROVE  /\ Accepted(b, magic) /\ M!Unpack(b, magic) = "Ok"
           /\ M!Payload(b) = p
           /\ \A other : M!Name(other) # M!Name(magic) => M!Unpack(b, other) # "Ok"
  <1>1. Len(p) \in Nat /\ IsSeq(b) /\ Len(b) = Len(p) + 4
    BY SeqFacts DEF Framed
  <1>2. b[3] \in WordSet /\ b[3].word = Len(p) /\ b[3] = M!Word(Len(p))
    BY <1>1, WordFacts DEF Framed
  <1>3. Len(b) >= 4
    BY <1>1, SMT
  <1>4. Accepted(b, magic)
    BY <1>1, <1>2, <1>3 DEF Accepted, Framed
  <1>5. M!Payload(b) = SubSeq(b, 4, Len(p) + 3)
    <2>1. M!HeaderLen + 1 = 4 /\ M!HeaderLen + Len(p) = Len(p) + 3
      BY <1>1, SMT DEF M!HeaderLen
    <2>2. QED
      BY <2>1, <1>2 DEF M!Payload
  <1> DEFINE n == Len(p) + 3
  <1>6. n \in Nat /\ n <= Len(b) /\ 4 <= n + 1 /\ n - 4 + 1 = Len(p)
        /\ \A i \in 1 .. Len(p) : 4 + i - 1 = 3 + i
    BY <1>1, SMT
  <1> HIDE DEF n
  <1>7. /\ IsSeq(SubSeq(b, 4, n)) /\ Len(SubSeq(b, 4, n)) = n - 4 + 1
        /\ \A i \in 1 .. n - 4 + 1 : SubSeq(b, 4, n)[i] = b[4 + i - 1]
    BY <1>1, <1>6, SubSeqFacts
  <1>8. \A i \in 1 .. Len(p) : SubSeq(b, 4, n)[i] = p[i]
    BY <1>6, <1>7 DEF Framed
  <1>9. SubSeq(b, 4, n) = p
    BY <1>6, <1>7, <1>8, SeqSame
  <1>10. ASSUME NEW other, M!Name(other) # M!Name(magic) PROVE M!Unpack(b, other) # "Ok"
    <2>1. ~ Accepted(b, other)
      BY <1>10 DEF Accepted, Framed
    <2>2. QED
      BY <2>1, <1>1, <1>2, UnpackParts
  <1>11. QED
    BY <1>1, <1>2, <1>4, <1>5, <1>9, <1>10, UnpackParts DEF n

LEMMA AcceptedFramed ==
    ASSUME NEW b, NEW magic, IsSeq(b), Len(b) >= 4 => b[3] \in WordSet, Accepted(b, magic)
    PROVE  LET p == M!Payload(b) IN
           /\ IsSeq(p) /\ Framed(b, magic, p)
           /\ Len(p) = Len(b) - 4 /\ Len(b) >= 4 /\ \A i \in 1 .. Len(p) : p[i] = b[3 + i]
  <1>1. Len(b) \in Nat /\ Len(b) >= 4
    BY SeqFacts DEF Accepted
  <1>2. b[3] \in WordSet /\ b[3].word \in Nat /\ b[3] = M!Word(b[3].word) /\ b[3].word + 4 = Len(b)
    BY <1>1, WordFacts DEF Accepted
  <1> DEFINE n == Len(b) - 1
             p == M!Payload(b)
  <1>3. n \in Nat /\ n <= Len(b) /\ 4 <= n + 1 /\ n - 4 + 1 = Len(b) - 4
        /\ b[3].word = Len(b) - 4 /\ Len(b) - 4 + 4 = Len(b)
        /\ \A i \in 1 .. Len(b) - 4 : 4 + i - 1 = 3 + i
    BY <1>1, <1>2, SMT
  <1>4. p = SubSeq(b, 4, n)
    <2>1. M!HeaderLen + 1 = 4 /\ M!HeaderLen + b[3].word = n
      BY <1>1, <1>3, SMT DEF M!HeaderLen
    <2>2. QED
      BY <2>1 DEF M!Payload
  <1> HIDE DEF n, p
  <1>5. /\ IsSeq(SubSeq(b, 4, n)) /\ Len(SubSeq(b, 4, n)) = n - 4 + 1
        /\ \A i \in 1 .. n - 4 + 1 : SubSeq(b, 4, n)[i] = b[4 + i - 1]
    BY <1>1, <1>3, SubSeqFacts
  <1>6. IsSeq(p) /\ Len(p) = Len(b) - 4 /\ \A i \in 1 .. Len(p) : p[i] = b[3 + i]
    BY <1>3, <1>4, <1>5
  <1>7. Framed(b, magic, p)
    <2>1. Len(b) = Len(p) + 4 /\ b[3] = M!Word(Len(p))
      BY <1>2, <1>3, <1>6
    <2>2. QED
      BY <2>1, <1>6 DEF Framed, Accepted
  <1>8. QED
    BY <1>1, <1>6, <1>7 DEF p

-----------------------------------------------------------------------------
(* CURRENT. *)

CurrentRecord == [generation : Nat, manifest : Nat]

CurrentHead(g, h) ==
    <<M!Name(M!CurrentMagic), M!Word(1), M!Word(3), M!Word(g), M!Word(h)>>
CurrentPayload(g, h) == <<M!Word(g), M!Word(h), M!Crc(CurrentHead(g, h))>>

LEMMA AppendPair == ASSUME NEW a, NEW b, NEW c PROVE Append(<<a, b>>, c) = <<a, b, c>>
  <1> DEFINE s == Append(<<a, b>>, c)
             t == <<a, b, c>>
  <1>1. /\ IsSeq(<<a, b>>) /\ Len(<<a, b>>) = 2 /\ IsSeq(t) /\ Len(t) = 3
    BY TupleFacts
  <1>2. /\ IsSeq(s) /\ Len(s) = 2 + 1
        /\ \A i \in 1 .. 2 : s[i] = <<a, b>>[i]
        /\ s[2 + 1] = c
    BY <1>1, AppendFacts
  <1> HIDE DEF s
  <1>3. Len(s) = 3 /\ s[1] = a /\ s[2] = b /\ s[3] = c
    BY <1>2, SMT
  <1>4. \A i \in 1 .. Len(s) : s[i] = t[i]
    BY <1>3, SMT
  <1>5. QED
    BY <1>1, <1>2, <1>3, <1>4, SeqSame DEF s

LEMMA EncodeCurrentIs ==
    ASSUME NEW c
    PROVE  M!EncodeCurrent(c) =
               M!Pack(M!CurrentMagic, CurrentPayload(c.generation, c.manifest))
  <1> DEFINE g == M!Word(c.generation)
             h == M!Word(c.manifest)
             head == M!Header(M!CurrentMagic, 3)
             fields == <<g, h>>
             joined == head \o fields
             wanted == CurrentHead(c.generation, c.manifest)
  <1>1. head = <<M!Name(M!CurrentMagic), M!Word(1), M!Word(3)>>
    BY DEF M!Header
  <1>2. IsSeq(head) /\ Len(head) = 3 /\ IsSeq(fields) /\ Len(fields) = 2
        /\ IsSeq(wanted) /\ Len(wanted) = 5
    BY <1>1, TupleFacts DEF CurrentHead
  <1>3. /\ head[1] = wanted[1] /\ head[2] = wanted[2] /\ head[3] = wanted[3]
        /\ fields[1] = wanted[4] /\ fields[2] = wanted[5]
    BY <1>1 DEF CurrentHead
  <1>4. Append(fields, M!Crc(joined)) = <<g, h, M!Crc(joined)>>
    <2> HIDE DEF g, h, joined
    <2>1. QED
      BY AppendPair
  <1>5. M!EncodeCurrent(c) = M!Pack(M!CurrentMagic, Append(fields, M!Crc(joined)))
    BY DEF M!EncodeCurrent
  <1> HIDE DEF head, fields, wanted
  <1>6. joined = wanted
    <2>1. IsConcat(head, fields, joined)
      BY <1>2, ConcatFacts
    <2> HIDE DEF joined
    <2>2. /\ IsSeq(joined) /\ Len(joined) = 3 + 2
          /\ \A i \in 1 .. 3 : joined[i] = head[i]
          /\ \A i \in 1 .. 2 : joined[3 + i] = fields[i]
      BY <2>1, <1>2, Zenon DEF IsConcat
    <2>3. joined[3 + 1] = fields[1] /\ joined[3 + 2] = fields[2]
      BY <2>2
    <2>4. \A i \in 1 .. Len(joined) : joined[i] = wanted[i]
      BY <2>2, <2>3, <1>3, SMT
    <2>5. Len(joined) = Len(wanted)
      BY <2>2, <1>2, SMT
    <2>6. QED
      BY <2>2, <2>4, <2>5, <1>2, SeqSame
  <1>7. QED
    BY <1>4, <1>5, <1>6 DEF wanted, CurrentPayload

LEMMA CurrentPayloadFacts ==
    ASSUME NEW g, NEW h
    PROVE  LET p == CurrentPayload(g, h) IN
           /\ IsSeq(p) /\ Len(p) = 3
           /\ p[1] = M!Word(g) /\ p[2] = M!Word(h) /\ p[3] = M!Crc(CurrentHead(g, h))
           /\ IsSeq(CurrentHead(g, h)) /\ Len(CurrentHead(g, h)) = 5
           /\ CurrentHead(g, h)[1] = M!Name(M!CurrentMagic)
           /\ CurrentHead(g, h)[2] = M!Word(1) /\ CurrentHead(g, h)[3] = M!Word(3)
           /\ CurrentHead(g, h)[4] = M!Word(g) /\ CurrentHead(g, h)[5] = M!Word(h)
  <1>1. IsSeq(CurrentPayload(g, h)) /\ Len(CurrentPayload(g, h)) = 3
    BY TupleFacts DEF CurrentPayload
  <1>2. IsSeq(CurrentHead(g, h)) /\ Len(CurrentHead(g, h)) = 5
    BY TupleFacts DEF CurrentHead
  <1>3. QED
    BY <1>1, <1>2 DEF CurrentPayload, CurrentHead

\* The first words of a file that frames three fields of a CURRENT.
LEMMA CurrentWords ==
    ASSUME NEW b, NEW p, IsSeq(p), Len(p) = 3, Framed(b, M!CurrentMagic, p)
    PROVE  LET head == SubSeq(b, 1, 5) IN
           /\ IsSeq(head) /\ Len(head) = 5 /\ Len(b) = 7
           /\ head[1] = M!Name(M!CurrentMagic) /\ head[2] = M!Word(1) /\ head[3] = M!Word(3)
           /\ head[4] = p[1] /\ head[5] = p[2]
           /\ b[4] = p[1] /\ b[5] = p[2] /\ b[6] = p[3]
  <1> DEFINE head == SubSeq(b, 1, 5)
  <1>1. IsSeq(b) /\ Len(b) = 7
    BY SMT DEF Framed
  <1>2. /\ IsSeq(head) /\ Len(head) = 5 - 1 + 1
        /\ \A i \in 1 .. 5 - 1 + 1 : head[i] = b[1 + i - 1]
    <2>1. 5 <= Len(b) /\ 1 <= 5 + 1
      BY <1>1, SMT
    <2>2. QED
      BY <2>1, <1>1, SubSeqFacts
  <1>3. /\ b[3 + 1] = p[1] /\ b[3 + 2] = p[2] /\ b[3 + 3] = p[3]
    <2>1. 1 \in 1 .. Len(p) /\ 2 \in 1 .. Len(p) /\ 3 \in 1 .. Len(p)
      BY SMT
    <2>2. QED
      BY <2>1 DEF Framed
  <1>4. b[4] = p[1] /\ b[5] = p[2] /\ b[6] = p[3]
    BY <1>3, SMT
  <1> HIDE DEF head
  <1>5. Len(head) = 5
    BY <1>2, SMT
  <1>6. \A i \in {1, 2, 3, 4, 5} : head[i] = b[i]
    <2>1. \A i \in {1, 2, 3, 4, 5} : i \in 1 .. 5 - 1 + 1 /\ 1 + i - 1 = i
      BY SMT
    <2>2. QED
      BY <2>1, <1>2
  <1>7. b[1] = M!Name(M!CurrentMagic) /\ b[2] = M!Word(1) /\ b[3] = M!Word(3)
    BY DEF Framed
  <1>8. QED
    BY <1>1, <1>2, <1>4, <1>5, <1>6, <1>7 DEF head

\* What decoding a CURRENT looks at.
LEMMA CurrentErrorParts ==
    ASSUME NEW b
    PROVE  M!CurrentError(b) = "Ok" <=>
             /\ M!Unpack(b, M!CurrentMagic) = "Ok"
             /\ Len(M!Payload(b)) = 3
             /\ M!Payload(b)[3] = M!Crc(SubSeq(b, 1, 5))
  <1>1. M!HeaderLen + 2 = 5
    BY SMT DEF M!HeaderLen
  <1>2. M!CurrentError(b) =
          IF M!Unpack(b, M!CurrentMagic) # "Ok" THEN M!Unpack(b, M!CurrentMagic)
          ELSE IF Len(M!Payload(b)) # 3 THEN "Length"
          ELSE IF M!Payload(b)[3] # M!Crc(SubSeq(b, 1, M!HeaderLen + 2)) THEN "Crc" ELSE "Ok"
    BY DEF M!CurrentError
  <1>3. QED
    BY <1>1, <1>2

LEMMA CurrentEncoded ==
    ASSUME NEW c \in CurrentRecord
    PROVE  LET f == M!EncodeCurrent(c) IN
           /\ IsSeq(f) /\ Len(f) = 7 /\ f[1] = M!Name(M!CurrentMagic)
           /\ \A i \in 2 .. 5 : f[i] \in WordSet
           /\ \E y : f[6] = M!Crc(y)
           /\ f[7] = M!Hash(M!Before(f, M!HashLen))
           /\ M!CurrentError(f) = "Ok" /\ M!ManifestError(f) # "Ok"
           /\ M!DecodeCurrent(f) = c
  <1> DEFINE g == c.generation
             h == c.manifest
             p == CurrentPayload(g, h)
             f == M!EncodeCurrent(c)
             head == SubSeq(f, 1, 5)
             wanted == CurrentHead(g, h)
  <1>1. g \in Nat /\ h \in Nat /\ c = [generation |-> g, manifest |-> h]
    BY DEF CurrentRecord
  <1>2. f = M!Pack(M!CurrentMagic, p)
    BY EncodeCurrentIs
  <1>3. /\ IsSeq(p) /\ Len(p) = 3
        /\ p[1] = M!Word(g) /\ p[2] = M!Word(h) /\ p[3] = M!Crc(wanted)
        /\ IsSeq(wanted) /\ Len(wanted) = 5
        /\ wanted[1] = M!Name(M!CurrentMagic) /\ wanted[2] = M!Word(1)
        /\ wanted[3] = M!Word(3) /\ wanted[4] = M!Word(g) /\ wanted[5] = M!Word(h)
    BY CurrentPayloadFacts
  <1> HIDE DEF g, h, p, f, wanted
  <1>4. Framed(f, M!CurrentMagic, p)
    BY <1>2, <1>3, PackFrames
  <1>5. /\ IsSeq(head) /\ Len(head) = 5 /\ Len(f) = 7
        /\ head[1] = M!Name(M!CurrentMagic) /\ head[2] = M!Word(1) /\ head[3] = M!Word(3)
        /\ head[4] = p[1] /\ head[5] = p[2]
        /\ f[4] = p[1] /\ f[5] = p[2] /\ f[6] = p[3]
    BY <1>3, <1>4, CurrentWords
  <1> HIDE DEF head
  <1>6. head = wanted
    <2>1. \A i \in 1 .. 5 : i \in {1, 2, 3, 4, 5}
      BY SMT
    <2>2. \A i \in {1, 2, 3, 4, 5} : head[i] = wanted[i]
      BY <1>3, <1>5
    <2>3. \A i \in 1 .. Len(head) : head[i] = wanted[i]
      BY <2>1, <2>2, <1>5
    <2>4. QED
      BY <2>3, <1>3, <1>5, SeqSame
  <1>7. 3 <= MaxPayload
    BY FilesAssumption, SMT DEF M!HeadLen, M!EntryLen
  <1>8. /\ M!Unpack(f, M!CurrentMagic) = "Ok" /\ M!Payload(f) = p
        /\ M!Unpack(f, M!ManifestMagic) # "Ok"
    BY <1>3, <1>4, <1>7, FramedAccepted, MagicsDiffer
  <1>9. M!CurrentError(f) = "Ok"
    BY <1>3, <1>6, <1>8, CurrentErrorParts DEF head
  <1>10. M!ManifestError(f) # "Ok"
    BY <1>8 DEF M!ManifestError
  <1>11. M!DecodeCurrent(f) = c
    <2>1. M!DecodeCurrent(f) = [generation |-> p[1].word, manifest |-> p[2].word]
      BY <1>8 DEF M!DecodeCurrent
    <2>2. QED
      BY <2>1, <1>1, <1>3, WordFacts
  <1>12. \A i \in 2 .. 5 : f[i] \in WordSet
    <2>1. f[2] = M!Word(1) /\ f[3] = M!Word(3) /\ f[4] = M!Word(g) /\ f[5] = M!Word(h)
      BY <1>3, <1>4, <1>5 DEF Framed
    <2>2. f[2] \in WordSet /\ f[3] \in WordSet /\ f[4] \in WordSet /\ f[5] \in WordSet
      BY <2>1, <1>1, WordFacts
    <2>3. \A i \in 2 .. 5 : i \in {2, 3, 4, 5}
      BY SMT
    <2>4. QED
      BY <2>2, <2>3
  <1>13. IsSeq(f) /\ f[1] = M!Name(M!CurrentMagic) /\ f[7] = M!Hash(M!Before(f, M!HashLen))
    BY <1>4, <1>5 DEF Framed
  <1>14. QED
    BY <1>3, <1>5, <1>9, <1>10, <1>11, <1>12, <1>13 DEF f

LEMMA CurrentAccepted ==
    ASSUME NEW b, IsSeq(b), \A i \in 3 .. 5 : i < Len(b) => b[i] \in WordSet,
           M!CurrentError(b) = "Ok"
    PROVE  /\ M!EncodeCurrent(M!DecodeCurrent(b)) = b
           /\ Accepted(b, M!CurrentMagic)
  <1> DEFINE p == M!Payload(b)
             g == p[1].word
             h == p[2].word
             q == CurrentPayload(g, h)
             wanted == CurrentHead(g, h)
             head == SubSeq(b, 1, 5)
  <1>1. /\ M!Unpack(b, M!CurrentMagic) = "Ok" /\ Len(p) = 3 /\ p[3] = M!Crc(head)
    BY CurrentErrorParts
  <1>2. Len(b) >= 4 => b[3] \in WordSet
    <2>1. Len(b) \in Nat
      BY SeqFacts
    <2>2. Len(b) >= 4 => 3 < Len(b) /\ 3 \in 3 .. 5
      BY <2>1, SMT
    <2>3. QED
      BY <2>2
  <1>3. Accepted(b, M!CurrentMagic)
    BY <1>1, <1>2, UnpackParts
  <1>4. /\ IsSeq(p) /\ Framed(b, M!CurrentMagic, p)
    BY <1>2, <1>3, AcceptedFramed
  <1>5. M!EncodeCurrent(M!DecodeCurrent(b)) = M!Pack(M!CurrentMagic, q)
    <2>1. M!DecodeCurrent(b).generation = g /\ M!DecodeCurrent(b).manifest = h
      BY DEF M!DecodeCurrent
    <2>2. QED
      BY <2>1, EncodeCurrentIs
  <1>6. /\ IsSeq(q) /\ Len(q) = 3
        /\ q[1] = M!Word(g) /\ q[2] = M!Word(h) /\ q[3] = M!Crc(wanted)
        /\ IsSeq(wanted) /\ Len(wanted) = 5
        /\ wanted[1] = M!Name(M!CurrentMagic) /\ wanted[2] = M!Word(1)
        /\ wanted[3] = M!Word(3) /\ wanted[4] = M!Word(g) /\ wanted[5] = M!Word(h)
    BY CurrentPayloadFacts
  <1> HIDE DEF p, q, wanted
  <1>7. /\ IsSeq(head) /\ Len(head) = 5 /\ Len(b) = 7
        /\ head[1] = M!Name(M!CurrentMagic) /\ head[2] = M!Word(1) /\ head[3] = M!Word(3)
        /\ head[4] = p[1] /\ head[5] = p[2]
        /\ b[4] = p[1] /\ b[5] = p[2] /\ b[6] = p[3]
    BY <1>1, <1>4, CurrentWords
  <1>8. p[1] = M!Word(g) /\ p[2] = M!Word(h)
    <2>1. 4 \in 3 .. 5 /\ 5 \in 3 .. 5 /\ 4 < Len(b) /\ 5 < Len(b)
      BY <1>7, SMT
    <2>2. p[1] \in WordSet /\ p[2] \in WordSet
      BY <2>1, <1>7
    <2>3. QED
      BY <2>2, WordFacts
  <1> HIDE DEF g, h, head
  <1>9. head = wanted
    <2>1. \A i \in 1 .. 5 : i \in {1, 2, 3, 4, 5}
      BY SMT
    <2>2. \A i \in {1, 2, 3, 4, 5} : head[i] = wanted[i]
      BY <1>6, <1>7, <1>8
    <2>3. \A i \in 1 .. Len(head) : head[i] = wanted[i]
      BY <2>1, <2>2, <1>7
    <2>4. QED
      BY <2>3, <1>6, <1>7, SeqSame
  <1>10. q = p
    <2>1. \A i \in 1 .. 3 : i \in {1, 2, 3}
      BY SMT
    <2>2. \A i \in {1, 2, 3} : q[i] = p[i]
      BY <1>1, <1>6, <1>8, <1>9
    <2>3. \A i \in 1 .. Len(q) : q[i] = p[i]
      BY <2>1, <2>2, <1>6
    <2>4. QED
      BY <2>3, <1>1, <1>4, <1>6, SeqSame
  <1>11. Framed(M!Pack(M!CurrentMagic, q), M!CurrentMagic, q)
    BY <1>6, PackFrames
  <1>12. M!Pack(M!CurrentMagic, q) = b
    BY <1>4, <1>6, <1>10, <1>11, FramedAlike
  <1>13. QED
    BY <1>3, <1>5, <1>12

-----------------------------------------------------------------------------
(* A manifest. *)

\* The words of the entries lie one behind the other, EntryLen for each.
LEMMA PlaceFacts ==
    ASSUME NEW n \in Nat
    PROVE  /\ \A j \in 1 .. n * 3 :
                 /\ ((j - 1) \div 3) + 1 \in 1 .. n /\ ((j - 1) % 3) + 1 \in 1 .. 3
                 /\ (((j - 1) \div 3) + 1 - 1) * 3 + (((j - 1) % 3) + 1) = j
           /\ \A i \in 1 .. n, k \in 1 .. 3 :
                 /\ (i - 1) * 3 + k \in 1 .. n * 3
                 /\ (((i - 1) * 3 + k - 1) \div 3) + 1 = i
                 /\ (((i - 1) * 3 + k - 1) % 3) + 1 = k
  <1>1. ASSUME NEW j \in 1 .. n * 3
        PROVE  /\ ((j - 1) \div 3) + 1 \in 1 .. n /\ ((j - 1) % 3) + 1 \in 1 .. 3
               /\ (((j - 1) \div 3) + 1 - 1) * 3 + (((j - 1) % 3) + 1) = j
    BY SMT
  <1>2. ASSUME NEW i \in 1 .. n, NEW k \in 1 .. 3
        PROVE  /\ (i - 1) * 3 + k \in 1 .. n * 3
               /\ (((i - 1) * 3 + k - 1) \div 3) + 1 = i
               /\ (((i - 1) * 3 + k - 1) % 3) + 1 = k
    BY SMT
  <1>3. QED
    BY <1>1, <1>2

LEMMA PlaceOf ==
    ASSUME NEW n \in Nat, NEW j \in 1 .. n * 3
    PROVE  \E i \in 1 .. n, k \in 1 .. 3 : (i - 1) * 3 + k = j
  <1> DEFINE i == ((j - 1) \div 3) + 1
             k == ((j - 1) % 3) + 1
  <1>1. i \in 1 .. n /\ k \in 1 .. 3 /\ (i - 1) * 3 + k = j
    BY PlaceFacts
  <1> HIDE DEF i, k
  <1>2. QED
    BY <1>1

ManifestHead(r) ==
    <<M!Word(r.generation), M!Word(r.previous), M!Word(r.model), M!Word(r.total),
      M!Word(Len(r.segments))>>

EntryItems(r) ==
    [j \in 1 .. Len(r.segments) * 3 |->
        M!EntryWords(r.segments[((j - 1) \div 3) + 1])[((j - 1) % 3) + 1]]

ManifestPayload(r) == ManifestHead(r) \o EntryItems(r)

LEMMA EncodeManifestIs ==
    ASSUME NEW r
    PROVE  M!EncodeManifest(r) = M!Pack(M!ManifestMagic, ManifestPayload(r))
  BY DEF M!EncodeManifest, ManifestPayload, ManifestHead, EntryItems, M!EntryLen

\* The payload, word by word.
PayloadOf(p, r) ==
    /\ IsSeq(p) /\ Len(p) = 5 + Len(r.segments) * 3
    /\ p[1] = M!Word(r.generation) /\ p[2] = M!Word(r.previous) /\ p[3] = M!Word(r.model)
    /\ p[4] = M!Word(r.total) /\ p[5] = M!Word(Len(r.segments))
    /\ \A i \in 1 .. Len(r.segments) :
          /\ p[5 + ((i - 1) * 3 + 1)] = M!Word(r.segments[i].id)
          /\ p[5 + ((i - 1) * 3 + 2)] = M!Word(r.segments[i].first)
          /\ p[5 + ((i - 1) * 3 + 3)] = M!Word(r.segments[i].count)

LEMMA PayloadWords ==
    ASSUME NEW r, Len(r.segments) \in Nat
    PROVE  PayloadOf(ManifestPayload(r), r)
  <1> DEFINE n == Len(r.segments)
             head == ManifestHead(r)
             items == EntryItems(r)
             p == ManifestPayload(r)
  <1>1. /\ IsSeq(head) /\ Len(head) = 5
        /\ head[1] = M!Word(r.generation) /\ head[2] = M!Word(r.previous)
        /\ head[3] = M!Word(r.model) /\ head[4] = M!Word(r.total) /\ head[5] = M!Word(n)
    BY TupleFacts DEF ManifestHead
  <1>2. n * 3 \in Nat
    BY SMT
  <1>3. /\ IsSeq(items) /\ Len(items) = n * 3
        /\ \A j \in 1 .. n * 3 :
              items[j] = M!EntryWords(r.segments[((j - 1) \div 3) + 1])[((j - 1) % 3) + 1]
    <2>1. items = [j \in 1 .. n * 3 |-> items[j]]
      BY DEF EntryItems
    <2>2. \A j \in 1 .. n * 3 :
              items[j] = M!EntryWords(r.segments[((j - 1) \div 3) + 1])[((j - 1) % 3) + 1]
      BY DEF EntryItems
    <2> HIDE DEF items, n
    <2>3. QED
      BY <2>1, <2>2, <1>2, FunctionIsSeq
  <1>4. IsConcat(head, items, p)
    BY <1>1, <1>3, ConcatFacts DEF ManifestPayload
  <1> HIDE DEF head, items, p
  <1>5. /\ IsSeq(p) /\ Len(p) = 5 + n * 3
        /\ \A i \in 1 .. 5 : p[i] = head[i]
        /\ \A j \in 1 .. n * 3 : p[5 + j] = items[j]
    BY <1>1, <1>3, <1>4, Zenon DEF IsConcat
  <1>6. ASSUME NEW i \in 1 .. n
        PROVE  /\ p[5 + ((i - 1) * 3 + 1)] = M!Word(r.segments[i].id)
               /\ p[5 + ((i - 1) * 3 + 2)] = M!Word(r.segments[i].first)
               /\ p[5 + ((i - 1) * 3 + 3)] = M!Word(r.segments[i].count)
    <2>1. ASSUME NEW k \in 1 .. 3
          PROVE  p[5 + ((i - 1) * 3 + k)] = M!EntryWords(r.segments[i])[k]
      <3> DEFINE j == (i - 1) * 3 + k
      <3>1. j \in 1 .. n * 3 /\ ((j - 1) \div 3) + 1 = i /\ ((j - 1) % 3) + 1 = k
        BY <2>1, PlaceFacts
      <3> HIDE DEF j
      <3>2. p[5 + j] = items[j]
        BY <3>1, <1>5
      <3>3. items[j] = M!EntryWords(r.segments[i])[k]
        BY <3>1, <1>3
      <3>4. QED
        BY <3>2, <3>3 DEF j
    <2>2. 1 \in 1 .. 3 /\ 2 \in 1 .. 3 /\ 3 \in 1 .. 3
      BY SMT
    <2>3. /\ M!EntryWords(r.segments[i])[1] = M!Word(r.segments[i].id)
          /\ M!EntryWords(r.segments[i])[2] = M!Word(r.segments[i].first)
          /\ M!EntryWords(r.segments[i])[3] = M!Word(r.segments[i].count)
      BY DEF M!EntryWords
    <2>4. QED
      BY <2>1, <2>2, <2>3
  <1>7. 1 \in 1 .. 5 /\ 2 \in 1 .. 5 /\ 3 \in 1 .. 5 /\ 4 \in 1 .. 5 /\ 5 \in 1 .. 5
    BY SMT
  <1>8. QED
    BY <1>1, <1>5, <1>6, <1>7 DEF PayloadOf, p

\* A payload is the only one of its manifest.
LEMMA PayloadUnique ==
    ASSUME NEW p, NEW q, NEW r, Len(r.segments) \in Nat, PayloadOf(p, r), PayloadOf(q, r)
    PROVE  p = q
  <1> DEFINE n == Len(r.segments)
  <1>1. IsSeq(p) /\ IsSeq(q) /\ Len(p) = 5 + n * 3 /\ Len(q) = 5 + n * 3
    BY DEF PayloadOf
  <1>2. p[1] = q[1] /\ p[2] = q[2] /\ p[3] = q[3] /\ p[4] = q[4] /\ p[5] = q[5]
    BY DEF PayloadOf
  <1>3. ASSUME NEW j \in 1 .. n * 3 PROVE p[5 + j] = q[5 + j]
    <2>1. PICK i \in 1 .. n, k \in 1 .. 3 : (i - 1) * 3 + k = j
      BY PlaceOf
    <2>2. p[5 + ((i - 1) * 3 + k)] = q[5 + ((i - 1) * 3 + k)]
      <3>1. k = 1 \/ k = 2 \/ k = 3
        BY SMT
      <3>2. QED
        BY <3>1 DEF PayloadOf
    <2>3. QED
      BY <2>1, <2>2
  <1>4. ASSUME NEW i \in 1 .. Len(p) PROVE p[i] = q[i]
    <2>1. i \in {1, 2, 3, 4, 5} \/ (i - 5 \in 1 .. n * 3 /\ 5 + (i - 5) = i)
      BY <1>1, SMT
    <2>2. QED
      BY <2>1, <1>2, <1>3
  <1>5. QED
    BY <1>1, <1>4, SeqSame

\* What decoding a manifest looks at.
LEMMA ManifestErrorParts ==
    ASSUME NEW b, NEW p, p = M!Payload(b), Len(p) \in Nat, Len(p) >= 5 => p[5] \in WordSet
    PROVE  M!ManifestError(b) = "Ok" <=>
             /\ M!Unpack(b, M!ManifestMagic) = "Ok"
             /\ Len(p) >= 5 /\ p[5].word <= MaxSegments /\ Len(p) = 5 + p[5].word * 3
  <1>1. M!ManifestError(b) =
          IF M!Unpack(b, M!ManifestMagic) # "Ok" THEN M!Unpack(b, M!ManifestMagic)
          ELSE IF Len(p) < 5 THEN "Length"
          ELSE IF p[5].word > MaxSegments THEN "SegmentCount"
          ELSE IF Len(p) # 5 + p[5].word * 3 THEN "Length" ELSE "Ok"
    BY DEF M!ManifestError, M!HeadLen, M!EntryLen
  <1>2. Len(p) < 5 <=> ~ (Len(p) >= 5)
    BY SMT
  <1>3. Len(p) >= 5 => (p[5].word > MaxSegments <=> ~ (p[5].word <= MaxSegments))
    BY WordFacts, FilesAssumption, SMT
  <1>4. QED
    BY <1>1, <1>2, <1>3

Stored == {r \in Listed : Len(r.segments) <= MaxSegments}

\* The largest payload fits a container.
LEMMA PayloadFits ==
    ASSUME NEW n \in Nat, n <= MaxSegments
    PROVE  5 + n * 3 <= MaxPayload
  <1>1. MaxPayload >= 5 + MaxSegments * 3 /\ MaxSegments \in Nat /\ MaxPayload \in Nat
    BY FilesAssumption DEF M!HeadLen, M!EntryLen
  <1>2. QED
    BY <1>1, SMT

\* A record is what decoding makes of the words of its payload.
LEMMA DecodePayload ==
    ASSUME NEW r \in Listed, NEW b, PayloadOf(M!Payload(b), r)
    PROVE  M!DecodeManifest(b) = r
  <1> DEFINE p == M!Payload(b)
             n == Len(r.segments)
             s == r.segments
             entry(i) == [id |-> p[5 + (i - 1) * 3 + 1].word,
                          first |-> p[5 + (i - 1) * 3 + 2].word,
                          count |-> p[5 + (i - 1) * 3 + 3].word]
  <1>1. s \in Seq(ListedEntry) /\ n \in Nat
    BY DEF Listed
  <1>2. M!DecodeManifest(b) =
          [generation |-> p[1].word, previous |-> p[2].word, model |-> p[3].word,
           total |-> p[4].word, segments |-> [i \in 1 .. p[5].word |-> entry(i)]]
    BY Zenon DEF M!DecodeManifest, M!HeadLen, M!EntryLen
  <1>3. /\ p[1].word = r.generation /\ p[2].word = r.previous /\ p[3].word = r.model
        /\ p[4].word = r.total /\ p[5].word = n
    BY DEF PayloadOf, M!Word
  <1>4. ASSUME NEW i \in 1 .. n PROVE entry(i) = s[i]
    <2>1. s[i] \in ListedEntry
      BY <1>1
    <2>2. /\ 5 + (i - 1) * 3 + 1 = 5 + ((i - 1) * 3 + 1)
          /\ 5 + (i - 1) * 3 + 2 = 5 + ((i - 1) * 3 + 2)
          /\ 5 + (i - 1) * 3 + 3 = 5 + ((i - 1) * 3 + 3)
      BY <1>1, SMT
    <2>3. /\ p[5 + ((i - 1) * 3 + 1)] = M!Word(s[i].id)
          /\ p[5 + ((i - 1) * 3 + 2)] = M!Word(s[i].first)
          /\ p[5 + ((i - 1) * 3 + 3)] = M!Word(s[i].count)
      BY DEF PayloadOf
    <2> HIDE DEF p
    <2>4. /\ p[5 + (i - 1) * 3 + 1].word = s[i].id
          /\ p[5 + (i - 1) * 3 + 2].word = s[i].first
          /\ p[5 + (i - 1) * 3 + 3].word = s[i].count
      <3>1. \A x : M!Word(x).word = x
        BY DEF M!Word
      <3>2. QED
        BY <2>2, <2>3, <3>1
    <2>5. entry(i) = [id |-> s[i].id, first |-> s[i].first, count |-> s[i].count]
      BY <2>4
    <2> HIDE DEF entry, s
    <2>6. QED
      BY <2>1, <2>5 DEF ListedEntry
  <1> HIDE DEF p
  <1>5. [i \in 1 .. n |-> entry(i)] = s
    <2> HIDE DEF entry
    <2>1. [i \in 1 .. n |-> entry(i)] = [i \in 1 .. n |-> s[i]]
      BY <1>4
    <2>2. s = [i \in 1 .. n |-> s[i]]
      BY <1>1
    <2>3. QED
      BY <2>1, <2>2
  <1>6. r = [generation |-> r.generation, previous |-> r.previous, model |-> r.model,
             total |-> r.total, segments |-> s]
    BY DEF Listed
  <1>7. QED
    BY <1>2, <1>3, <1>5, <1>6

LEMMA ManifestEncoded ==
    ASSUME NEW r \in Stored
    PROVE  LET f == M!EncodeManifest(r) IN
           /\ IsSeq(f) /\ Len(f) = 9 + Len(r.segments) * 3
           /\ Len(r.segments) \in Nat
           /\ f[1] = M!Name(M!ManifestMagic)
           /\ \A i \in 2 .. Len(f) - 1 : f[i] \in WordSet
           /\ f[Len(f)] = M!Hash(M!Before(f, M!HashLen))
           /\ M!ManifestError(f) = "Ok" /\ M!CurrentError(f) # "Ok"
           /\ M!DecodeManifest(f) = r
  <1> DEFINE n == Len(r.segments)
             p == ManifestPayload(r)
             f == M!EncodeManifest(r)
  <1>1. /\ r \in Listed /\ n \in Nat /\ n <= MaxSegments
        /\ r.generation \in Nat /\ r.previous \in Nat /\ r.model \in Nat /\ r.total \in Nat
        /\ \A i \in 1 .. n : /\ r.segments[i].id \in Nat /\ r.segments[i].first \in Nat
                              /\ r.segments[i].count \in Nat
    <2>1. r \in Listed /\ r.segments \in Seq(ListedEntry) /\ n <= MaxSegments
      BY DEF Stored, Listed
    <2>2. \A i \in 1 .. n : r.segments[i] \in ListedEntry
      BY <2>1
    <2>3. \A x \in ListedEntry : x.id \in Nat /\ x.first \in Nat /\ x.count \in Nat
      BY FilesAssumption DEF ListedEntry
    <2>4. QED
      BY <2>1, <2>2, <2>3 DEF Listed
  <1>2. PayloadOf(p, r)
    BY <1>1, PayloadWords
  <1>3. f = M!Pack(M!ManifestMagic, p)
    BY EncodeManifestIs
  <1>4. IsSeq(p) /\ Len(p) = 5 + n * 3 /\ p[5] = M!Word(n)
    BY <1>2 DEF PayloadOf
  <1> HIDE DEF p, f
  <1>5. Framed(f, M!ManifestMagic, p)
    BY <1>3, <1>4, PackFrames
  <1>6. Len(p) <= MaxPayload
    BY <1>1, <1>4, PayloadFits
  <1>7. /\ M!Unpack(f, M!ManifestMagic) = "Ok" /\ M!Payload(f) = p
        /\ M!Unpack(f, M!CurrentMagic) # "Ok"
    BY <1>4, <1>5, <1>6, FramedAccepted, MagicsDiffer
  <1>8. M!ManifestError(f) = "Ok"
    <2>1. p[5] \in WordSet /\ p[5].word = n
      BY <1>1, <1>4, WordFacts
    <2>2. Len(p) \in Nat /\ Len(p) >= 5
      BY <1>1, <1>4, SMT
    <2>3. QED
      BY <2>1, <2>2, <1>1, <1>4, <1>7, ManifestErrorParts
  <1>9. M!CurrentError(f) # "Ok"
    BY <1>7, CurrentErrorParts
  <1>10. M!DecodeManifest(f) = r
    BY <1>1, <1>2, <1>7, DecodePayload
  <1>11. IsSeq(f) /\ Len(f) = 9 + n * 3 /\ f[1] = M!Name(M!ManifestMagic)
         /\ f[Len(f)] = M!Hash(M!Before(f, M!HashLen))
    <2>1. Len(f) = Len(p) + 4
      BY <1>5 DEF Framed
    <2>2. Len(f) = 9 + n * 3
      BY <2>1, <1>1, <1>4, SMT
    <2>3. QED
      BY <2>2, <1>5 DEF Framed
  <1>12. \A i \in 1 .. Len(p) : p[i] \in WordSet
    <2>1. /\ p[1] \in WordSet /\ p[2] \in WordSet /\ p[3] \in WordSet /\ p[4] \in WordSet
          /\ p[5] \in WordSet
      BY <1>1, <1>2, WordFacts DEF PayloadOf
    <2>2. ASSUME NEW j \in 1 .. n * 3 PROVE p[5 + j] \in WordSet
      <3>1. PICK i \in 1 .. n, k \in 1 .. 3 : (i - 1) * 3 + k = j
        BY <1>1, PlaceOf
      <3>2. p[5 + ((i - 1) * 3 + k)] \in WordSet
        <4>1. k = 1 \/ k = 2 \/ k = 3
          BY SMT
        <4>2. QED
          <5>1. /\ p[5 + ((i - 1) * 3 + 1)] = M!Word(r.segments[i].id)
                /\ p[5 + ((i - 1) * 3 + 2)] = M!Word(r.segments[i].first)
                /\ p[5 + ((i - 1) * 3 + 3)] = M!Word(r.segments[i].count)
            BY <1>2 DEF PayloadOf
          <5>2. /\ M!Word(r.segments[i].id) \in WordSet
                /\ M!Word(r.segments[i].first) \in WordSet
                /\ M!Word(r.segments[i].count) \in WordSet
            BY <1>1, WordFacts
          <5>3. QED
            BY <4>1, <5>1, <5>2
      <3>3. QED
        BY <3>1, <3>2
    <2>3. SUFFICES ASSUME NEW i \in 1 .. Len(p) PROVE p[i] \in WordSet
      OBVIOUS
    <2>4. i \in {1, 2, 3, 4, 5} \/ (i - 5 \in 1 .. n * 3 /\ 5 + (i - 5) = i)
      BY <1>1, <1>4, SMT
    <2>5. QED
      BY <2>1, <2>2, <2>4
  <1>13. ASSUME NEW i \in 2 .. Len(f) - 1 PROVE f[i] \in WordSet
    <2>1. i = 2 \/ i = 3 \/ (i - 3 \in 1 .. Len(p) /\ 3 + (i - 3) = i)
      BY <1>1, <1>4, <1>11, SMT
    <2>2. Len(p) \in Nat
      BY <1>1, <1>4, SMT
    <2>3. f[2] \in WordSet /\ f[3] \in WordSet
      BY <2>2, <1>5, WordFacts DEF Framed
    <2>4. CASE i - 3 \in 1 .. Len(p) /\ 3 + (i - 3) = i
      <3>1. f[3 + (i - 3)] = p[i - 3]
        BY <2>4, <1>5 DEF Framed
      <3>2. QED
        BY <2>4, <3>1, <1>12
    <2>5. QED
      BY <2>1, <2>3, <2>4
  <1>14. QED
    BY <1>1, <1>8, <1>9, <1>10, <1>11, <1>13 DEF f

\* A payload that passed the tests is the payload of what decoding makes of it.
LEMMA DecodedPayload ==
    ASSUME NEW b, NEW p, p = M!Payload(b), IsSeq(p), \A i \in 1 .. Len(p) : p[i] \in WordSet,
           Len(p) >= 5, Len(p) = 5 + p[5].word * 3
    PROVE  /\ PayloadOf(p, M!DecodeManifest(b))
           /\ Len(M!DecodeManifest(b).segments) \in Nat
  <1> DEFINE n == p[5].word
             r == M!DecodeManifest(b)
             entry(i) == [id |-> p[5 + (i - 1) * 3 + 1].word,
                          first |-> p[5 + (i - 1) * 3 + 2].word,
                          count |-> p[5 + (i - 1) * 3 + 3].word]
             s == [i \in 1 .. n |-> entry(i)]
  <1>1. Len(p) \in Nat
    BY SeqFacts
  <1>2. p[1] \in WordSet /\ p[2] \in WordSet /\ p[3] \in WordSet /\ p[4] \in WordSet
        /\ p[5] \in WordSet /\ n \in Nat
    <2>1. 1 \in 1 .. Len(p) /\ 2 \in 1 .. Len(p) /\ 3 \in 1 .. Len(p) /\ 4 \in 1 .. Len(p)
          /\ 5 \in 1 .. Len(p)
      BY <1>1, SMT
    <2>2. QED
      BY <2>1, WordFacts
  <1>3. r = [generation |-> p[1].word, previous |-> p[2].word, model |-> p[3].word,
             total |-> p[4].word, segments |-> s]
    BY Zenon DEF M!DecodeManifest, M!HeadLen, M!EntryLen
  <1>4. /\ r.generation = p[1].word /\ r.previous = p[2].word /\ r.model = p[3].word
        /\ r.total = p[4].word /\ r.segments = s
    <2> HIDE DEF s, r
    <2>1. QED
      BY <1>3
  <1>5. /\ IsSeq(s) /\ Len(s) = n /\ \A i \in 1 .. n : s[i] = entry(i)
    <2>1. s = [i \in 1 .. n |-> s[i]] /\ \A i \in 1 .. n : s[i] = entry(i)
      OBVIOUS
    <2> HIDE DEF s
    <2>2. QED
      BY <2>1, <1>2, FunctionIsSeq
  <1>6. ASSUME NEW i \in 1 .. n
        PROVE  /\ p[5 + ((i - 1) * 3 + 1)] = M!Word(entry(i).id)
               /\ p[5 + ((i - 1) * 3 + 2)] = M!Word(entry(i).first)
               /\ p[5 + ((i - 1) * 3 + 3)] = M!Word(entry(i).count)
    <2>1. /\ 5 + (i - 1) * 3 + 1 = 5 + ((i - 1) * 3 + 1)
          /\ 5 + (i - 1) * 3 + 2 = 5 + ((i - 1) * 3 + 2)
          /\ 5 + (i - 1) * 3 + 3 = 5 + ((i - 1) * 3 + 3)
      BY <1>2, SMT
    <2>2. /\ 5 + ((i - 1) * 3 + 1) \in 1 .. Len(p)
          /\ 5 + ((i - 1) * 3 + 2) \in 1 .. Len(p)
          /\ 5 + ((i - 1) * 3 + 3) \in 1 .. Len(p)
      <3> HIDE DEF n
      <3>1. n \in Nat /\ Len(p) = 5 + n * 3
        BY <1>2 DEF n
      <3>2. QED
        BY <3>1, SMT
    <2>3. /\ p[5 + ((i - 1) * 3 + 1)] \in WordSet
          /\ p[5 + ((i - 1) * 3 + 2)] \in WordSet
          /\ p[5 + ((i - 1) * 3 + 3)] \in WordSet
      BY <2>2
    <2>4. /\ entry(i).id = p[5 + ((i - 1) * 3 + 1)].word
          /\ entry(i).first = p[5 + ((i - 1) * 3 + 2)].word
          /\ entry(i).count = p[5 + ((i - 1) * 3 + 3)].word
      BY <2>1
    <2> HIDE DEF entry
    <2>5. QED
      BY <2>3, <2>4, WordFacts
  <1> HIDE DEF entry, s, r
  <1>7. \A i \in 1 .. n :
               /\ p[5 + ((i - 1) * 3 + 1)] = M!Word(r.segments[i].id)
               /\ p[5 + ((i - 1) * 3 + 2)] = M!Word(r.segments[i].first)
               /\ p[5 + ((i - 1) * 3 + 3)] = M!Word(r.segments[i].count)
    BY <1>4, <1>5, <1>6
  <1>8. /\ p[1] = M!Word(r.generation) /\ p[2] = M!Word(r.previous) /\ p[3] = M!Word(r.model)
        /\ p[4] = M!Word(r.total) /\ p[5] = M!Word(Len(r.segments)) /\ Len(r.segments) = n
    BY <1>2, <1>4, <1>5, WordFacts
  <1>9. PayloadOf(p, r)
    BY <1>7, <1>8 DEF PayloadOf
  <1>10. QED
    BY <1>2, <1>8, <1>9 DEF r

LEMMA ManifestAccepted ==
    ASSUME NEW b, IsSeq(b), \A i \in 3 .. Len(b) - 1 : b[i] \in WordSet,
           M!ManifestError(b) = "Ok"
    PROVE  /\ M!EncodeManifest(M!DecodeManifest(b)) = b
           /\ Accepted(b, M!ManifestMagic)
  <1> DEFINE p == M!Payload(b)
             r == M!DecodeManifest(b)
             q == ManifestPayload(r)
  <1>1. M!Unpack(b, M!ManifestMagic) = "Ok"
    BY DEF M!ManifestError
  <1>2. Len(b) \in Nat /\ (Len(b) >= 4 => b[3] \in WordSet)
    <2>1. Len(b) \in Nat
      BY SeqFacts
    <2>2. Len(b) >= 4 => 3 \in 3 .. Len(b) - 1
      BY <2>1, SMT
    <2>3. QED
      BY <2>1, <2>2
  <1>3. Accepted(b, M!ManifestMagic)
    BY <1>1, <1>2, UnpackParts
  <1>4. /\ IsSeq(p) /\ Framed(b, M!ManifestMagic, p)
        /\ Len(p) = Len(b) - 4 /\ Len(b) >= 4 /\ \A i \in 1 .. Len(p) : p[i] = b[3 + i]
    BY <1>2, <1>3, AcceptedFramed
  <1>5. \A i \in 1 .. Len(p) : p[i] \in WordSet
    <2>1. \A i \in 1 .. Len(p) : 3 + i \in 3 .. Len(b) - 1
      BY <1>2, <1>4, SMT
    <2>2. QED
      BY <2>1, <1>4
  <1>6. Len(p) \in Nat /\ (Len(p) >= 5 => p[5] \in WordSet)
    <2>1. Len(p) \in Nat
      BY <1>4, SeqFacts
    <2>2. Len(p) >= 5 => 5 \in 1 .. Len(p)
      BY <2>1, SMT
    <2>3. QED
      BY <2>1, <2>2, <1>5
  <1> HIDE DEF p, r, q
  <1>7. Len(p) >= 5 /\ p[5].word <= MaxSegments /\ Len(p) = 5 + p[5].word * 3
    <2>1. p = M!Payload(b)
      BY DEF p
    <2>2. QED
      BY <2>1, <1>6, ManifestErrorParts
  <1>8. PayloadOf(p, r) /\ Len(r.segments) \in Nat
    <2>1. p = M!Payload(b)
      BY DEF p
    <2>2. QED
      BY <2>1, <1>4, <1>5, <1>7, DecodedPayload DEF r
  <1>9. PayloadOf(q, r)
    BY <1>8, PayloadWords DEF q
  <1>10. p = q
    BY <1>8, <1>9, PayloadUnique
  <1>11. M!EncodeManifest(r) = M!Pack(M!ManifestMagic, q)
    BY EncodeManifestIs DEF q
  <1>12. IsSeq(q)
    BY <1>9 DEF PayloadOf
  <1>13. Framed(M!Pack(M!ManifestMagic, q), M!ManifestMagic, q)
    BY <1>12, PackFrames
  <1>14. M!Pack(M!ManifestMagic, q) = b
    BY <1>4, <1>10, <1>12, <1>13, FramedAlike
  <1>15. QED
    BY <1>3, <1>11, <1>14 DEF r

-----------------------------------------------------------------------------
(* What damage leaves of a file. *)

\* The file o as it was written: a CURRENT, or a manifest of n segments.
Original(o) ==
    /\ IsSeq(o) /\ Len(o) >= 7
    /\ \A i \in 2 .. 5 : o[i] \in WordSet
    /\ \A i \in 2 .. Len(o) - 1 : o[i] \in WordSet \/ \E y : o[i] = M!Crc(y)
    /\ o[Len(o)] = M!Hash(M!Before(o, M!HashLen))

LEMMA CrcIsNoHash == ASSUME NEW x, NEW y PROVE M!Crc(x) # M!Hash(y)
  <1>1. DOMAIN M!Hash(y) = {"hash"} /\ DOMAIN M!Crc(x) = {"crc"}
    BY DEF M!Hash, M!Crc
  <1>2. {"crc"} # {"hash"}
    OBVIOUS
  <1>3. QED
    BY <1>1, <1>2

LEMMA CurrentOriginal ==
    ASSUME NEW c \in CurrentRecord
    PROVE  Original(M!EncodeCurrent(c))
  <1> DEFINE f == M!EncodeCurrent(c)
  <1>1. /\ IsSeq(f) /\ Len(f) = 7
        /\ \A i \in 2 .. 5 : f[i] \in WordSet
        /\ \E y : f[6] = M!Crc(y)
        /\ f[7] = M!Hash(M!Before(f, M!HashLen))
    BY CurrentEncoded
  <1> HIDE DEF f
  <1>2. \A i \in 2 .. Len(f) - 1 : i \in 2 .. 5 \/ i = 6
    BY <1>1, SMT
  <1>3. Len(f) >= 7
    BY <1>1, SMT
  <1>4. Original(f)
    BY <1>1, <1>2, <1>3 DEF Original
  <1>5. QED
    BY <1>4 DEF f

LEMMA ManifestOriginal ==
    ASSUME NEW r \in Stored
    PROVE  Original(M!EncodeManifest(r))
  <1> DEFINE f == M!EncodeManifest(r)
             n == Len(r.segments)
  <1>1. /\ IsSeq(f) /\ Len(f) = 9 + n * 3 /\ n \in Nat
        /\ \A i \in 2 .. Len(f) - 1 : f[i] \in WordSet
        /\ f[Len(f)] = M!Hash(M!Before(f, M!HashLen))
    BY ManifestEncoded
  <1> HIDE DEF f, n
  <1>2. Len(f) >= 7 /\ \A i \in 2 .. 5 : i \in 2 .. Len(f) - 1
    BY <1>1, SMT
  <1>3. Original(f)
    BY <1>1, <1>2 DEF Original
  <1>4. QED
    BY <1>3 DEF f

\* What times damages, and maybe a new hash, make of the file o.
Derived(d, o, times, rehashed) ==
    /\ IsSeq(d)
    /\ Len(d) <= Len(o) + times
    /\ Len(d) >= 1 /\ d[1] # o[1] => Len(d) < Len(o) + times
    /\ \A i \in 2 .. Len(d) :
          \/ rehashed /\ i = Len(d)
          \/ i <= Len(o) /\ d[i] = o[i]
          \/ d[i] \in WordSet

\* A file whose hash fits, and that nobody gave a new hash, is as it was written.
LEMMA UndamagedIfAccepted ==
    ASSUME NEW d, NEW o, NEW times \in Nat, NEW magic, Original(o),
           Derived(d, o, times, FALSE), Accepted(d, magic)
    PROVE  d = o
  <1>1. IsSeq(d) /\ IsSeq(o) /\ Len(d) \in Nat /\ Len(o) \in Nat
    BY SeqFacts DEF Derived, Original
  <1>2. Len(d) >= 4 /\ Len(d) \in 2 .. Len(d) /\ Len(o) >= 7
    BY <1>1, SMT DEF Accepted, Original
  <1>3. d[Len(d)] = M!Hash(M!Before(d, M!HashLen))
    BY DEF Accepted
  <1>4. Len(d) <= Len(o) /\ d[Len(d)] = o[Len(d)]
    <2>1. d[Len(d)] \notin WordSet
      BY <1>3, ItemsDiffer
    <2>2. QED
      BY <1>2, <2>1 DEF Derived
  <1>5. Len(d) = Len(o)
    <2>1. SUFFICES ASSUME Len(d) # Len(o) PROVE FALSE
      OBVIOUS
    <2>2. Len(d) \in 2 .. Len(o) - 1
      BY <2>1, <1>1, <1>2, <1>4, SMT
    <2>3. o[Len(d)] \in WordSet \/ \E y : o[Len(d)] = M!Crc(y)
      BY <2>2 DEF Original
    <2>4. QED
      BY <2>3, <1>3, <1>4, ItemsDiffer, CrcIsNoHash
  <1>6. M!Before(d, M!HashLen) = M!Before(o, M!HashLen)
    <2>1. M!Hash(M!Before(d, M!HashLen)) = M!Hash(M!Before(o, M!HashLen))
      BY <1>3, <1>4, <1>5 DEF Original
    <2>2. QED
      BY <2>1, HashFacts
  <1>7. \A i \in 1 .. Len(d) - 1 : d[i] = o[i]
    <2> DEFINE x == M!Before(d, M!HashLen)
               y == M!Before(o, M!HashLen)
    <2>1. Len(d) >= 1 /\ Len(o) >= 1
      BY <1>1, <1>2, SMT
    <2>2. \A i \in 1 .. Len(d) - 1 : x[i] = d[i]
      BY <2>1, <1>1, BeforeHash
    <2>3. \A i \in 1 .. Len(o) - 1 : y[i] = o[i]
      BY <2>1, <1>1, BeforeHash
    <2>4. x = y
      BY <1>6
    <2> HIDE DEF x, y
    <2>5. QED
      BY <2>2, <2>3, <2>4, <1>5
  <1>8. \A i \in 1 .. Len(d) : d[i] = o[i]
    <2>1. \A i \in 1 .. Len(d) : i \in 1 .. Len(d) - 1 \/ i = Len(d)
      BY <1>1, SMT
    <2>2. QED
      BY <2>1, <1>4, <1>7
  <1>9. QED
    BY <1>1, <1>5, <1>8, SeqSame

\* The words every reader looks at first are words.
LEMMA FirstWords ==
    ASSUME NEW d, NEW o, NEW times \in Nat, NEW rehashed, Original(o),
           Derived(d, o, times, rehashed)
    PROVE  /\ \A i \in 3 .. 5 : i < Len(d) => d[i] \in WordSet
           /\ Len(d) >= 4 => d[3] \in WordSet
  <1>1. IsSeq(d) /\ IsSeq(o) /\ Len(d) \in Nat /\ Len(o) \in Nat /\ Len(o) >= 7
    BY SeqFacts DEF Derived, Original
  <1>2. ASSUME NEW i \in 3 .. 5, i < Len(d) PROVE d[i] \in WordSet
    <2>1. i \in 2 .. Len(d) /\ i # Len(d) /\ i \in 2 .. 5
      BY <1>1, <1>2, SMT
    <2>2. d[i] = o[i] \/ d[i] \in WordSet
      BY <2>1 DEF Derived
    <2>3. QED
      BY <2>1, <2>2 DEF Original
  <1>3. Len(d) >= 4 => 3 \in 3 .. 5 /\ 3 < Len(d)
    BY <1>1, SMT
  <1>4. QED
    BY <1>2, <1>3

\* A manifest of which two words at most were added or changed, and which is
\* accepted, holds only words.
LEMMA ManifestWords ==
    ASSUME NEW d, NEW r \in Stored, NEW times \in 0 .. 2, NEW rehashed,
           Derived(d, M!EncodeManifest(r), times, rehashed), M!ManifestError(d) = "Ok"
    PROVE  \A i \in 3 .. Len(d) - 1 : d[i] \in WordSet
  <1> DEFINE o == M!EncodeManifest(r)
             n == Len(r.segments)
             p == M!Payload(d)
  <1>1. /\ Original(o) /\ Len(o) = 9 + n * 3 /\ n \in Nat
        /\ \A i \in 2 .. Len(o) - 1 : o[i] \in WordSet
    BY ManifestEncoded, ManifestOriginal
  <1>2. IsSeq(d) /\ Len(d) \in Nat /\ Derived(d, o, times, rehashed)
    BY SeqFacts DEF Derived
  <1> HIDE DEF o, n
  <1>3. ASSUME NEW i \in 3 .. Len(d) - 1, i < Len(o) PROVE d[i] \in WordSet
    <2>1. i \in 2 .. Len(d) /\ i # Len(d) /\ i \in 2 .. Len(o) - 1
      BY <1>1, <1>2, <1>3, SMT
    <2>2. d[i] = o[i] \/ d[i] \in WordSet
      BY <2>1, <1>2 DEF Derived
    <2>3. QED
      BY <2>1, <2>2, <1>1
  <1>4. M!Unpack(d, M!ManifestMagic) = "Ok"
    BY DEF M!ManifestError
  <1>5. Len(d) >= 4 => d[3] \in WordSet
    BY <1>1, <1>2, FirstWords
  <1>6. Accepted(d, M!ManifestMagic)
    BY <1>2, <1>4, <1>5, UnpackParts
  <1>7. Len(p) = Len(d) - 4 /\ Len(d) >= 4 /\ \A i \in 1 .. Len(p) : p[i] = d[3 + i]
    BY <1>2, <1>5, <1>6, AcceptedFramed
  <1>8. Len(p) \in Nat
    BY <1>2, <1>7, SMT
  <1>9. Len(p) >= 5 => p[5] \in WordSet
    <2>1. SUFFICES ASSUME Len(p) >= 5 PROVE p[5] \in WordSet
      OBVIOUS
    <2>2. 5 \in 1 .. Len(p) /\ 8 \in 3 .. Len(d) - 1 /\ 8 < Len(o) /\ 3 + 5 = 8
      BY <2>1, <1>1, <1>2, <1>7, <1>8, SMT
    <2>3. p[5] = d[8]
      BY <2>2, <1>7
    <2>4. QED
      BY <2>2, <2>3, <1>3
  <1> HIDE DEF p
  <1>10. Len(p) >= 5 /\ Len(p) = 5 + p[5].word * 3
    <2>1. p = M!Payload(d)
      BY DEF p
    <2>2. QED
      BY <2>1, <1>8, <1>9, ManifestErrorParts
  <1>11. Len(d) <= Len(o)
    <2> DEFINE k == p[5].word
    <2>1. k \in Nat
      BY <1>9, <1>10, WordFacts
    <2>2. Len(d) = 9 + k * 3
      <3> HIDE DEF k
      <3>1. Len(p) = 5 + k * 3
        BY <1>10 DEF k
      <3>2. QED
        BY <3>1, <2>1, <1>2, <1>7, SMT
    <2>3. Len(d) <= Len(o) + times
      BY <1>2 DEF Derived
    <2> HIDE DEF k
    <2>4. QED
      BY <2>1, <2>2, <2>3, <1>1, SMT
  <1>12. \A i \in 3 .. Len(d) - 1 : i < Len(o)
    BY <1>1, <1>2, <1>11, SMT
  <1>13. QED
    BY <1>3, <1>12

\* A CURRENT of which two words at most were added or changed is no manifest.
LEMMA CurrentIsNoManifest ==
    ASSUME NEW d, NEW c \in CurrentRecord, NEW times \in 0 .. 2, NEW rehashed,
           Derived(d, M!EncodeCurrent(c), times, rehashed)
    PROVE  M!ManifestError(d) # "Ok"
  <1> DEFINE o == M!EncodeCurrent(c)
             p == M!Payload(d)
  <1>1. Original(o) /\ Len(o) = 7 /\ o[1] = M!Name(M!CurrentMagic)
    BY CurrentEncoded, CurrentOriginal
  <1>2. IsSeq(d) /\ Len(d) \in Nat /\ Derived(d, o, times, rehashed)
    BY SeqFacts DEF Derived
  <1> HIDE DEF o
  <1>3. SUFFICES ASSUME M!ManifestError(d) = "Ok" PROVE FALSE
    OBVIOUS
  <1>4. M!Unpack(d, M!ManifestMagic) = "Ok"
    BY <1>3 DEF M!ManifestError
  <1>5. Len(d) >= 4 => d[3] \in WordSet
    BY <1>1, <1>2, FirstWords
  <1>6. Accepted(d, M!ManifestMagic)
    BY <1>2, <1>4, <1>5, UnpackParts
  <1>7. Len(p) = Len(d) - 4 /\ Len(d) >= 4
    BY <1>2, <1>5, <1>6, AcceptedFramed
  <1>8. Len(d) < 9
    <2>1. d[1] # o[1] /\ Len(d) >= 1
      BY <1>1, <1>2, <1>6, <1>7, MagicsDiffer, SMT DEF Accepted
    <2>2. Len(d) < Len(o) + times
      BY <2>1, <1>2 DEF Derived
    <2>3. QED
      BY <2>2, <1>1, <1>2, SMT
  <1>9. Len(p) \in Nat /\ ~ (Len(p) >= 5)
    BY <1>2, <1>7, <1>8, SMT
  <1> HIDE DEF p
  <1>10. QED
    <2>1. p = M!Payload(d)
      BY DEF p
    <2>2. QED
      BY <2>1, <1>3, <1>9, ManifestErrorParts

\* The file that was written, before any damage.
FileOf(w) ==
    IF w.kind = "current" THEN M!EncodeCurrent(w.record)
    ELSE IF w.kind = "manifest" THEN M!EncodeManifest(w.record)
    ELSE <<>>

WrittenFiles ==
    [kind : {"current"}, record : CurrentRecord] \cup [kind : {"manifest"}, record : Stored]

\* What is on disk derives from what was written there by as many damages as
\* were counted; a file that was never damaged is as it was written.
ContainerInv ==
    /\ written = M!NoFile \/ written \in WrittenFiles
    /\ damage \in [times : 0 .. MaxDamage, rehashed : BOOLEAN]
    /\ damage.rehashed => damage.times > 0
    /\ written = M!NoFile => damage.times = 0
    /\ damage.times = 0 => disk = FileOf(written)
    /\ written # M!NoFile => Derived(disk, FileOf(written), damage.times, damage.rehashed)

\* A manifest in memory is one that can be listed.
ListedInv == m \in Listed

-----------------------------------------------------------------------------
(* What each damage makes of a file. *)

LEMMA TruncateDerived ==
    ASSUME NEW d, NEW o, NEW t \in Nat, Derived(d, o, t, FALSE), IsSeq(o),
           NEW n \in 0 .. Len(d) - 1
    PROVE  Derived(SubSeq(d, 1, n), o, t + 1, FALSE)
  <1> DEFINE e == SubSeq(d, 1, n)
  <1>1. IsSeq(d) /\ Len(d) \in Nat /\ Len(o) \in Nat
    BY SeqFacts DEF Derived
  <1>2. n \in Nat /\ n <= Len(d) /\ 1 <= n + 1 /\ n - 1 + 1 = n /\ n < Len(d)
        /\ \A i \in 1 .. n : 1 + i - 1 = i
    BY <1>1, SMT
  <1>3. /\ IsSeq(e) /\ Len(e) = n - 1 + 1
        /\ \A i \in 1 .. n - 1 + 1 : e[i] = d[1 + i - 1]
    BY <1>1, <1>2, SubSeqFacts
  <1> HIDE DEF e
  <1>4. Len(e) = n /\ \A i \in 1 .. n : e[i] = d[i]
    BY <1>2, <1>3
  <1>5. Len(e) < Len(o) + (t + 1) /\ Len(e) <= Len(o) + (t + 1)
    <2>1. Len(d) <= Len(o) + t
      BY DEF Derived
    <2>2. QED
      BY <2>1, <1>1, <1>2, <1>4, SMT
  <1>6. ASSUME NEW i \in 2 .. Len(e) PROVE (i <= Len(o) /\ e[i] = o[i]) \/ e[i] \in WordSet
    <2>1. i \in 2 .. Len(d) /\ i \in 1 .. n
      BY <1>1, <1>2, <1>4, SMT
    <2>2. QED
      BY <2>1, <1>4 DEF Derived
  <1>7. Derived(e, o, t + 1, FALSE)
    BY <1>3, <1>5, <1>6 DEF Derived
  <1>8. QED
    BY <1>7 DEF e

LEMMA GrowDerived ==
    ASSUME NEW d, NEW o, NEW t \in Nat, Derived(d, o, t, FALSE), IsSeq(o), Len(o) >= 1,
           NEW x \in WordSet
    PROVE  Derived(Append(d, x), o, t + 1, FALSE)
  <1> DEFINE e == Append(d, x)
  <1>1. IsSeq(d) /\ Len(d) \in Nat /\ Len(o) \in Nat
    BY SeqFacts DEF Derived
  <1>2. /\ IsSeq(e) /\ Len(e) = Len(d) + 1
        /\ \A i \in 1 .. Len(d) : e[i] = d[i]
        /\ e[Len(d) + 1] = x
    BY <1>1, AppendFacts
  <1> HIDE DEF e
  <1>3. Len(d) <= Len(o) + t
    BY DEF Derived
  <1>4. Len(e) <= Len(o) + (t + 1)
    BY <1>1, <1>2, <1>3, SMT
  <1>5. ASSUME e[1] # o[1] PROVE Len(e) < Len(o) + (t + 1)
    <2>1. CASE Len(d) = 0
      BY <2>1, <1>1, <1>2, SMT
    <2>2. CASE Len(d) # 0
      <3>1. 1 \in 1 .. Len(d) /\ Len(d) >= 1
        BY <2>2, <1>1, SMT
      <3>2. d[1] # o[1]
        BY <3>1, <1>2, <1>5
      <3>3. Len(d) < Len(o) + t
        BY <3>1, <3>2 DEF Derived
      <3>4. QED
        BY <3>3, <1>1, <1>2, SMT
    <2>3. QED
      BY <2>1, <2>2
  <1>6. ASSUME NEW i \in 2 .. Len(e) PROVE (i <= Len(o) /\ e[i] = o[i]) \/ e[i] \in WordSet
    <2>1. i = Len(d) + 1 \/ (i \in 2 .. Len(d) /\ i \in 1 .. Len(d))
      BY <1>1, <1>2, SMT
    <2>2. CASE i = Len(d) + 1
      BY <2>2, <1>2
    <2>3. CASE i \in 2 .. Len(d) /\ i \in 1 .. Len(d)
      BY <2>3, <1>2 DEF Derived
    <2>4. QED
      BY <2>1, <2>2, <2>3
  <1>7. Derived(e, o, t + 1, FALSE)
    BY <1>2, <1>4, <1>5, <1>6 DEF Derived
  <1>8. QED
    BY <1>7 DEF e

LEMMA ChangeDerived ==
    ASSUME NEW d, NEW o, NEW t \in Nat, Derived(d, o, t, FALSE), IsSeq(o),
           NEW k \in 2 .. Len(d), NEW x \in WordSet
    PROVE  Derived([d EXCEPT ![k] = x], o, t + 1, FALSE)
  <1> DEFINE e == [d EXCEPT ![k] = x]
  <1>1. IsSeq(d) /\ Len(d) \in Nat /\ Len(o) \in Nat
    BY SeqFacts DEF Derived
  <1>2. k \in 1 .. Len(d) /\ 1 # k /\ 1 \in 1 .. Len(d) /\ Len(d) >= 1
    BY <1>1, SMT
  <1>3. /\ IsSeq(e) /\ Len(e) = Len(d) /\ e[k] = x
        /\ \A i \in 1 .. Len(d) : i # k => e[i] = d[i]
    BY <1>1, <1>2, ExceptFacts
  <1> HIDE DEF e
  <1>4. Len(d) <= Len(o) + t
    BY DEF Derived
  <1>5. Len(e) <= Len(o) + (t + 1) /\ Len(e) < Len(o) + (t + 1)
    BY <1>1, <1>3, <1>4, SMT
  <1>6. ASSUME NEW i \in 2 .. Len(e) PROVE (i <= Len(o) /\ e[i] = o[i]) \/ e[i] \in WordSet
    <2>1. CASE i = k
      BY <2>1, <1>3
    <2>2. CASE i # k
      <3>1. i \in 2 .. Len(d) /\ i \in 1 .. Len(d)
        BY <1>1, <1>3, SMT
      <3>2. QED
        BY <3>1, <2>2, <1>3 DEF Derived
    <2>3. QED
      BY <2>1, <2>2
  <1>7. Derived(e, o, t + 1, FALSE)
    BY <1>3, <1>5, <1>6 DEF Derived
  <1>8. QED
    BY <1>7 DEF e

LEMMA CrossDerived ==
    ASSUME NEW d, NEW o, NEW t \in Nat, Derived(d, o, t, FALSE), IsSeq(o),
           d # <<>>, NEW x
    PROVE  Derived([d EXCEPT ![1] = x], o, t + 1, FALSE)
  <1> DEFINE e == [d EXCEPT ![1] = x]
  <1>1. IsSeq(d) /\ Len(d) \in Nat /\ Len(o) \in Nat
    BY SeqFacts DEF Derived
  <1>2. Len(d) # 0
    <2>1. SUFFICES ASSUME Len(d) = 0 PROVE FALSE
      OBVIOUS
    <2>2. Len(d) = Len(<<>>) /\ IsSeq(<<>>) /\ \A i \in 1 .. Len(d) : d[i] = <<>>[i]
      BY <2>1, TupleFacts, SMT
    <2>3. d = <<>>
      BY <2>2, <1>1, SeqSame
    <2>4. QED
      BY <2>3
  <1>3. 1 \in 1 .. Len(d)
    BY <1>1, <1>2, SMT
  <1>4. /\ IsSeq(e) /\ Len(e) = Len(d)
        /\ \A i \in 1 .. Len(d) : i # 1 => e[i] = d[i]
    BY <1>1, <1>3, ExceptFacts
  <1> HIDE DEF e
  <1>5. Len(d) <= Len(o) + t
    BY DEF Derived
  <1>6. Len(e) <= Len(o) + (t + 1) /\ Len(e) < Len(o) + (t + 1)
    BY <1>1, <1>4, <1>5, SMT
  <1>7. ASSUME NEW i \in 2 .. Len(e) PROVE (i <= Len(o) /\ e[i] = o[i]) \/ e[i] \in WordSet
    <2>1. i \in 2 .. Len(d) /\ i \in 1 .. Len(d) /\ i # 1
      BY <1>1, <1>4, SMT
    <2>2. QED
      BY <2>1, <1>4 DEF Derived
  <1>8. Derived(e, o, t + 1, FALSE)
    BY <1>4, <1>6, <1>7 DEF Derived
  <1>9. QED
    BY <1>8 DEF e

\* A new hash keeps the words, all but the size.
LEMMA RehashDerived ==
    ASSUME NEW d, NEW o, NEW t \in Nat, Derived(d, o, t, FALSE), Original(o),
           Len(d) >= 4, NEW size, NEW h,
           size = d[3] \/ size \in WordSet
    PROVE  Derived(Append([M!Before(d, M!HashLen) EXCEPT ![3] = size], h), o, t, TRUE)
  <1> DEFINE b == M!Before(d, M!HashLen)
             c == [b EXCEPT ![3] = size]
             e == Append(c, h)
  <1>1. IsSeq(d) /\ Len(d) \in Nat /\ IsSeq(o) /\ Len(o) \in Nat /\ Len(o) >= 7
    BY SeqFacts DEF Derived, Original
  <1>2. Len(d) >= 1 /\ Len(d) - 1 + 1 = Len(d) /\ 3 \in 1 .. Len(d) - 1 /\ 3 \in 2 .. Len(d)
        /\ 1 \in 1 .. Len(d) - 1 /\ 1 # 3
    BY <1>1, SMT
  <1>3. IsSeq(b) /\ Len(b) = Len(d) - 1 /\ \A i \in 1 .. Len(d) - 1 : b[i] = d[i]
    BY <1>1, <1>2, BeforeHash
  <1> HIDE DEF b
  <1>4. /\ IsSeq(c) /\ Len(c) = Len(b) /\ c[3] = size
        /\ \A i \in 1 .. Len(b) : i # 3 => c[i] = b[i]
    <2>1. 3 \in 1 .. Len(b)
      BY <1>2, <1>3
    <2>2. QED
      BY <2>1, <1>3, ExceptFacts
  <1> HIDE DEF c
  <1>5. /\ IsSeq(e) /\ Len(e) = Len(c) + 1
        /\ \A i \in 1 .. Len(c) : e[i] = c[i]
    BY <1>4, AppendFacts
  <1> HIDE DEF e
  <1>6. Len(e) = Len(d) /\ e[3] = size /\ e[1] = d[1]
        /\ \A i \in 1 .. Len(d) - 1 : i # 3 => e[i] = d[i]
    BY <1>2, <1>3, <1>4, <1>5
  <1>7. size \in WordSet \/ (3 <= Len(o) /\ size = o[3])
    <2>1. d[3] \in WordSet \/ (3 <= Len(o) /\ d[3] = o[3])
      BY <1>2 DEF Derived
    <2>2. QED
      BY <2>1
  <1>8. ASSUME NEW i \in 2 .. Len(e)
        PROVE  i = Len(e) \/ (i <= Len(o) /\ e[i] = o[i]) \/ e[i] \in WordSet
    <2>1. i = Len(e) \/ i = 3 \/ (i \in 2 .. Len(d) /\ i \in 1 .. Len(d) - 1 /\ i # 3)
      BY <1>1, <1>6, SMT
    <2>2. CASE i = 3
      BY <2>2, <1>6, <1>7
    <2>3. CASE i \in 2 .. Len(d) /\ i \in 1 .. Len(d) - 1 /\ i # 3
      BY <2>3, <1>6 DEF Derived
    <2>4. QED
      BY <2>1, <2>2, <2>3
  <1>9. Len(e) <= Len(o) + t /\ (Len(e) >= 1 /\ e[1] # o[1] => Len(e) < Len(o) + t)
    BY <1>6 DEF Derived
  <1>10. Derived(e, o, t, TRUE)
    BY <1>5, <1>8, <1>9 DEF Derived
  <1>11. QED
    BY <1>10 DEF e, c, b

-----------------------------------------------------------------------------
(* The steps. *)

LEMMA OriginalWritten ==
    ASSUME NEW w \in WrittenFiles
    PROVE  /\ Original(FileOf(w)) /\ w # M!NoFile
           /\ Derived(FileOf(w), FileOf(w), 0, FALSE)
  <1>1. Original(FileOf(w)) /\ w.kind \in {"current", "manifest"}
    <2>1. CASE w \in [kind : {"current"}, record : CurrentRecord]
      <3>1. w.kind = "current" /\ w.record \in CurrentRecord
        BY <2>1
      <3>2. Original(M!EncodeCurrent(w.record))
        BY <3>1, CurrentOriginal
      <3>3. QED
        BY <3>1, <3>2 DEF FileOf
    <2>2. CASE w \in [kind : {"manifest"}, record : Stored]
      <3>1. w.kind = "manifest" /\ w.record \in Stored
        BY <2>2
      <3>2. Original(M!EncodeManifest(w.record))
        BY <3>1, ManifestOriginal
      <3>3. QED
        BY <3>1, <3>2 DEF FileOf
    <2>3. QED
      BY <2>1, <2>2 DEF WrittenFiles
  <1>2. M!NoFile.kind = "none"
    BY DEF M!NoFile
  <1>3. Derived(FileOf(w), FileOf(w), 0, FALSE)
    <2> DEFINE o == FileOf(w)
    <2>1. IsSeq(o) /\ Len(o) \in Nat
      BY <1>1, SeqFacts DEF Original
    <2> HIDE DEF o
    <2>2. Len(o) <= Len(o) + 0 /\ \A i \in 2 .. Len(o) : i <= Len(o)
      BY <2>1, SMT
    <2>3. Derived(o, o, 0, FALSE)
      BY <2>1, <2>2 DEF Derived
    <2>4. QED
      BY <2>3 DEF o
  <1>4. QED
    BY <1>1, <1>2, <1>3

LEMMA ContainerInitInv ==
    ASSUME M!ContainerInit
    PROVE  ContainerInv
  <1>1. disk = <<>> /\ written = M!NoFile /\ damage = [times |-> 0, rehashed |-> FALSE]
    BY DEF M!ContainerInit
  <1>2. 0 \in 0 .. MaxDamage
    BY FilesAssumption, SMT
  <1>3. FileOf(written) = <<>>
    BY <1>1 DEF FileOf, M!NoFile
  <1>4. QED
    BY <1>1, <1>2, <1>3 DEF ContainerInv

LEMMA WriteKeeps ==
    ASSUME ContainerInv, written = M!NoFile, written' \in WrittenFiles,
           disk' = FileOf(written'), damage' = damage
    PROVE  ContainerInv'
  <1>1. /\ damage \in [times : 0 .. MaxDamage, rehashed : BOOLEAN]
        /\ damage.times = 0 /\ damage.rehashed = FALSE
    <2>1. damage.times = 0 /\ damage \in [times : 0 .. MaxDamage, rehashed : BOOLEAN]
          /\ (damage.rehashed => damage.times > 0)
      BY DEF ContainerInv
    <2>2. ~ (0 > 0)
      BY SMT
    <2>3. damage.rehashed \in BOOLEAN
      BY <2>1
    <2>4. QED
      BY <2>1, <2>2, <2>3
  <1>2. written' # M!NoFile /\ Derived(FileOf(written'), FileOf(written'), 0, FALSE)
    BY OriginalWritten
  <1>3. QED
    BY <1>1, <1>2 DEF ContainerInv

LEMMA WriteManifestKeeps ==
    ASSUME ContainerInv, m \in Listed, M!WriteManifest(m)
    PROVE  ContainerInv'
  <1>1. /\ written = M!NoFile /\ M!Valid(m, m.generation)
        /\ disk' = M!EncodeManifest(m) /\ written' = [kind |-> "manifest", record |-> m]
        /\ damage' = damage
    BY DEF M!WriteManifest
  <1>2. Len(m.segments) \in Nat /\ MaxSegments \in Nat
    BY FilesAssumption DEF Listed
  <1>3. ~ (Len(m.segments) > MaxSegments)
    BY <1>1, Zenon DEF M!Valid, M!Validate
  <1>4. m \in Stored
    BY <1>2, <1>3, SMT DEF Stored
  <1>5. written' \in WrittenFiles
    BY <1>1, <1>4 DEF WrittenFiles
  <1>6. FileOf(written') = M!EncodeManifest(m)
    BY <1>1 DEF FileOf
  <1>7. QED
    BY <1>1, <1>5, <1>6, WriteKeeps

LEMMA WriteCurrentKeeps ==
    ASSUME ContainerInv, NEW c \in CurrentRecord, M!WriteCurrent(c)
    PROVE  ContainerInv'
  <1>1. /\ written = M!NoFile
        /\ disk' = M!EncodeCurrent(c) /\ written' = [kind |-> "current", record |-> c]
        /\ damage' = damage
    BY DEF M!WriteCurrent
  <1>2. written' \in WrittenFiles
    BY <1>1 DEF WrittenFiles
  <1>3. FileOf(written') = M!EncodeCurrent(c)
    BY <1>1 DEF FileOf
  <1>4. QED
    BY <1>1, <1>2, <1>3, WriteKeeps

\* What the guard of a damage gives.
LEMMA DamagedParts ==
    ASSUME ContainerInv, written # M!NoFile, ~ damage.rehashed
    PROVE  LET o == FileOf(written) IN
           /\ Original(o) /\ IsSeq(o) /\ Len(o) >= 1 /\ written \in WrittenFiles
           /\ damage.times \in Nat /\ Derived(disk, o, damage.times, FALSE)
  <1>1. /\ written \in WrittenFiles /\ damage.times \in 0 .. MaxDamage
        /\ damage.rehashed \in BOOLEAN
        /\ Derived(disk, FileOf(written), damage.times, damage.rehashed)
    BY DEF ContainerInv
  <1>2. damage.rehashed = FALSE
    BY <1>1
  <1>3. Original(FileOf(written))
    BY <1>1, OriginalWritten
  <1> DEFINE o == FileOf(written)
  <1> HIDE DEF o
  <1>4. IsSeq(o) /\ Len(o) \in Nat /\ Len(o) >= 7
    BY <1>3, SeqFacts DEF Original, o
  <1>5. Len(o) >= 1 /\ damage.times \in Nat
    BY <1>1, <1>4, FilesAssumption, SMT
  <1>6. QED
    BY <1>1, <1>2, <1>3, <1>4, <1>5 DEF o

LEMMA DamagedKeeps ==
    ASSUME ContainerInv, NEW bytes, M!Damaged(bytes),
           Derived(bytes, FileOf(written), damage.times + 1, FALSE)
    PROVE  ContainerInv'
  <1>1. /\ written # M!NoFile /\ damage.times < MaxDamage /\ ~ damage.rehashed
        /\ disk' = bytes /\ damage' = [damage EXCEPT !.times = @ + 1] /\ written' = written
    BY DEF M!Damaged
  <1>2. written \in WrittenFiles /\ damage \in [times : 0 .. MaxDamage, rehashed : BOOLEAN]
    BY <1>1 DEF ContainerInv
  <1>3. damage'.times = damage.times + 1 /\ damage'.rehashed = FALSE
    BY <1>1, <1>2
  <1>4. /\ damage.times + 1 \in 0 .. MaxDamage /\ damage.times + 1 # 0
        /\ damage.times + 1 > 0
    BY <1>1, <1>2, FilesAssumption, SMT
  <1>5. damage' \in [times : 0 .. MaxDamage, rehashed : BOOLEAN]
    BY <1>1, <1>2, <1>4
  <1>6. QED
    BY <1>1, <1>2, <1>3, <1>4, <1>5 DEF ContainerInv

LEMMA RehashKeeps ==
    ASSUME ContainerInv, M!Rehash
    PROVE  ContainerInv'
  <1>1. M!HeaderLen + M!HashLen = 4
    BY SMT DEF M!HeaderLen, M!HashLen
  <1>2. /\ damage.times > 0 /\ ~ damage.rehashed /\ Len(disk) >= 4
        /\ damage' = [damage EXCEPT !.rehashed = TRUE] /\ written' = written
    BY <1>1 DEF M!Rehash
  <1>3. PICK size \in {disk[3], M!Word(Len(disk) - M!HeaderLen - M!HashLen)} :
            disk' = Append([M!Before(disk, M!HashLen) EXCEPT ![3] = size],
                           M!Hash([M!Before(disk, M!HashLen) EXCEPT ![3] = size]))
    BY DEF M!Rehash
  <1>4. written # M!NoFile /\ damage \in [times : 0 .. MaxDamage, rehashed : BOOLEAN]
    <2>1. ~ (0 > 0)
      BY SMT
    <2>2. QED
      BY <1>2, <2>1 DEF ContainerInv
  <1>5. /\ Original(FileOf(written)) /\ written \in WrittenFiles
        /\ damage.times \in Nat /\ Derived(disk, FileOf(written), damage.times, FALSE)
    BY <1>2, <1>4, DamagedParts
  <1>6. size = disk[3] \/ size \in WordSet
    <2>1. Len(disk) \in Nat
      BY <1>5, SeqFacts DEF Derived
    <2>2. Len(disk) - M!HeaderLen - M!HashLen \in Nat
      BY <1>2, <2>1, SMT DEF M!HeaderLen, M!HashLen
    <2>3. M!Word(Len(disk) - M!HeaderLen - M!HashLen) \in WordSet
      BY <2>2, WordFacts
    <2>4. QED
      BY <2>3, <1>3
  <1> DEFINE o == FileOf(written)
             h == M!Hash([M!Before(disk, M!HashLen) EXCEPT ![3] = size])
  <1> HIDE DEF o, h
  <1>7. Derived(Append([M!Before(disk, M!HashLen) EXCEPT ![3] = size], h),
                o, damage.times, TRUE)
    BY <1>2, <1>5, <1>6, RehashDerived DEF o
  <1>8. Derived(disk', FileOf(written), damage.times, TRUE)
    BY <1>3, <1>7 DEF o, h
  <1>9. damage'.times = damage.times /\ damage'.rehashed = TRUE
        /\ damage' \in [times : 0 .. MaxDamage, rehashed : BOOLEAN]
    BY <1>2, <1>4
  <1>10. damage.times # 0
    BY <1>2, <1>5, SMT
  <1>11. QED
    BY <1>2, <1>4, <1>5, <1>8, <1>9, <1>10 DEF ContainerInv

LEMMA TruncateKeeps ==
    ASSUME ContainerInv, M!Truncate
    PROVE  ContainerInv'
  <1>1. PICK n \in 0 .. Len(disk) - 1 : M!Damaged(SubSeq(disk, 1, n))
    BY DEF M!Truncate
  <1>2. written # M!NoFile /\ ~ damage.rehashed
    BY <1>1 DEF M!Damaged
  <1> DEFINE o == FileOf(written)
  <1> HIDE DEF o
  <1>3. IsSeq(o) /\ damage.times \in Nat /\ Derived(disk, o, damage.times, FALSE)
    BY <1>2, DamagedParts DEF o
  <1>4. Derived(SubSeq(disk, 1, n), o, damage.times + 1, FALSE)
    BY <1>3, TruncateDerived
  <1>5. QED
    BY <1>1, <1>4, DamagedKeeps DEF o

LEMMA GrowKeeps ==
    ASSUME ContainerInv, M!Grow
    PROVE  ContainerInv'
  <1>1. PICK value \in DamageValues : M!Damaged(Append(disk, M!Word(value)))
    BY DEF M!Grow
  <1>2. written # M!NoFile /\ ~ damage.rehashed
    BY <1>1 DEF M!Damaged
  <1> DEFINE o == FileOf(written)
             x == M!Word(value)
  <1>3. x \in WordSet
    BY FilesAssumption, WordFacts
  <1> HIDE DEF o, x
  <1>4. IsSeq(o) /\ Len(o) >= 1 /\ damage.times \in Nat /\ Derived(disk, o, damage.times, FALSE)
    BY <1>2, DamagedParts DEF o
  <1>5. Derived(Append(disk, x), o, damage.times + 1, FALSE)
    BY <1>3, <1>4, GrowDerived
  <1>6. QED
    BY <1>1, <1>5, DamagedKeeps DEF o, x

LEMMA ChangeKeeps ==
    ASSUME ContainerInv, M!Change
    PROVE  ContainerInv'
  <1>1. PICK i \in 2 .. Len(disk), value \in DamageValues :
            M!Damaged([disk EXCEPT ![i] = M!Word(value)])
    BY DEF M!Change
  <1>2. written # M!NoFile /\ ~ damage.rehashed
    BY <1>1 DEF M!Damaged
  <1> DEFINE o == FileOf(written)
             x == M!Word(value)
  <1>3. x \in WordSet
    BY FilesAssumption, WordFacts
  <1> HIDE DEF o, x
  <1>4. IsSeq(o) /\ damage.times \in Nat /\ Derived(disk, o, damage.times, FALSE)
    BY <1>2, DamagedParts DEF o
  <1>5. Derived([disk EXCEPT ![i] = x], o, damage.times + 1, FALSE)
    BY <1>3, <1>4, ChangeDerived
  <1>6. QED
    BY <1>1, <1>5, DamagedKeeps DEF o, x

LEMMA CrossReadKeeps ==
    ASSUME ContainerInv, M!CrossRead
    PROVE  ContainerInv'
  <1> DEFINE o == FileOf(written)
             x == M!Name(IF written.kind = "current" THEN M!ManifestMagic ELSE M!CurrentMagic)
  <1>1. disk # <<>> /\ M!Damaged([disk EXCEPT ![1] = x])
    BY DEF M!CrossRead
  <1>2. written # M!NoFile /\ ~ damage.rehashed
    BY <1>1 DEF M!Damaged
  <1> HIDE DEF o, x
  <1>3. IsSeq(o) /\ damage.times \in Nat /\ Derived(disk, o, damage.times, FALSE)
    BY <1>2, DamagedParts DEF o
  <1>4. Derived([disk EXCEPT ![1] = x], o, damage.times + 1, FALSE)
    BY <1>1, <1>3, CrossDerived
  <1>5. QED
    BY <1>1, <1>4, DamagedKeeps DEF o

-----------------------------------------------------------------------------
(* The specification keeps both invariants. *)

LEMMA EmptyListed ==
    M!Empty \in Listed /\ [M!Empty EXCEPT !.generation = 0] \in Listed
  <1>1. <<>> \in Seq(ListedEntry)
    OBVIOUS
  <1>2. 0 \in Nat /\ 1 \in Nat
    BY SMT
  <1> DEFINE none == <<>>
  <1>3. M!Empty = [generation |-> 1, previous |-> 0, model |-> 1, total |-> 0,
                   segments |-> none]
    BY DEF M!Empty, M!NoHash
  <1>4. none \in Seq(ListedEntry)
    BY <1>1
  <1> HIDE DEF none
  <1>5. [M!Empty EXCEPT !.generation = 0] =
            [generation |-> 0, previous |-> 0, model |-> 1, total |-> 0, segments |-> none]
    BY <1>3
  <1>6. QED
    BY <1>2, <1>3, <1>4, <1>5 DEF Listed

LEMMA EntriesListed == M!Entries \subseteq ListedEntry
  BY FilesAssumption DEF M!Entries, ListedEntry

FilesInv == ListedInv /\ ContainerInv

LEMMA FilesInitInv == FilesInit => FilesInv
  <1>1. SUFFICES ASSUME FilesInit PROVE FilesInv
    OBVIOUS
  <1>2. M!ContainerInit /\ m \in {M!Empty, [M!Empty EXCEPT !.generation = 0]}
    BY <1>1 DEF FilesInit, M!Init
  <1>3. QED
    BY <1>2, EmptyListed, ContainerInitInv DEF FilesInv, ListedInv

LEMMA FilesNextInv == FilesInv /\ [FilesNext]_<<vars, manifestVars>> => FilesInv'
  <1>1. SUFFICES ASSUME FilesInv, [FilesNext]_<<vars, manifestVars>> PROVE FilesInv'
    OBVIOUS
  <1>2. ListedInv /\ ContainerInv /\ m \in Listed
    BY <1>1 DEF FilesInv, ListedInv
  <1>3. CASE UNCHANGED manifestVars
    BY <1>2, <1>3 DEF manifestVars, FilesInv, ListedInv, ContainerInv
  <1>4. CASE M!List
    <2>1. PICK s \in M!Entries, t \in Totals :
              m' = [m EXCEPT !.segments = Append(@, s), !.total = t]
      BY <1>4 DEF M!List
    <2>2. s \in ListedEntry /\ t \in Nat
      BY EntriesListed, FilesAssumption
    <2>3. m.segments \in Seq(ListedEntry)
      BY <1>2 DEF Listed
    <2>4. Append(m.segments, s) \in Seq(ListedEntry)
      BY <2>2, <2>3
    <2>5. m' \in Listed
      BY <1>2, <2>1, <2>2, <2>4 DEF Listed
    <2>6. UNCHANGED <<disk, written, damage>>
      BY <1>4 DEF M!List, M!containerVars
    <2>7. QED
      BY <1>2, <2>5, <2>6 DEF FilesInv, ListedInv, ContainerInv
  <1>5. CASE M!Discard
    <2>1. m' = [m EXCEPT !.segments = <<>>, !.total = 0] /\ UNCHANGED <<disk, written, damage>>
      BY <1>5 DEF M!Discard, M!containerVars
    <2>2. <<>> \in Seq(ListedEntry) /\ 0 \in Nat
      OBVIOUS
    <2>3. m' \in Listed
      BY <1>2, <2>1, <2>2 DEF Listed
    <2>4. QED
      BY <1>2, <2>1, <2>3 DEF FilesInv, ListedInv, ContainerInv
  <1>6. CASE M!Store
    <2>1. /\ M!ContainerNext({m}, IF m = M!Empty THEN M!Currents ELSE {})
          /\ m' = m
      BY <1>6 DEF M!Store
    <2>2. \/ M!WriteManifest(m)
          \/ \E c \in M!Currents : M!WriteCurrent(c)
          \/ M!Truncate \/ M!Grow \/ M!Change \/ M!CrossRead \/ M!Rehash
      <3>1. \/ \E record \in {m} : M!WriteManifest(record)
            \/ \E c \in IF m = M!Empty THEN M!Currents ELSE {} : M!WriteCurrent(c)
            \/ M!Truncate \/ M!Grow \/ M!Change \/ M!CrossRead \/ M!Rehash
        BY <2>1, Zenon DEF M!ContainerNext
      <3>2. CASE \E record \in {m} : M!WriteManifest(record)
        <4>1. PICK record \in {m} : M!WriteManifest(record)
          BY <3>2
        <4>2. record = m
          BY <4>1
        <4>3. QED
          BY <4>1, <4>2, Zenon
      <3>3. CASE \E c \in IF m = M!Empty THEN M!Currents ELSE {} : M!WriteCurrent(c)
        <4>1. PICK c \in IF m = M!Empty THEN M!Currents ELSE {} : M!WriteCurrent(c)
          BY <3>3
        <4>2. c \in M!Currents
          OBVIOUS
        <4>3. QED
          BY <4>1, <4>2, Zenon
      <3>4. QED
        BY <3>1, <3>2, <3>3, Zenon
    <2>3. ASSUME NEW c \in M!Currents PROVE c \in CurrentRecord
      <3>1. Generations \subseteq Nat /\ 1 \in Nat
        BY FilesAssumption
      <3>2. c.generation \in Generations /\ c.manifest = 1
            /\ c = [generation |-> c.generation, manifest |-> c.manifest]
        BY DEF M!Currents
      <3>3. QED
        BY <3>1, <3>2 DEF CurrentRecord
    <2>4. ContainerInv'
      BY <1>2, <2>2, <2>3, WriteManifestKeeps, WriteCurrentKeeps, TruncateKeeps, GrowKeeps,
         ChangeKeeps, CrossReadKeeps, RehashKeeps
    <2>5. QED
      BY <1>2, <2>1, <2>4 DEF FilesInv, ListedInv
  <1>7. QED
    <2>1. CASE UNCHANGED <<vars, manifestVars>>
      BY <1>3, <2>1
    <2>2. CASE ReadSegment
      BY <1>3, <2>2 DEF ReadSegment
    <2>3. CASE ReadManifest
      BY <1>4, <1>5, <1>6, <2>3 DEF ReadManifest, M!Next
    <2>4. CASE ReadAgain
      BY <1>3, <2>4 DEF ReadAgain
    <2>5. QED
      BY <1>1, <2>1, <2>2, <2>3, <2>4 DEF FilesNext

LEMMA FilesAlwaysInv == FilesSpec => []FilesInv
  BY FilesInitInv, FilesNextInv, PTL DEF FilesSpec

-----------------------------------------------------------------------------
(* Reading back. *)

\* There is nothing to read in an empty file.
LEMMA EmptyRefused ==
    M!CurrentError(<<>>) # "Ok" /\ M!ManifestError(<<>>) # "Ok"
  <1>1. IsSeq(<<>>) /\ Len(<<>>) = 0 /\ ~ (0 >= 4)
    <2>1. IsSeq(<<>>) /\ Len(<<>>) = 0
      BY TupleFacts
    <2>2. ~ (0 >= 4)
      BY SMT
    <2>3. QED
      BY <2>1, <2>2
  <1> DEFINE none == <<>>
  <1> HIDE DEF none
  <1>2. \A magic : ~ Accepted(none, magic)
    BY <1>1 DEF Accepted, none
  <1>3. M!Unpack(none, M!CurrentMagic) # "Ok" /\ M!Unpack(none, M!ManifestMagic) # "Ok"
    <2>1. IsSeq(none) /\ (Len(none) >= 4 => none[3] \in WordSet)
      BY <1>1 DEF none
    <2>2. QED
      BY <2>1, <1>2, UnpackParts
  <1>4. M!CurrentError(none) # "Ok"
    BY <1>3, CurrentErrorParts
  <1>5. M!ManifestError(none) # "Ok"
    BY <1>3 DEF M!ManifestError
  <1>6. QED
    BY <1>4, <1>5 DEF none

\* What a reader of a CURRENT accepts, whatever was written and however it was
\* damaged.
LEMMA CurrentRead ==
    ASSUME NEW d, NEW o, NEW times \in Nat, NEW rehashed \in BOOLEAN, Original(o),
           Derived(d, o, times, rehashed), M!CurrentError(d) = "Ok"
    PROVE  M!EncodeCurrent(M!DecodeCurrent(d)) = d /\ (~ rehashed => d = o)
  <1>1. IsSeq(d) /\ \A i \in 3 .. 5 : i < Len(d) => d[i] \in WordSet
    BY FirstWords DEF Derived
  <1>2. M!EncodeCurrent(M!DecodeCurrent(d)) = d /\ Accepted(d, M!CurrentMagic)
    BY <1>1, CurrentAccepted
  <1>3. ASSUME ~ rehashed PROVE d = o
    <2>1. Derived(d, o, times, FALSE)
      BY <1>3
    <2>2. QED
      BY <2>1, <1>2, UndamagedIfAccepted
  <1>4. QED
    BY <1>2, <1>3

LEMMA ManifestRead ==
    ASSUME NEW d, NEW r \in Stored, NEW times \in 0 .. 2, NEW rehashed \in BOOLEAN,
           Derived(d, M!EncodeManifest(r), times, rehashed), M!ManifestError(d) = "Ok"
    PROVE  /\ M!EncodeManifest(M!DecodeManifest(d)) = d
           /\ ~ rehashed => d = M!EncodeManifest(r)
  <1> DEFINE o == M!EncodeManifest(r)
  <1>1. IsSeq(d) /\ \A i \in 3 .. Len(d) - 1 : d[i] \in WordSet
    BY ManifestWords DEF Derived
  <1>2. M!EncodeManifest(M!DecodeManifest(d)) = d /\ Accepted(d, M!ManifestMagic)
    BY <1>1, ManifestAccepted
  <1>3. Original(o) /\ Derived(d, o, times, rehashed) /\ times \in Nat
    BY ManifestOriginal
  <1> HIDE DEF o
  <1>4. ASSUME ~ rehashed PROVE d = o
    <2>1. Derived(d, o, times, FALSE)
      BY <1>3, <1>4
    <2>2. QED
      BY <2>1, <1>2, <1>3, UndamagedIfAccepted
  <1>5. QED
    BY <1>2, <1>4 DEF o

LEMMA InvReadsExactly ==
    ASSUME ContainerInv, damage.times <= 2
    PROVE  M!ReadsExactlyTheFile
  <1> DEFINE isCurrent == M!CurrentError(disk) = "Ok"
             isManifest == M!ManifestError(disk) = "Ok"
  <1>1. damage.times \in 0 .. 2 /\ damage.times \in Nat /\ damage.rehashed \in BOOLEAN
    <2>1. damage.times \in 0 .. MaxDamage /\ damage.rehashed \in BOOLEAN
      BY DEF ContainerInv
    <2>2. QED
      BY <2>1, FilesAssumption, SMT
  <1>2. CASE written = M!NoFile
    <2>1. disk = <<>> /\ written.kind = "none"
      BY <1>2 DEF ContainerInv, FileOf, M!NoFile
    <2>2. ~ isCurrent /\ ~ isManifest
      BY <2>1, EmptyRefused
    <2>3. QED
      BY <2>1, <2>2 DEF M!ReadsExactlyTheFile
  <1>3. CASE written \in [kind : {"current"}, record : CurrentRecord]
    <2> DEFINE c == written.record
               o == M!EncodeCurrent(c)
    <2>1. written.kind = "current" /\ c \in CurrentRecord
      BY <1>3
    <2>2. FileOf(written) = o /\ written # M!NoFile
      BY <2>1 DEF FileOf, M!NoFile
    <2>3. Derived(disk, o, damage.times, damage.rehashed) /\ (damage.times = 0 => disk = o)
      BY <2>2 DEF ContainerInv
    <2>4. Original(o) /\ M!CurrentError(o) = "Ok" /\ M!DecodeCurrent(o) = c
      BY <2>1, CurrentOriginal, CurrentEncoded
    <2>5. ~ isManifest
      BY <1>1, <2>1, <2>3, CurrentIsNoManifest
    <2> HIDE DEF o
    <2>6. isCurrent => M!EncodeCurrent(M!DecodeCurrent(disk)) = disk
                       /\ (~ damage.rehashed => disk = o)
      BY <1>1, <2>3, <2>4, CurrentRead
    <2>7. damage.times = 0 => isCurrent /\ M!DecodeCurrent(disk) = c
      BY <2>3, <2>4
    <2>8. QED
      BY <2>1, <2>5, <2>6, <2>7 DEF M!ReadsExactlyTheFile, o
  <1>4. CASE written \in [kind : {"manifest"}, record : Stored]
    <2> DEFINE r == written.record
               o == M!EncodeManifest(r)
    <2>1. written.kind = "manifest" /\ r \in Stored
      BY <1>4
    <2>2. FileOf(written) = o /\ written # M!NoFile
      BY <2>1 DEF FileOf, M!NoFile
    <2>3. Derived(disk, o, damage.times, damage.rehashed) /\ (damage.times = 0 => disk = o)
      BY <2>2 DEF ContainerInv
    <2>4. Original(o) /\ M!ManifestError(o) = "Ok" /\ M!CurrentError(o) # "Ok"
          /\ M!DecodeManifest(o) = r
      BY <2>1, ManifestOriginal, ManifestEncoded
    <2>5. isManifest => M!EncodeManifest(M!DecodeManifest(disk)) = disk
                        /\ (~ damage.rehashed => disk = o)
      BY <1>1, <2>1, <2>3, ManifestRead
    <2> HIDE DEF o
    <2>6. isCurrent => M!EncodeCurrent(M!DecodeCurrent(disk)) = disk
                       /\ (~ damage.rehashed => disk = o)
      BY <1>1, <2>3, <2>4, CurrentRead
    <2>7. isCurrent => damage.rehashed /\ damage.times # 0
      BY <2>3, <2>4, <2>6
    <2>8. damage.times = 0 => isManifest /\ M!DecodeManifest(disk) = r
      BY <2>3, <2>4
    <2>9. QED
      BY <2>1, <2>5, <2>6, <2>7, <2>8 DEF M!ReadsExactlyTheFile, o
  <1>5. QED
    BY <1>2, <1>3, <1>4 DEF ContainerInv, WrittenFiles

\* validate accepts what partitions the rows below the total into segments, and
\* nothing else, whatever is listed: its loop compares neighbours only
\* (manifest.rs, Manifest::validate).
THEOREM AcceptsOnlyPartitions == FilesSpec => []AcceptsPartitions
  <1>1. FilesInv => AcceptsPartitions
    BY ListedAccepted DEF FilesInv, ListedInv, AcceptsPartitions
  <1>2. QED
    BY <1>1, FilesAlwaysInv, PTL

\* What the readers of CURRENT and of manifests accept is all of the file, and
\* what was written unless the hash was made to fit (container.rs, manifest.rs).
\* Two damages are the most for which the words of a file say what it is: from
\* the third on the checksum of a CURRENT may come to lie where a manifest has a
\* number, and which number its bytes are is left out of Container.
THEOREM ReadsAllOfTheFile ==
    ASSUME MaxDamage <= 2
    PROVE  FilesSpec => []ReadsExactlyTheFile
  <1>1. FilesInv => ReadsExactlyTheFile
    <2>1. SUFFICES ASSUME FilesInv PROVE M!ReadsExactlyTheFile
      BY DEF ReadsExactlyTheFile
    <2>2. ContainerInv
      BY <2>1 DEF FilesInv
    <2>3. damage.times \in 0 .. MaxDamage
      BY <2>2 DEF ContainerInv
    <2>4. damage.times <= 2
      BY <2>3, FilesAssumption, SMT
    <2>5. QED
      BY <2>2, <2>4, InvReadsExactly
  <1>2. QED
    BY <1>1, FilesAlwaysInv, PTL
=============================================================================
