--------------------------- MODULE SegmentReader ---------------------------
(***************************************************************************)
(* The checked reader of a segment file (crates/spherra-format/src/        *)
(* reader.rs).  SegmentReaderCore::open goes through the file in phases    *)
(* and stops at the first rule that is broken; only a file that passed all *)
(* of them can be read.  A file does not change while a reader has it      *)
(* open; what became of it before, by damage or by another program's       *)
(* writer, is a number of rewrites.                                        *)
(***************************************************************************)
EXTENDS SegmentFormat

CONSTANTS Originals,        \* files as a writer left them
          Rewrites(_),      \* what one rewrite may make of a file
          MaxRewrites,      \* bound on the rewrites
          ExpectedIdentity, \* the representation the caller holds
          Probes            \* rows, tiles and counts callers ask for

ASSUME ReaderAssumption ==
    /\ Originals \subseteq SegmentFile
    /\ MaxRewrites \in Nat
    /\ Probes \subseteq Nat

VARIABLES file,     \* the file
          rewrites, \* rewrites it went through
          asked,    \* the kind of file it is opened as, once it is
          pc,       \* the phase of open, then "open" or "refused"
          index,    \* the entry the loop of check_sections is at, from 1
          owners,   \* owners[i]: data sections that name entry i their table
          error,    \* why the file was refused
          read       \* the last positional read of an accessor

vars == <<file, rewrites, asked, pc, index, owners, error, read>>

Phases == {"header", "directory", "set", "entries", "owners", "blocks",
           "identities", "seal", "open", "refused"}

NoRead == [kind |-> "none", from |-> 0, to |-> 0]

Init ==
    /\ file \in Originals
    /\ rewrites = 0 /\ asked = "none"
    /\ pc = "header" /\ index = 1 /\ owners = <<>>
    /\ error = "Ok"
    /\ read = NoRead

Rewrite ==
    /\ pc = "header"
    /\ rewrites < MaxRewrites /\ rewrites' = rewrites + 1
    /\ file' \in Rewrites(file) \cap SegmentFile
    /\ UNCHANGED <<asked, pc, index, owners, error, read>>

-----------------------------------------------------------------------------
(* The rules of each phase, in the order they are checked. *)

DecodeError(f) ==
    IF ~ f.v1 THEN "NotV1" ELSE IF f.rows = 0 THEN "EmptySegment" ELSE "Ok"

MeetsExpectations(f) == f.identity = ExpectedIdentity

HeaderError(f, kind) ==
    IF f.len < HeaderLen THEN "ShortFile"
    ELSE IF DecodeError(f) # "Ok" THEN DecodeError(f)
    ELSE IF f.kind # kind THEN "UnexpectedFileKind"
    ELSE IF ~ MeetsExpectations(f) THEN "IdentityMismatch"
    ELSE IF HeaderLen + f.payload > U64Max THEN "LengthOverflow"
    ELSE IF HeaderLen + f.payload # f.len THEN "PayloadLengthMismatch"
    ELSE "Ok"

DirectoryEnd(f) == f.directory + Len(f.entries) * EntryLen

DirectoryError(f) ==
    IF f.entries = <<>> \/ Len(f.entries) > MaxSections
    THEN "SectionCountOutOfRange"
    ELSE IF DirectoryEnd(f) > U64Max THEN "LengthOverflow"
    ELSE IF f.directory < HeaderLen \/ DirectoryEnd(f) > f.len
    THEN "DirectoryOutOfFile"
    ELSE IF \E i \in DOMAIN f.entries : f.entries[i].kind = "Unknown"
    THEN "UnknownSection"
    ELSE "Ok"

IsTable(f, i) == f.entries[i].kind = "CrcTable"

Forbidden(f, i) == ~ IsTable(f, i) /\ f.entries[i].kind \notin Required(f.kind)

Repeated(f, i) ==
    /\ ~ IsTable(f, i)
    /\ \E j \in 1 .. i - 1 : f.entries[j].kind = f.entries[i].kind

SetError(f) ==
    LET bad == {i \in DOMAIN f.entries : Forbidden(f, i) \/ Repeated(f, i)}
        first == CHOOSE i \in bad : \A j \in bad : i <= j
    IN  IF bad # {}
        THEN IF Forbidden(f, first) THEN "ForbiddenSection"
             ELSE "DuplicateSection"
        ELSE IF \E k \in Required(f.kind) :
                    \A i \in DOMAIN f.entries : f.entries[i].kind # k
        THEN "MissingSection"
        ELSE "Ok"

\* check_crc_pairing
PairingError(f, e) ==
    IF e.kind = "CrcTable"
    THEN IF e.crc # NoCrcTable \/ e.block # 0
         THEN "InvalidCrcTableReference" ELSE "Ok"
    ELSE IF e.crc = NoCrcTable THEN "MissingCrcTable"
    ELSE IF e.crc >= Len(f.entries) THEN "InvalidCrcTableReference"
    ELSE IF ~ IsTable(f, e.crc + 1) THEN "InvalidCrcTableReference"
    ELSE IF e.block # BlockSize THEN "InvalidBlockSize"
    ELSE IF f.entries[e.crc + 1].length # 4 * BlockCount(e)
    THEN "SectionLengthMismatch"
    ELSE "Ok"

\* Seeded fault: a section may not end where the file ends.
EndsBeforeEnd(f, e) == DirectoryEnd(f) <= e.offset /\ End(e) < f.len

InFile(f, e) == DirectoryEnd(f) <= e.offset /\ End(e) <= f.len

Follows(f, i) == i = 1 \/ f.entries[i].offset >= End(f.entries[i - 1])

RowsOf(f, e) == IF IsRowAddressed(e.kind) THEN f.rows ELSE 0

\* One turn of the loop in check_sections.
EntryError(f, i) ==
    LET e == f.entries[i] IN
    IF e.alignment \notin Alignments THEN "InvalidAlignment"
    ELSE IF e.offset % e.alignment # 0 THEN "MisalignedSection"
    ELSE IF End(e) > U64Max THEN "LengthOverflow"
    ELSE IF ~ InFile(f, e) THEN "SectionOutsideFile"
    ELSE IF i > 1 /\ e.offset < f.entries[i - 1].offset
    THEN "NonMonotonicDirectory"
    ELSE IF ~ Follows(f, i) THEN "OverlappingSections"
    ELSE IF e.rows # RowsOf(f, e) THEN "SectionRowCountMismatch"
    ELSE IF e.kind \in DataKinds /\ e.length # ExpectedLen(e.kind, f.rows)
    THEN "SectionLengthMismatch"
    ELSE PairingError(f, e)

NoOwners(f) == [i \in DOMAIN f.entries |-> 0]

\* Seeded fault: a table needs an owner, but may have two.
SharedOwners(f, counts) ==
    IF \E i \in DOMAIN f.entries : IsTable(f, i) /\ counts[i] = 0
    THEN "CrcTableAliased" ELSE "Ok"

OwnersError(f, counts) ==
    IF \E i \in DOMAIN f.entries : IsTable(f, i) /\ counts[i] # 1
    THEN "CrcTableAliased" ELSE "Ok"

BlocksError(f) ==
    IF \E i \in DOMAIN f.entries : ~ IsTable(f, i) /\ i \in f.staleBlocks
    THEN "BlockChecksumMismatch" ELSE "Ok"

IdentitiesError(f) ==
    IF DOMAIN f.entries \cap f.staleSections # {}
    THEN "SectionIdentityMismatch" ELSE "Ok"

SealError(f) == IF f.sealed THEN "Ok" ELSE "FileIdentityMismatch"

-----------------------------------------------------------------------------
(* open *)

\* Leave the phase: for the next one, or for good.
Check(phase, result, next) ==
    /\ pc = phase
    /\ pc' = IF result = "Ok" THEN next ELSE "refused"
    /\ error' = result
    /\ UNCHANGED <<file, rewrites, read>>

OpenAs(kind) ==
    /\ asked' = kind
    /\ Check("header", HeaderError(file, kind), "directory")
    /\ UNCHANGED <<index, owners>>

ReadDirectory ==
    /\ Check("directory", DirectoryError(file), "set")
    /\ UNCHANGED <<asked, index, owners>>

CheckSet ==
    /\ Check("set", SetError(file), "entries")
    /\ owners' = NoOwners(file)
    /\ UNCHANGED <<asked, index>>

CheckEntry ==
    LET e == file.entries[index]
        ok == EntryError(file, index) = "Ok"
    IN  /\ Check("entries", EntryError(file, index),
                 IF index = Len(file.entries) THEN "owners" ELSE "entries")
        /\ index' = IF ok THEN index + 1 ELSE index
        /\ owners' = IF ok /\ e.kind # "CrcTable"
                     THEN [owners EXCEPT ![e.crc + 1] = @ + 1] ELSE owners
        /\ UNCHANGED asked

CheckOwners ==
    /\ Check("owners", OwnersError(file, owners), "blocks")
    /\ UNCHANGED <<asked, index, owners>>

CheckBlocks ==
    /\ Check("blocks", BlocksError(file), "identities")
    /\ UNCHANGED <<asked, index, owners>>

CheckIdentities ==
    /\ Check("identities", IdentitiesError(file), "seal")
    /\ UNCHANGED <<asked, index, owners>>

CheckSeal ==
    /\ Check("seal", SealError(file), "open")
    /\ UNCHANGED <<asked, index, owners>>

-----------------------------------------------------------------------------
(* The accessors of an open reader; a call with a bad argument reads nothing. *)

\* The first entry of that kind.
Section(f, kind) ==
    f.entries[CHOOSE i \in DOMAIN f.entries :
                  /\ f.entries[i].kind = kind
                  /\ \A j \in 1 .. i - 1 : f.entries[j].kind # kind]

Read(kind, at, length) ==
    /\ kind \in Required(file.kind)
    /\ LET from == Section(file, kind).offset + at
       IN  read' = [kind |-> kind, from |-> from, to |-> from + length]
    /\ UNCHANGED <<file, rewrites, asked, pc, index, owners, error>>

ReadRow(kind, row) ==
    /\ row < file.rows
    /\ kind \in DOMAIN RowBytes
    /\ Read(kind, row * RowBytes[kind], RowBytes[kind])

RadiusFlagsRange(first, count) ==
    /\ count \in 1 .. 4096
    /\ first < file.rows /\ first + count - 1 < file.rows
    /\ Read("RadiusFlags", first * 4, count * 4)

\* Seeded fault: a full last tile counts as two.
TileCountPlusOne(rows) == rows \div TileRows + 1

TileCount(rows) == CeilDiv(rows, TileRows)

PrimaryTile(tile) ==
    /\ tile < TileCount(file.rows)
    /\ Read("PrimaryDirectInt4", tile * TileBytes, TileBytes)

\* A code is cut out of its row's tile.
PrimaryCode(row) == row < file.rows /\ PrimaryTile(row \div TileRows)

\* read_section: the quantizer table, the codebook and the certificates.
ReadTable(kind) ==
    kind \in DOMAIN TableBytes /\ Read(kind, 0, Section(file, kind).length)

-----------------------------------------------------------------------------
Open ==
    \/ \E kind \in FileKinds : OpenAs(kind)
    \/ ReadDirectory \/ CheckSet \/ CheckEntry \/ CheckOwners
    \/ CheckBlocks \/ CheckIdentities \/ CheckSeal

\* Only open returns a reader to call.
Access ==
    /\ pc = "open"
    /\ \/ \E kind \in DOMAIN RowBytes, row \in Probes : ReadRow(kind, row)
       \/ \E first, count \in Probes : RadiusFlagsRange(first, count)
       \/ \E tile \in Probes : PrimaryTile(tile)
       \/ \E row \in Probes : PrimaryCode(row)
       \/ \E kind \in DOMAIN TableBytes : ReadTable(kind)

\* A refused file is not opened again.
Refused == pc = "refused" /\ UNCHANGED vars

Next == Rewrite \/ Open \/ Access \/ Refused

Spec == Init /\ [][Next]_vars

-----------------------------------------------------------------------------
(* Properties. *)

\* Every variable keeps its type, and the loop over the entries has a counter
\* for each of them.
TypeOK ==
    /\ file \in SegmentFile /\ asked \in FileKinds \cup {"none"}
    /\ pc \in Phases
    /\ rewrites \in 0 .. MaxRewrites
    /\ index \in 1 .. Len(file.entries) + 1
    /\ owners \in Seq(Nat)
    /\ pc \in {"entries", "owners"} => DOMAIN owners = DOMAIN file.entries
    /\ read \in [kind : DataKinds \cup {"none"}, from : Nat, to : Nat]

\* What a directory is for, said without an order of checks: sections that
\* share no byte with each other, the header or the directory, one for each
\* kind the file needs and of the length its rows need, and a checksum table
\* for each that is no other section's.
WellFormed(f) ==
    LET entries == DOMAIN f.entries
        data == {i \in entries : ~ IsTable(f, i)}
        table(i) == f.entries[i].crc + 1
    IN  /\ {f.entries[i].kind : i \in data} = Required(f.kind)
        /\ {table(i) : i \in data} = entries \ data
        /\ \A i, j \in data : i # j => /\ f.entries[i].kind # f.entries[j].kind
                                       /\ table(i) # table(j)
        /\ \A i \in data :
              LET e == f.entries[i] IN
              /\ e.length = ExpectedLen(e.kind, f.rows)
              /\ e.block = BlockSize
              /\ f.entries[table(i)].length = CrcTableLen(e.length)
        /\ \A i \in entries \ data :
              f.entries[i].block = 0 /\ f.entries[i].crc = NoCrcTable
        /\ \A i \in entries :
              LET e == f.entries[i] IN
              /\ e.alignment \in Alignments /\ e.offset % e.alignment = 0
              /\ e.rows = RowsOf(f, e)
              /\ HeaderLen <= f.directory
              /\ DirectoryEnd(f) <= e.offset /\ End(e) <= f.len
        /\ \A i, j \in entries :
              i < j => End(f.entries[i]) <= f.entries[j].offset

\* A file that opens is well formed, though open compares each entry only with
\* the one before it and counts the owners of a table in passing.
OpenedWellFormed == pc = "open" => WellFormed(file)

\* No file is refused for nothing: one that is well formed, undamaged and of
\* the expected kind and representation never is.
RefusalsJustified ==
    pc = "refused" =>
        ~ /\ file.v1 /\ file.rows > 0 /\ file.kind = asked
          /\ file.identity = ExpectedIdentity
          /\ file.len = HeaderLen + file.payload
          /\ file.entries # <<>> /\ Len(file.entries) <= MaxSections
          /\ WellFormed(file)
          /\ file.staleBlocks = {} /\ file.staleSections = {} /\ file.sealed

\* What the encoder writes, the reader opens: for every count of rows, with
\* its partial tiles and partial blocks.
WrittenOpens ==
    pc = "refused" =>
        ~ (file.rows > 0 /\ file = Encode(asked, file.rows, ExpectedIdentity))

\* Every read of an accessor stays within the bytes of the section it reads,
\* whatever lengths and offsets the file declares.
ReadsInside ==
    read # NoRead =>
        \E i \in DOMAIN file.entries :
            LET e == file.entries[i] IN
            /\ e.kind = read.kind
            /\ e.offset <= read.from /\ read.from < read.to /\ read.to <= End(e)
            /\ End(e) <= file.len
=============================================================================
