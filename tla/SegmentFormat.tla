--------------------------- MODULE SegmentFormat ---------------------------
(***************************************************************************)
(* A segment file (crates/spherra-format): a header, a directory of        *)
(* sections, the data sections and one CRC table for each of them.  This   *)
(* module has the format's tables (section.rs) and what the encoder lays   *)
(* out (writer.rs).                                                        *)
(*                                                                         *)
(* A file is its length, the header's fields, the entries the directory's  *)
(* bytes decode to, and whether the checksums written in it are those of   *)
(* its bytes.  v1 stands for the magic, the versions and the header fields *)
(* that have one legal value; identity for the ids of codec, scorer,       *)
(* transform, quantizer, codebook and layout; the kind "Unknown" for an    *)
(* entry that does not decode.  Offsets and lengths are those of the code; *)
(* a file's length, which the system tells, fits a field.                  *)
(***************************************************************************)
EXTENDS Integers, Sequences, FiniteSets

CONSTANT U64Max     \* largest offset or length a field can hold

ASSUME U64Assumption == U64Max \in Nat

HeaderLen == 240
EntryLen == 72
MaxSections == 64
SectionAlignment == 64
BlockSize == 4096
NoCrcTable == 65535
TileRows == 32
TileBytes == 768 * 16

\* The powers of two up to MAX_SECTION_ALIGNMENT.
Alignments == {1, 2, 4, 8, 16, 32, 64, 128, 256, 512, 1024, 2048, 4096}

FileKinds == {"Primary", "Residual"}

DataSections(fileKind) ==
    IF fileKind = "Primary"
    THEN <<"IdsSequences", "RadiusFlags", "PrimaryDirectInt4",
           "Int4QuantizerTable", "PrimaryCertificate", "RefinedCertificate">>
    ELSE <<"Pq96Residual", "PqCodebook">>

Required(fileKind) ==
    {DataSections(fileKind)[i] : i \in DOMAIN DataSections(fileKind)}

DataKinds == Required("Primary") \cup Required("Residual")
SectionKinds == DataKinds \cup {"CrcTable"}

CeilDiv(a, b) == (a + b - 1) \div b

RowBytes == [IdsSequences |-> 40, RadiusFlags |-> 4, Pq96Residual |-> 96]

TableBytes == [Int4QuantizerTable |-> 768 * 16 * 4,
               PqCodebook |-> 96 * 256 * 8 * 4,
               PrimaryCertificate |-> 40,
               RefinedCertificate |-> 40]

IsRowAddressed(kind) == kind \in DOMAIN RowBytes \cup {"PrimaryDirectInt4"}

\* expected_len of a data section.  A row count of 32 bits overflows none.
ExpectedLen(kind, rows) ==
    IF kind \in DOMAIN RowBytes THEN rows * RowBytes[kind]
    ELSE IF kind = "PrimaryDirectInt4" THEN CeilDiv(rows, TileRows) * TileBytes
    ELSE TableBytes[kind]

SectionEntry ==
    [kind : SectionKinds \cup {"Unknown"}, alignment : Nat, offset : Nat,
     length : Nat, rows : Nat, block : Nat, crc : Nat]

SegmentFile ==
    [len : 0 .. U64Max, v1 : BOOLEAN, kind : FileKinds, identity : STRING,
     rows : Nat, payload : Nat, directory : Nat, entries : Seq(SectionEntry),
     staleBlocks : SUBSET Nat,      \* sections with a block its CRC denies
     staleSections : SUBSET Nat,    \* sections their own hash denies
     sealed : BOOLEAN]              \* the hash of the whole file is right

End(e) == e.offset + e.length

BlockCount(e) == CeilDiv(e.length, e.block)

-----------------------------------------------------------------------------
(* encode_segment: the data sections in order, then their CRC tables. *)

AlignUp(n) == CeilDiv(n, SectionAlignment) * SectionAlignment

\* Seeded fault: the last, partial block gets no checksum.
WholeBlocksOnly(length) == 4 * (length \div BlockSize)

\* Length of the table that holds one CRC for each block.
CrcTableLen(length) == 4 * CeilDiv(length, BlockSize)

Encode(fileKind, rows, identity) ==
    LET kinds == DataSections(fileKind)
        n == Len(kinds)
        length(i) == IF i <= n THEN ExpectedLen(kinds[i], rows)
                     ELSE CrcTableLen(ExpectedLen(kinds[i - n], rows))
        offset[i \in 1 .. 2 * n] ==
            AlignUp(IF i = 1 THEN HeaderLen + 2 * n * EntryLen
                    ELSE offset[i - 1] + length(i - 1))
        data(i) == [kind |-> kinds[i], alignment |-> SectionAlignment,
                    offset |-> offset[i], length |-> length(i),
                    rows |-> IF IsRowAddressed(kinds[i]) THEN rows ELSE 0,
                    block |-> BlockSize, crc |-> n + i - 1]
        table(i) == [kind |-> "CrcTable", alignment |-> SectionAlignment,
                     offset |-> offset[i], length |-> length(i),
                     rows |-> 0, block |-> 0, crc |-> NoCrcTable]
        total == offset[2 * n] + length(2 * n)
    IN  [len |-> total, v1 |-> TRUE, kind |-> fileKind,
         identity |-> identity, rows |-> rows,
         payload |-> total - HeaderLen, directory |-> HeaderLen,
         entries |-> [i \in 1 .. 2 * n |-> IF i <= n THEN data(i) ELSE table(i)],
         staleBlocks |-> {}, staleSections |-> {}, sealed |-> TRUE]
=============================================================================
