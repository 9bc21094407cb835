------------------------------ MODULE Manifest ------------------------------
(***************************************************************************)
(* The committed manifest (crates/spherra/src/manifest.rs): the list of    *)
(* immutable segments that makes up one generation, and the rules a        *)
(* generation must satisfy before it is published or read.                 *)
(*                                                                         *)
(* A manifest file is named by the hash of its bytes.  A hash is a number  *)
(* here; NoHash stands for the all-zero hash that ends the chain of        *)
(* predecessors.  Segment ids are numbers too.  Lengths, hashes and codec  *)
(* identities inside an entry only tie it to its files, so an entry keeps  *)
(* the id that names them.                                                 *)
(***************************************************************************)
EXTENDS Integers, Sequences

CONSTANTS MaxSegmentRows,  \* rows one segment may hold (65536)
          MaxSegments,     \* segments one manifest may list (4096)
          MaxRows,         \* row ordinals are below this (2^48 - 1)
          U64Max           \* largest value of the integer type of a row number

ASSUME ManifestLimits ==
    /\ MaxSegmentRows \in Nat \ {0}
    /\ MaxSegments \in Nat \ {0}
    /\ MaxRows \in Nat \ {0}
    /\ U64Max \in Nat

NoHash == 0

SegmentEntry == [id : Nat, first : Nat, count : Nat]

ManifestRecord == [generation : Nat, previous : Nat, model : Nat,
                   total : Nat, segments : Seq(SegmentEntry)]

(***************************************************************************)
(* Manifest::validate.  The loop checks the entries in order and stops at  *)
(* the first bad one, so the row the next entry must start at is the end   *)
(* of the one before it.                                                   *)
(***************************************************************************)
End(s) == s.first + s.count

\* Seeded fault: the next entry may start at the last row of the one before it.
NextRowInclusive(segments, i) == IF i = 1 THEN 0 ELSE End(segments[i - 1]) - 1

NextRow(segments, i) == IF i = 1 THEN 0 ELSE End(segments[i - 1])

EntryError(segments, i) ==
    LET s == segments[i] IN
    CASE \E j \in 1 .. i - 1 : segments[j].id = s.id -> "DuplicateSegment"
      [] s.count = 0 \/ s.count > MaxSegmentRows     -> "RowCount"
      [] End(s) > U64Max                             -> "RowOverflow"
      [] i = 1 /\ s.first # 0                        -> "FirstRow"
      [] s.first < NextRow(segments, i)              -> "Overlap"
      [] s.first > NextRow(segments, i)              -> "Gap"
      [] OTHER                                       -> "Ok"

ValidateSegments(segments, total) ==
    LET bad == {i \in DOMAIN segments : EntryError(segments, i) # "Ok"}
    IN  IF bad # {}
        THEN EntryError(segments, CHOOSE i \in bad : \A j \in bad : i <= j)
        ELSE IF NextRow(segments, Len(segments) + 1) # total
             THEN "RowSum"
             ELSE "Ok"

Validate(m, currentGeneration) ==
    IF m.generation = 0 \/ m.generation # currentGeneration THEN "Generation"
    ELSE IF Len(m.segments) = 0 \/ Len(m.segments) > MaxSegments
         THEN "SegmentCount"
    ELSE IF m.total > MaxRows THEN "TotalRows"
    ELSE ValidateSegments(m.segments, m.total)

Valid(m, currentGeneration) == Validate(m, currentGeneration) = "Ok"
=============================================================================
