---------------------------- MODULE ManifestFile ----------------------------
(***************************************************************************)
(* A manifest as commit makes it: its entries are listed in memory, validate *)
(* judges them, and what it accepts is written, damaged and read back.       *)
(* Manifests that commit would not make are listed too, since open gives     *)
(* validate whatever it decodes.  A CURRENT is written and read alike.       *)
(***************************************************************************)
EXTENDS Container, FiniteSets

CONSTANTS
    EntryIds, EntryFirsts, EntryCounts,  \* the fields of the entries listed
    Totals,                              \* the row totals given
    Generations                          \* what a CURRENT may name

VARIABLE m        \* the manifest in memory

Entries == [id : EntryIds, first : EntryFirsts, count : EntryCounts]

Empty == [generation |-> 1, previous |-> NoHash, model |-> 1, total |-> 0,
          segments |-> <<>>]

Init == m \in {Empty, [Empty EXCEPT !.generation = 0]} /\ ContainerInit

List ==
    /\ Len(m.segments) <= MaxSegments /\ written = NoFile
    /\ \E s \in Entries, t \in Totals :
          m' = [m EXCEPT !.segments = Append(@, s), !.total = t]
    /\ UNCHANGED containerVars

Discard ==
    /\ written = NoFile /\ m' = [m EXCEPT !.segments = <<>>, !.total = 0]
    /\ UNCHANGED containerVars

Currents == [generation : Generations, manifest : {1}]

Store == ContainerNext({m}, IF m = Empty THEN Currents ELSE {}) /\ UNCHANGED m

Next == List \/ Discard \/ Store

\* The entries of segments that hold a row.
HoldersOf(row) ==
    {i \in DOMAIN m.segments :
        row \in m.segments[i].first .. End(m.segments[i]) - 1}

\* validate accepts a manifest exactly when its segments, listed in row order
\* and each with files of its own, hold every row below the total once and no
\* other row, within the limits.  Its loop only ever compares neighbours.
AcceptsPartitions ==
    LET entries == DOMAIN m.segments IN
    Valid(m, m.generation) <=>
        /\ m.generation > 0 /\ m.total <= MaxRows
        /\ Cardinality(entries) \in 1 .. MaxSegments
        /\ Cardinality({m.segments[i].id : i \in entries}) = Cardinality(entries)
        /\ \A i \in entries : m.segments[i].count \in 1 .. MaxSegmentRows
        /\ \A i, j \in entries : i < j => m.segments[i].first < m.segments[j].first
        /\ \A row \in 0 .. U64Max + MaxSegmentRows :
              Cardinality(HoldersOf(row)) = IF row < m.total THEN 1 ELSE 0
=============================================================================
