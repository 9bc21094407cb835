----------------------------- MODULE TileKernel -----------------------------
(***************************************************************************)
(* Integer scores (crates/spherra-codec): a query becomes lookup tables    *)
(* (FixedPointScorer::prepare_query), a segment's rows are interleaved in  *)
(* tiles of 32 (writer.rs, tiled_soa.rs), score_tile_primary adds up the   *)
(* entries of each lane of a tile, and refine_from_primary those of a      *)
(* row's residual code.  score_refined does both for one row, from its     *)
(* unpacked code, with additions that are checked.                         *)
(*                                                                         *)
(* The products of a query and the centers are given, in halves of a Q24   *)
(* unit, as quantize_lookup finds them before it rounds; error bounds and  *)
(* provenance are left out.  An i32 or i64 sum wraps, as it does in a      *)
(* release build, unless it is checked.                                    *)
(***************************************************************************)
EXTENDS Integers

CONSTANTS Dimension,        \* coordinates of a vector (768)
          Subquantizers,    \* residual codes of a row (96)
          I32Max, I64Max,
          LimitError,       \* what binary64 adds to the limit on a product
          Products,         \* the products of each query
          Segments          \* the codes of the rows of each segment

Coordinates == 0 .. Dimension - 1
Subs == 0 .. Subquantizers - 1
Codes == 0 .. 15
Bytes == 0 .. 255

ASSUME WidthAssumption ==
    /\ Dimension \in Nat \ {0} /\ Dimension % 2 = 0
    /\ Subquantizers \in Nat \ {0}
    /\ I32Max \in Nat /\ I64Max \in Nat /\ I32Max <= I64Max
    /\ LimitError \in Int

ASSUME ProductsAssumption ==
    Products \subseteq [primary : [Coordinates -> [Codes -> Int]],
                        residual : [Subs -> [Bytes -> Int]]]

\* A DirectCode: the even coordinate of a byte is in its low nibble.
DirectCode == [0 .. Dimension \div 2 - 1 -> Bytes]
Pq96Code == [Subs -> Bytes]

ASSUME SegmentsAssumption ==
    \A s \in Segments :
        /\ s.rows \in Nat \ {0}
        /\ s.codes \in [0 .. s.rows - 1 -> DirectCode]
        /\ s.residuals \in [0 .. s.rows - 1 -> Pq96Code]

VARIABLES query,    \* the prepared query
          segment,  \* the rows of the segment
          tiles,    \* the bytes of its tiles
          pc,       \* the loop that runs: "compact", "wide", "checked", ...
          ordinal,  \* the tile the scan has reached
          row,      \* the row of a segment, or the lane of a tile, being added up
          at,       \* the coordinate, or the residual code, to add next
          half,     \* the half of the tile score_full_tile is in
          sums,     \* the sum of each lane
          sum,      \* the checked sum
          scores,   \* the primary scores of the rows scanned
          refined   \* the last refined score, and its row

vars == <<query, segment, tiles, pc, ordinal, row, at, half, sums, sum,
          scores, refined>>

Abs(n) == IF n < 0 THEN - n ELSE n

\* What a two's complement register of largest value max holds of n, the
\* sum of two values that fit it.
Wrap(n, max) == IF n > max THEN n - 2 * max - 2
                ELSE IF n < - max - 1 THEN n + 2 * max + 2
                ELSE n

Fits(n, max) == - max - 1 <= n /\ n <= max

-----------------------------------------------------------------------------
(* Codes and tiles. *)

Lanes == 0 .. 31
TileIndexes == 0 .. 16 * Dimension - 1

NibbleAt(code, c) == IF c % 2 = 0 THEN code[c \div 2] % 16 ELSE code[c \div 2] \div 16

TileCount(s) == (s.rows + 31) \div 32
LaneCount(s, t) == IF s.rows - 32 * t < 32 THEN s.rows - 32 * t ELSE 32

\* The nibble row n has for coordinate c; the last tile is padded with zeros.
Stored(s, n, c) == IF n < s.rows THEN NibbleAt(s.codes[n], c) ELSE 0

\* Byte i is of coordinate i \div 16 and of two neighbouring lanes.
EncodeTile(s, t) ==
    [i \in TileIndexes |->
        Stored(s, 32 * t + 2 * (i % 16), i \div 16)
            + 16 * Stored(s, 32 * t + 2 * (i % 16) + 1, i \div 16)]

Encode(s) == [t \in 0 .. TileCount(s) - 1 |-> EncodeTile(s, t)]

TileNibble(tile, c, lane) ==
    IF lane % 2 = 0 THEN tile[c * 16 + lane \div 2] % 16
                    ELSE tile[c * 16 + lane \div 2] \div 16

DecodeLane(tile, lane) ==
    [b \in 0 .. Dimension \div 2 - 1 |->
        TileNibble(tile, 2 * b, lane) + 16 * TileNibble(tile, 2 * b + 1, lane)]

-----------------------------------------------------------------------------
(* Lookup tables. *)

\* Seeded fault: the residual terms are not counted.
EntryMaxPrimary == I64Max \div Dimension

\* So small that as many entries as a refined score adds fit in an i64.
EntryMax == I64Max \div (Dimension + Subquantizers)

\* EntryMax - 0.5, in halves of a unit, as binary64 represents it.  With 768
\* and 96 terms it is rounded up to EntryMax.
Limit == 2 * EntryMax - 1 + LimitError

\* Half a unit is rounded away from zero.
Rounded(p) == IF p < 0 THEN - ((1 - p) \div 2) ELSE (p + 1) \div 2

Admits(p) == Abs(p) <= Limit /\ Abs(Rounded(p)) <= EntryMax

AllAdmitted(products) ==
    /\ \A c \in Coordinates, k \in Codes : Admits(products.primary[c][k])
    /\ \A s \in Subs, k \in Bytes : Admits(products.residual[s][k])

PrimaryLookup(products) ==
    [c \in Coordinates |-> [k \in Codes |-> Rounded(products.primary[c][k])]]
ResidualLookup(products) ==
    [s \in Subs |-> [k \in Bytes |-> Rounded(products.residual[s][k])]]

IsMaximum(m, lookup) ==
    /\ \A c \in Coordinates, k \in Codes : Abs(lookup[c][k]) <= m
    /\ \E c \in Coordinates, k \in Codes : Abs(lookup[c][k]) = m

NoLookup == <<>>

\* Seeded fault: the entries fit in the i32, their sums need not.
CompactEntries(lookup, m) ==
    IF m > I32Max THEN NoLookup
    ELSE [c \in Coordinates |-> [k \in Codes |-> Wrap(lookup[c][k], I32Max)]]

\* The table of i32 entries, if no sum of a row can leave the i32.
CompactLookup(lookup, m) ==
    IF m * Dimension > I32Max THEN NoLookup
    ELSE [c \in Coordinates |-> [k \in Codes |-> Wrap(lookup[c][k], I32Max)]]

NoQuery == [maximum |-> -1]

-----------------------------------------------------------------------------
ZeroSums == [l \in Lanes |-> 0]
NoScore == [row |-> -1, raw |-> 0]

Init ==
    /\ query = NoQuery
    /\ segment \in Segments
    /\ tiles = Encode(segment)
    /\ pc = "idle"
    /\ ordinal = 0 /\ row = 0 /\ at = 0 /\ half = 0
    /\ sums = ZeroSums /\ sum = 0
    /\ scores = [n \in {} |-> 0]
    /\ refined = NoScore

\* A query one of whose entries is out of range is refused.
PrepareQuery(products) ==
    /\ pc \in {"idle", "rejected"}
    /\ IF AllAdmitted(products)
       THEN LET lookup == PrimaryLookup(products) IN
            /\ \E m \in {Abs(lookup[c][k]) : c \in Coordinates, k \in Codes} :
                  /\ IsMaximum(m, lookup)
                  /\ query' = [primary |-> lookup,
                               residual |-> ResidualLookup(products),
                               maximum |-> m,
                               compact |-> CompactLookup(lookup, m)]
            /\ pc' = "ready"
       ELSE query' = query /\ pc' = "rejected"
    /\ UNCHANGED <<segment, tiles, ordinal, row, at, half, sums, sum, scores, refined>>

\* The path score_tile_primary takes for the next tile.
Path ==
    IF query.maximum * Dimension > I64Max THEN "checked"
    ELSE IF LaneCount(segment, ordinal) = 32 /\ query.compact # NoLookup
         THEN "compact"
    ELSE "wide"

BeginTile ==
    /\ pc = "ready"
    /\ ordinal < TileCount(segment)
    /\ pc' = Path
    /\ row' = 0 /\ at' = 0 /\ half' = 0
    /\ sums' = ZeroSums /\ sum' = 0
    /\ UNCHANGED <<query, segment, tiles, ordinal, scores, refined>>

\* score_full_tile: one coordinate of the sixteen lanes of a half.
AddCompact ==
    /\ pc = "compact" /\ at < Dimension
    /\ sums' = [l \in Lanes |->
                  IF l \div 16 = half
                  THEN Wrap(sums[l] + query.compact[at][TileNibble(tiles[ordinal], at, l)],
                            I32Max)
                  ELSE sums[l]]
    /\ IF at = Dimension - 1 /\ half = 0
       THEN at' = 0 /\ half' = 1
       ELSE at' = at + 1 /\ half' = half
    /\ UNCHANGED <<query, segment, tiles, pc, ordinal, row, sum, scores, refined>>

\* Seeded fault: the last of an odd number of lanes is left out.
WholePairs(lanes) == {l \in Lanes : l < 2 * (lanes \div 2)}

\* The pairs of lanes, and the last lane of an odd number of them.
WideLanes(lanes) ==
    {l \in Lanes : l < 2 * (lanes \div 2)}
        \cup (IF lanes % 2 = 1 THEN {lanes - 1} ELSE {})

AddWide ==
    /\ pc = "wide" /\ at < Dimension
    /\ sums' = [l \in Lanes |->
                  IF l \in WideLanes(LaneCount(segment, ordinal))
                  THEN Wrap(sums[l] + query.primary[at][TileNibble(tiles[ordinal], at, l)],
                            I64Max)
                  ELSE sums[l]]
    /\ at' = at + 1
    /\ UNCHANGED <<query, segment, tiles, pc, ordinal, row, half, sum, scores, refined>>

TileDone ==
    IF pc = "checked" THEN row = LaneCount(segment, ordinal)
                      ELSE pc \in {"compact", "wide"} /\ at = Dimension

\* checked_accumulate, whose panic ends the program.
Accumulate(value) ==
    IF Fits(sum + value, I64Max)
    THEN sum' = sum + value /\ at' = at + 1 /\ pc' = pc
    ELSE pc' = "panicked" /\ UNCHANGED <<sum, at>>

\* score_primary, of a lane of the tile or of a row.
AddChecked ==
    /\ pc \in {"checked", "scoring"} /\ at < Dimension /\ ~ TileDone
    /\ LET code == IF pc = "checked" THEN DecodeLane(tiles[ordinal], row)
                                     ELSE segment.codes[row]
       IN  Accumulate(query.primary[at][NibbleAt(code, at)])
    /\ UNCHANGED <<query, segment, tiles, ordinal, row, half, sums, scores, refined>>

\* The scalar path goes on with the next lane, score_refined with the
\* residual of the row.
EndPrimary ==
    /\ pc \in {"checked", "scoring"} /\ at = Dimension
    /\ IF pc = "checked"
       THEN /\ sums' = [sums EXCEPT ![row] = sum]
            /\ row' = row + 1 /\ sum' = 0
            /\ pc' = pc
       ELSE pc' = "refining" /\ UNCHANGED <<sums, row, sum>>
    /\ at' = 0
    /\ UNCHANGED <<query, segment, tiles, ordinal, half, scores, refined>>

\* Only the lanes in use are copied out.
EndTile ==
    /\ TileDone
    /\ scores' = [n \in 0 .. 32 * ordinal + LaneCount(segment, ordinal) - 1 |->
                    IF n < 32 * ordinal THEN scores[n] ELSE sums[n - 32 * ordinal]]
    /\ ordinal' = ordinal + 1
    /\ pc' = "ready"
    /\ UNCHANGED <<query, segment, tiles, row, at, half, sums, sum, refined>>

Scanned == pc = "ready" /\ ordinal = TileCount(segment)

\* Seeded fault: the residual is that of the row's lane in the first tile.
BeginRefineLane(n) ==
    /\ Scanned
    /\ row' = n % 32 /\ at' = 0 /\ sum' = scores[n]
    /\ refined' = NoScore
    /\ pc' = "refining"
    /\ UNCHANGED <<query, segment, tiles, ordinal, half, sums, scores>>

\* refine_from_primary, of a row whose primary score the scan has kept.
BeginRefine(n) ==
    /\ Scanned
    /\ row' = n /\ at' = 0 /\ sum' = scores[n]
    /\ refined' = NoScore
    /\ pc' = "refining"
    /\ UNCHANGED <<query, segment, tiles, ordinal, half, sums, scores>>

\* score_refined, of a row whose code is at hand.
BeginScore(n) ==
    /\ Scanned
    /\ row' = n /\ at' = 0 /\ sum' = 0
    /\ refined' = NoScore
    /\ pc' = "scoring"
    /\ UNCHANGED <<query, segment, tiles, ordinal, half, sums, scores>>

AddResidual ==
    /\ pc = "refining" /\ at < Subquantizers
    /\ Accumulate(query.residual[at][segment.residuals[row][at]])
    /\ UNCHANGED <<query, segment, tiles, ordinal, row, half, sums, scores, refined>>

EndRefine ==
    /\ pc = "refining" /\ at = Subquantizers
    /\ refined' = [row |-> row, raw |-> sum]
    /\ pc' = "ready"
    /\ UNCHANGED <<query, segment, tiles, ordinal, row, at, half, sums, sum, scores>>

Next ==
    \/ \E products \in Products : PrepareQuery(products)
    \/ BeginTile \/ AddCompact \/ AddWide \/ AddChecked \/ EndPrimary \/ EndTile
    \/ \E n \in 0 .. segment.rows - 1 : BeginRefine(n) \/ BeginScore(n)
    \/ AddResidual \/ EndRefine

Spec == Init /\ [][Next]_vars

-----------------------------------------------------------------------------
(* Correctness. *)

Words(max) == - max - 1 .. max
LookupTables(max) == [Coordinates -> [Codes -> Words(max)]]

QueryOK(q) ==
    /\ q.primary \in LookupTables(I64Max)
    /\ q.residual \in [Subs -> [Bytes -> Words(I64Max)]]
    /\ q.maximum \in 0 .. I64Max
    /\ q.compact = NoLookup \/ q.compact \in LookupTables(I32Max)

Prepared == pc \notin {"idle", "rejected"}

\* Every variable has its type: a byte of a tile holds two nibbles, a sum fits
\* its accumulator, and indexes stay inside the tables and the tile.
TypeOK ==
    /\ Prepared => QueryOK(query)
    /\ segment \in Segments
    /\ tiles \in [0 .. TileCount(segment) - 1 -> [TileIndexes -> Bytes]]
    /\ pc \in {"idle", "rejected", "ready", "compact", "wide", "checked",
               "scoring", "refining", "panicked"}
    /\ ordinal \in 0 .. TileCount(segment)
    /\ pc \in {"compact", "wide", "checked"} => ordinal < TileCount(segment)
    /\ row \in 0 .. segment.rows
    /\ pc \in {"scoring", "refining"} => row < segment.rows
    /\ at \in Nat /\ half \in {0, 1}
    /\ sums \in [Lanes -> Words(IF pc = "compact" THEN I32Max ELSE I64Max)]
    /\ sum \in Words(I64Max)
    /\ DOMAIN scores = {n \in 0 .. segment.rows - 1 : n < 32 * ordinal}
    /\ \A n \in DOMAIN scores : scores[n] \in Words(I64Max)
    /\ refined.row \in -1 .. segment.rows - 1
    /\ refined.raw \in Words(I64Max)

\* The sum of the first n + 1 values of f.
Total(f, n) ==
    LET upTo[i \in 0 .. n] == IF i = 0 THEN f[0] ELSE upTo[i - 1] + f[i]
    IN  upTo[n]

\* The entries the codes of a row select.
PrimaryTerms(n) ==
    [c \in Coordinates |-> query.primary[c][NibbleAt(segment.codes[n], c)]]
ResidualTerms(n) == [s \in Subs |-> query.residual[s][segment.residuals[n][s]]]

Primary(n) == Total(PrimaryTerms(n), Dimension - 1)
Residual(n) == Total(ResidualTerms(n), Subquantizers - 1)

\* Whatever path a tile takes, and wherever in a tile a row is, its primary
\* score is the sum of the entries its own code selects (kernel.rs:34).
ScoresExact == \A n \in DOMAIN scores : scores[n] = Primary(n)

\* The score refined from a tile's primary score is the one score_refined
\* gives the row: the sum of all its entries (scorer.rs:487).
RefinedExact ==
    refined # NoScore => refined.raw = Primary(refined.row) + Residual(refined.row)

\* No unchecked addition of the scan leaves its accumulator, i32 or i64
\* (kernel.rs:52): the sums are exact at every prefix, not only at the end.
AdditionsFit ==
    /\ pc = "compact" /\ at < Dimension =>
          \A l \in Lanes : l \div 16 = half =>
             Fits(sums[l] + query.compact[at][TileNibble(tiles[ordinal], at, l)], I32Max)
    /\ pc = "wide" /\ at < Dimension =>
          \A l \in WideLanes(LaneCount(segment, ordinal)) :
             Fits(sums[l] + query.primary[at][TileNibble(tiles[ordinal], at, l)], I64Max)

\* The expect of checked_accumulate holds: no query that was prepared makes a
\* checked sum of 768 + 96 entries overflow (scorer.rs:797).
NeverPanics == pc # "panicked"

\* No query that was prepared makes the scan fall back to the checked scalar
\* path: the bound on its entries is tighter than the one the kernel needs.
NeverScalar == pc # "checked"
=============================================================================
