------------------------- MODULE TileKernel_proofs -------------------------
(***************************************************************************)
(* Proofs about the tile kernel, for every dimension, width of integers,   *)
(* query and segment: a tile gives back the codes it was made of, and no   *)
(* sum leaves its accumulator.  The argument is the code's own: after t    *)
(* terms a sum is at most t times the largest entry.                       *)
(***************************************************************************)
EXTENDS TileKernel, TLAPS, WellFoundedInduction

-----------------------------------------------------------------------------
(* Arithmetic. *)

\* Fewer terms have a smaller bound.
LEMMA TermsMonotone ==
    ASSUME NEW m \in Nat, NEW a \in Nat, NEW b \in Nat, a <= b
    PROVE  a * m \in Nat /\ a * m <= b * m
  BY SMT

\* One more term, of at most m, keeps the sum within the bound.
LEMMA OneMoreTerm ==
    ASSUME NEW m \in Nat, NEW t \in Nat, NEW v \in Int, NEW e \in Int,
           Abs(v) <= t * m, Abs(e) <= m
    PROVE  Abs(v + e) <= (t + 1) * m
  BY SMT DEF Abs

\* All the terms of a refined score fit in an i64.
LEMMA EntryMaxFits ==
    EntryMax \in Nat /\ EntryMax * (Dimension + Subquantizers) <= I64Max
  BY WidthAssumption, SMTT(30) DEF EntryMax

\* What fits Dimension times fits.
LEMMA OneOfMany ==
    ASSUME NEW m \in Nat, NEW w \in Nat, m * Dimension <= w
    PROVE  m <= w
  <1>1. 1 * m <= Dimension * m
    BY TermsMonotone, WidthAssumption, SMT
  <1>2. QED
    BY <1>1, WidthAssumption, SMT

LEMMA WrapOfFitting ==
    ASSUME NEW n \in Int, NEW max \in Nat, Fits(n, max)
    PROVE  Wrap(n, max) = n
  BY SMT DEF Fits, Wrap

LEMMA AbsFits ==
    ASSUME NEW n \in Int, NEW max \in Nat, Abs(n) <= max
    PROVE  Fits(n, max) /\ n \in Words(max)
  BY SMT DEF Abs, Fits, Words

-----------------------------------------------------------------------------
(* The layout of a tile. *)

LEMMA NibbleType ==
    ASSUME NEW code \in DirectCode, NEW c \in Coordinates
    PROVE  NibbleAt(code, c) \in Codes
  <1>1. c \div 2 \in 0 .. Dimension \div 2 - 1
    BY WidthAssumption, SMT DEF Coordinates
  <1>2. code[c \div 2] \in Bytes
    BY <1>1 DEF DirectCode
  <1>3. QED
    BY <1>2, SMT DEF NibbleAt, Codes, Bytes

LEMMA StoredType ==
    ASSUME NEW s \in Segments, NEW n \in Nat, NEW c \in Coordinates
    PROVE  Stored(s, n, c) \in Codes
  <1>1. CASE n < s.rows
    <2>1. s.codes[n] \in DirectCode
      BY <1>1, SegmentsAssumption, SMT
    <2>2. QED
      BY <1>1, <2>1, NibbleType DEF Stored
  <1>2. CASE ~ (n < s.rows)
    BY <1>2, SMT DEF Stored, Codes
  <1>3. QED
    BY <1>1, <1>2

LEMMA TileType ==
    ASSUME NEW s \in Segments, NEW t \in Nat
    PROVE  EncodeTile(s, t) \in [TileIndexes -> Bytes]
  <1>1. ASSUME NEW i \in TileIndexes
        PROVE  Stored(s, 32 * t + 2 * (i % 16), i \div 16)
                 + 16 * Stored(s, 32 * t + 2 * (i % 16) + 1, i \div 16) \in Bytes
    <2>1. i \div 16 \in Coordinates /\ 32 * t + 2 * (i % 16) \in Nat
      BY WidthAssumption, SMT DEF TileIndexes, Coordinates
    <2>2. /\ Stored(s, 32 * t + 2 * (i % 16), i \div 16) \in Codes
          /\ Stored(s, 32 * t + 2 * (i % 16) + 1, i \div 16) \in Codes
      BY <2>1, StoredType, SMT
    <2>3. QED
      BY <2>2, SMT DEF Codes, Bytes
  <1>2. QED
    BY <1>1 DEF EncodeTile

\* What encode_tiled_soa32 interleaves, the kernel's index arithmetic finds
\* again: the nibble of a lane and a coordinate is the one the row's own code
\* has there, for every row of a segment and whatever its last tile holds.
THEOREM TileRoundTrip ==
    ASSUME NEW s \in Segments, NEW t \in Nat, NEW l \in Lanes, NEW c \in Coordinates,
           32 * t + l < s.rows
    PROVE  TileNibble(EncodeTile(s, t), c, l) = NibbleAt(s.codes[32 * t + l], c)
  <1> DEFINE i == c * 16 + l \div 2
  <1>1. i \in TileIndexes /\ i \div 16 = c /\ i % 16 = l \div 2
    BY WidthAssumption, SMT DEF TileIndexes, Lanes, Coordinates
  <1>2. EncodeTile(s, t)[i] = Stored(s, 32 * t + 2 * (l \div 2), c)
                                + 16 * Stored(s, 32 * t + 2 * (l \div 2) + 1, c)
    BY <1>1 DEF EncodeTile
  <1>3. /\ Stored(s, 32 * t + 2 * (l \div 2), c) \in Codes
        /\ Stored(s, 32 * t + 2 * (l \div 2) + 1, c) \in Codes
    <2>1. 32 * t + 2 * (l \div 2) \in Nat /\ 32 * t + 2 * (l \div 2) + 1 \in Nat
      BY SMT DEF Lanes
    <2>2. QED
      BY <2>1, StoredType
  <1> HIDE DEF i
  <1>4. Stored(s, 32 * t + l, c) = NibbleAt(s.codes[32 * t + l], c)
    BY DEF Stored
  <1>5. CASE l % 2 = 0
    <2>1. l = 2 * (l \div 2)
      BY <1>5, SMT DEF Lanes
    <2>2. EncodeTile(s, t)[i] % 16 = Stored(s, 32 * t + 2 * (l \div 2), c)
      BY <1>2, <1>3, SMT DEF Codes
    <2>3. QED
      BY <1>4, <1>5, <2>1, <2>2 DEF TileNibble, i
  <1>6. CASE l % 2 # 0
    <2>1. l = 2 * (l \div 2) + 1
      BY <1>6, SMT DEF Lanes
    <2>2. EncodeTile(s, t)[i] \div 16 = Stored(s, 32 * t + 2 * (l \div 2) + 1, c)
      BY <1>2, <1>3, SMT DEF Codes
    <2>3. 32 * t + 2 * (l \div 2) + 1 = 32 * t + l
      BY <2>1, SMT DEF Lanes
    <2>4. QED
      BY <1>4, <1>6, <2>2, <2>3 DEF TileNibble, i
  <1>7. QED
    BY <1>5, <1>6

LEMMA TileNibbleType ==
    ASSUME NEW tile \in [TileIndexes -> Bytes], NEW c \in Coordinates, NEW l \in Lanes
    PROVE  TileNibble(tile, c, l) \in Codes
  <1>1. c * 16 + l \div 2 \in TileIndexes
    BY WidthAssumption, SMT DEF TileIndexes, Lanes, Coordinates
  <1>2. tile[c * 16 + l \div 2] \in Bytes
    BY <1>1
  <1>3. QED
    BY <1>2, SMT DEF TileNibble, Bytes, Codes

-----------------------------------------------------------------------------
(* The inductive invariant. *)

Entries(m) == {v \in Int : Abs(v) <= m}

\* The tables of a prepared query, and what its maximum says of them.
Bounded(q) ==
    /\ q.maximum \in Nat /\ q.maximum <= EntryMax
    /\ q.primary \in [Coordinates -> [Codes -> Entries(q.maximum)]]
    /\ q.residual \in [Subs -> [Bytes -> Entries(EntryMax)]]
    /\ q.compact # NoLookup =>
          /\ q.maximum * Dimension <= I32Max
          /\ q.compact = q.primary

\* The terms lane l has so far: a half that is done has all of them.
CompactTerms(l) ==
    IF l \div 16 < half THEN Dimension ELSE IF l \div 16 = half THEN at ELSE 0

SumsBounded ==
    /\ pc = "compact" =>
          /\ query.compact # NoLookup
          /\ at <= Dimension /\ (half = 0 => at < Dimension)
          /\ \A l \in Lanes : Abs(sums[l]) <= CompactTerms(l) * query.maximum
    /\ pc = "wide" =>
          /\ at <= Dimension
          /\ \A l \in Lanes : Abs(sums[l]) <= at * query.maximum
    /\ pc = "scoring" => at <= Dimension /\ Abs(sum) <= at * EntryMax
    /\ pc = "refining" =>
          at <= Subquantizers /\ Abs(sum) <= (Dimension + at) * EntryMax
    /\ \A n \in DOMAIN scores : Abs(scores[n]) <= Dimension * EntryMax

IInv ==
    /\ TypeOK
    /\ Prepared => Bounded(query)
    /\ SumsBounded
    /\ NeverPanics
    /\ NeverScalar

LEMMA EntriesType ==
    ASSUME NEW m \in Nat
    PROVE  0 \in Entries(m) /\ Entries(m) = - m .. m
  BY SMT DEF Entries, Abs

\* A table whose entries fit has the type of a table of that width.
LEMMA BoundedQueryType ==
    ASSUME NEW q, Bounded(q)
    PROVE  QueryOK(q)
  <1>1. EntryMax \in Nat /\ EntryMax <= I64Max
    BY EntryMaxFits, WidthAssumption, SMT
  <1>2. ASSUME NEW m \in Nat, NEW w \in Nat, m <= w
        PROVE  Entries(m) \subseteq Words(w)
    BY <1>2, SMT DEF Entries, Words, Abs
  <1>3. q.primary \in LookupTables(I64Max)
    BY <1>1, <1>2, WidthAssumption DEF Bounded, LookupTables
  <1>4. q.residual \in [Subs -> [Bytes -> Words(I64Max)]]
    BY <1>1, <1>2, WidthAssumption DEF Bounded
  <1>5. q.compact = NoLookup \/ q.compact \in LookupTables(I32Max)
    <2>1. SUFFICES ASSUME q.compact # NoLookup
                   PROVE  q.primary \in LookupTables(I32Max)
      BY DEF Bounded
    <2>2. q.maximum <= I32Max
      BY <2>1, OneOfMany, WidthAssumption DEF Bounded
    <2>3. QED
      BY <2>2, <1>2, WidthAssumption DEF Bounded, LookupTables
  <1>6. q.maximum \in 0 .. I64Max
    <2>1. q.maximum \in Nat /\ q.maximum <= EntryMax
      BY DEF Bounded
    <2>2. QED
      BY <1>1, <2>1, WidthAssumption, SMT
  <1>7. QED
    BY <1>3, <1>4, <1>5, <1>6 DEF QueryOK

LEMMA InitInv == Init => IInv
  <1> SUFFICES ASSUME Init PROVE IInv
    OBVIOUS
  <1>1. TileCount(segment) \in Nat \ {0} /\ segment.rows \in Nat \ {0}
    BY SegmentsAssumption, SMT DEF Init, TileCount
  <1>2. tiles \in [0 .. TileCount(segment) - 1 -> [TileIndexes -> Bytes]]
    BY <1>1, TileType, SMT DEF Init, Encode
  <1>3. TypeOK
    <2>1. sums \in [Lanes -> Words(I64Max)] /\ sum \in Words(I64Max)
      BY WidthAssumption, SMT DEF Init, ZeroSums, Words
    <2>2. DOMAIN scores = {n \in 0 .. segment.rows - 1 : n < 32 * ordinal}
      BY <1>1, SMT DEF Init
    <2>3. QED
      BY <1>1, <1>2, <2>1, <2>2, WidthAssumption, SMT
      DEF Init, TypeOK, Prepared, NoScore, Words
  <1>4. QED
    BY <1>3 DEF Init, IInv, Prepared, SumsBounded, NeverPanics, NeverScalar

LEMMA PrepareKeeps ==
    ASSUME IInv, NEW products \in Products, PrepareQuery(products)
    PROVE  IInv'
  <1> USE DEF PrepareQuery
  <1>1. CASE ~ AllAdmitted(products)
    <2>1. pc' = "rejected" /\ query' = query
      BY <1>1
    <2>2. TypeOK'
      BY <2>1, SMT DEF IInv, TypeOK, Prepared
    <2>3. QED
      BY <2>1, <2>2 DEF IInv, Prepared, SumsBounded, NeverPanics, NeverScalar
  <1>2. CASE AllAdmitted(products)
    <2> DEFINE lookup == PrimaryLookup(products)
    <2>1. PICK m \in {Abs(lookup[c][k]) : c \in Coordinates, k \in Codes} :
             /\ IsMaximum(m, lookup)
             /\ query' = [primary |-> lookup,
                          residual |-> ResidualLookup(products),
                          maximum |-> m,
                          compact |-> CompactLookup(lookup, m)]
      BY <1>2
    <2>2. /\ \A c \in Coordinates, k \in Codes :
                lookup[c][k] \in Int /\ Abs(lookup[c][k]) <= EntryMax
          /\ \A s \in Subs, k \in Bytes :
                /\ ResidualLookup(products)[s][k] \in Int
                /\ Abs(ResidualLookup(products)[s][k]) <= EntryMax
      <3>1. /\ \A c \in Coordinates, k \in Codes : products.primary[c][k] \in Int
            /\ \A s \in Subs, k \in Bytes : products.residual[s][k] \in Int
        BY ProductsAssumption
      <3>2. \A p \in Int : Rounded(p) \in Int
        BY SMT DEF Rounded
      <3>3. QED
        BY <1>2, <3>1, <3>2 DEF AllAdmitted, Admits, PrimaryLookup, ResidualLookup
    <2>3. m \in Nat /\ m <= EntryMax
      <3>1. PICK c \in Coordinates, k \in Codes : m = Abs(lookup[c][k])
        BY <2>1
      <3>2. lookup[c][k] \in Int /\ Abs(lookup[c][k]) <= EntryMax
        BY <2>2
      <3>3. QED
        BY <3>1, <3>2, SMT DEF Abs
    <2>4. lookup \in [Coordinates -> [Codes -> Entries(m)]]
      <3>1. \A c \in Coordinates, k \in Codes : lookup[c][k] \in Entries(m)
        BY <2>1, <2>2 DEF IsMaximum, Entries
      <3>2. QED
        BY <3>1 DEF PrimaryLookup
    <2>5. ResidualLookup(products) \in [Subs -> [Bytes -> Entries(EntryMax)]]
      <3>1. \A s \in Subs, k \in Bytes :
               ResidualLookup(products)[s][k] \in Entries(EntryMax)
        BY <2>2 DEF Entries
      <3>2. QED
        BY <3>1 DEF ResidualLookup
    <2>6. ASSUME CompactLookup(lookup, m) # NoLookup
          PROVE  m * Dimension <= I32Max /\ CompactLookup(lookup, m) = lookup
      <3>1. m * Dimension <= I32Max
        BY <2>3, <2>6, WidthAssumption, SMT DEF CompactLookup
      <3>2. m <= I32Max
        BY <2>3, <3>1, OneOfMany, WidthAssumption
      <3>3. \A c \in Coordinates, k \in Codes : Wrap(lookup[c][k], I32Max) = lookup[c][k]
        <4>1. SUFFICES ASSUME NEW c \in Coordinates, NEW k \in Codes
                       PROVE  Wrap(lookup[c][k], I32Max) = lookup[c][k]
          OBVIOUS
        <4>2. lookup[c][k] \in Int /\ Abs(lookup[c][k]) <= m
          BY <2>1, <2>2 DEF IsMaximum
        <4>3. Fits(lookup[c][k], I32Max)
          BY <2>3, <3>2, <4>2, WidthAssumption, SMT DEF Fits, Abs
        <4>4. QED
          BY <4>2, <4>3, WrapOfFitting, WidthAssumption
      <3>4. CompactLookup(lookup, m) =
              [c \in Coordinates |-> [k \in Codes |-> Wrap(lookup[c][k], I32Max)]]
        BY <2>6 DEF CompactLookup
      <3>5. lookup = [c \in Coordinates |-> [k \in Codes |-> lookup[c][k]]]
        BY DEF PrimaryLookup
      <3>6. QED
        BY <3>1, <3>3, <3>4, <3>5
    <2> HIDE DEF lookup
    <2>7. Bounded(query')
      BY <2>1, <2>3, <2>4, <2>5, <2>6 DEF Bounded
    <2>8. pc' = "ready" /\ sums' = sums /\ pc # "compact"
      BY <1>2
    <2>9. QueryOK(query')
      BY <2>7, BoundedQueryType
    <2>10. TypeOK'
      BY <2>8, <2>9, SMT DEF IInv, TypeOK
    <2>11. QED
      BY <2>7, <2>8, <2>10 DEF IInv, SumsBounded, NeverPanics, NeverScalar
  <1>3. QED
    BY <1>1, <1>2

-----------------------------------------------------------------------------
(* The entries an addition takes are those of the tables, and the bounds   *)
(* on the sums are within the accumulators.                                *)

LEMMA EntriesFound ==
    ASSUME IInv, Prepared, NEW c \in Coordinates, NEW k \in Codes
    PROVE  query.primary[c][k] \in Int /\ Abs(query.primary[c][k]) <= query.maximum
  <1>1. query.primary \in [Coordinates -> [Codes -> Entries(query.maximum)]]
    BY DEF IInv, Bounded
  <1>2. QED
    BY <1>1 DEF Entries

LEMMA Widths ==
    ASSUME IInv, Prepared
    PROVE  /\ EntryMax \in Nat
           /\ query.maximum \in Nat /\ query.maximum <= EntryMax
           /\ query.maximum * Dimension <= Dimension * EntryMax
           /\ Dimension * EntryMax <= (Dimension + Subquantizers) * EntryMax
           /\ (Dimension + Subquantizers) * EntryMax <= I64Max
  <1>1. EntryMax \in Nat /\ EntryMax * (Dimension + Subquantizers) <= I64Max
    BY EntryMaxFits
  <1>2. query.maximum \in Nat /\ query.maximum <= EntryMax
    BY DEF IInv, Bounded
  <1>3. \A a, b, m \in Nat : a <= b => a * m <= b * m
    BY TermsMonotone
  <1>4. query.maximum * Dimension <= EntryMax * Dimension
    BY <1>1, <1>2, <1>3, WidthAssumption
  <1>5. Dimension * EntryMax <= (Dimension + Subquantizers) * EntryMax
    BY <1>1, <1>3, WidthAssumption, SMT
  <1>6. EntryMax * Dimension = Dimension * EntryMax
    BY <1>1, WidthAssumption, SMT
  <1>7. EntryMax * (Dimension + Subquantizers) = (Dimension + Subquantizers) * EntryMax
    BY <1>1, WidthAssumption, SMT
  <1>8. QED
    BY <1>1, <1>2, <1>4, <1>5, <1>6, <1>7

\* A sum of t terms, with one more of them added.
LEMMA TermFits ==
    ASSUME NEW m \in Nat, NEW t \in Nat, NEW n \in Nat, t < n,
           NEW w \in Nat, n * m <= w,
           NEW v \in Int, NEW e \in Int, Abs(v) <= t * m, Abs(e) <= m
    PROVE  Fits(v + e, w) /\ v + e \in Words(w) /\ Abs(v + e) <= (t + 1) * m
  <1>1. Abs(v + e) <= (t + 1) * m
    BY OneMoreTerm
  <1>2. (t + 1) * m <= n * m /\ (t + 1) * m \in Nat /\ n * m \in Nat
    BY TermsMonotone, SMT
  <1>3. Abs(v + e) <= w
    <2>1. Abs(v + e) \in Int
      BY SMT DEF Abs
    <2>2. QED
      BY <1>1, <1>2, <2>1, SMT
  <1>4. QED
    BY <1>1, <1>3, AbsFits

LEMMA TileCountType ==
    ASSUME NEW s \in Segments
    PROVE  /\ s.rows \in Nat \ {0} /\ TileCount(s) \in Nat \ {0}
           /\ 32 * (TileCount(s) - 1) < s.rows /\ s.rows <= 32 * TileCount(s)
  <1>1. s.rows \in Nat \ {0}
    BY SegmentsAssumption
  <1>2. QED
    BY <1>1, SMT DEF TileCount

\* The additions of the compact path, whose terms are at at.
LEMMA CompactAddition ==
    ASSUME IInv, pc = "compact", at < Dimension, NEW l \in Lanes, l \div 16 = half
    PROVE  LET v == sums[l] + query.compact[at][TileNibble(tiles[ordinal], at, l)]
           IN  Fits(v, I32Max) /\ v \in Words(I32Max) /\ Abs(v) <= (at + 1) * query.maximum
  <1> DEFINE k == TileNibble(tiles[ordinal], at, l)
             e == query.primary[at][k]
  <1>1. at \in Coordinates /\ k \in Codes
    <2>1. at \in Coordinates
      BY WidthAssumption, SMT DEF IInv, TypeOK, Coordinates
    <2>2. tiles[ordinal] \in [TileIndexes -> Bytes]
      <3>1. ordinal \in 0 .. TileCount(segment) - 1
        BY TileCountType, SMT DEF IInv, TypeOK
      <3>2. QED
        BY <3>1 DEF IInv, TypeOK
    <2>3. QED
      BY <2>1, <2>2, TileNibbleType
  <1>2. e \in Int /\ Abs(e) <= query.maximum
    BY <1>1, EntriesFound DEF Prepared
  <1>3. /\ query.maximum * Dimension <= I32Max
        /\ query.compact = query.primary
    BY DEF IInv, SumsBounded, Prepared, Bounded
  <1>4. query.maximum \in Nat
    BY DEF IInv, Prepared, Bounded
  <1>5. sums[l] \in Int /\ Abs(sums[l]) <= at * query.maximum
    <2>1. sums[l] \in Words(I32Max)
      BY DEF IInv, TypeOK
    <2>2. CompactTerms(l) = at
      BY SMT DEF IInv, TypeOK, CompactTerms, Lanes
    <2>3. Abs(sums[l]) <= CompactTerms(l) * query.maximum
      BY DEF IInv, SumsBounded
    <2>4. QED
      BY <2>1, <2>2, <2>3, WidthAssumption, SMT DEF Words
  <1>6. Dimension * query.maximum <= I32Max
    BY <1>3, <1>4, WidthAssumption, SMT
  <1>7. at \in Nat
    BY DEF IInv, TypeOK
  <1> HIDE DEF e, k
  <1>8. Fits(sums[l] + e, I32Max) /\ sums[l] + e \in Words(I32Max)
          /\ Abs(sums[l] + e) <= (at + 1) * query.maximum
    BY <1>2, <1>4, <1>5, <1>6, <1>7, TermFits, WidthAssumption
  <1>9. QED
    BY <1>3, <1>8 DEF e, k

LEMMA WideAddition ==
    ASSUME IInv, pc = "wide", at < Dimension, NEW l \in Lanes
    PROVE  LET v == sums[l] + query.primary[at][TileNibble(tiles[ordinal], at, l)]
           IN  Fits(v, I64Max) /\ v \in Words(I64Max) /\ Abs(v) <= (at + 1) * query.maximum
  <1> DEFINE k == TileNibble(tiles[ordinal], at, l)
             e == query.primary[at][k]
  <1>1. at \in Coordinates /\ k \in Codes
    <2>1. at \in Coordinates
      BY WidthAssumption, SMT DEF IInv, TypeOK, Coordinates
    <2>2. tiles[ordinal] \in [TileIndexes -> Bytes]
      <3>1. ordinal \in 0 .. TileCount(segment) - 1
        BY TileCountType, SMT DEF IInv, TypeOK
      <3>2. QED
        BY <3>1 DEF IInv, TypeOK
    <2>3. QED
      BY <2>1, <2>2, TileNibbleType
  <1>2. e \in Int /\ Abs(e) <= query.maximum
    BY <1>1, EntriesFound DEF Prepared
  <1>3. query.maximum \in Nat /\ Dimension * query.maximum <= I64Max
    BY Widths, WidthAssumption, SMT DEF Prepared
  <1>4. sums[l] \in Int /\ Abs(sums[l]) <= at * query.maximum
    <2>1. sums[l] \in Words(I64Max)
      BY DEF IInv, TypeOK
    <2>2. QED
      BY <2>1, WidthAssumption, SMT DEF IInv, SumsBounded, Words
  <1>5. at \in Nat
    BY DEF IInv, TypeOK
  <1> HIDE DEF e, k
  <1>6. Fits(sums[l] + e, I64Max) /\ sums[l] + e \in Words(I64Max)
          /\ Abs(sums[l] + e) <= (at + 1) * query.maximum
    BY <1>2, <1>3, <1>4, <1>5, TermFits, WidthAssumption
  <1>7. QED
    BY <1>6 DEF e, k

\* The lanes a tile has in use.
LEMMA LanesInUse ==
    ASSUME IInv, ordinal < TileCount(segment)
    PROVE  /\ LaneCount(segment, ordinal) \in 1 .. 32
           /\ WideLanes(LaneCount(segment, ordinal)) =
                 0 .. LaneCount(segment, ordinal) - 1
           /\ 32 * ordinal + LaneCount(segment, ordinal) =
                 IF segment.rows < 32 * (ordinal + 1) THEN segment.rows
                                                      ELSE 32 * (ordinal + 1)
  <1>1. /\ segment.rows \in Nat /\ ordinal \in Nat
        /\ 32 * (TileCount(segment) - 1) < segment.rows /\ TileCount(segment) \in Nat
    BY TileCountType, SMT DEF IInv, TypeOK
  <1>2. LaneCount(segment, ordinal) \in 1 .. 32
    BY <1>1, SMT DEF LaneCount
  <1>3. \A n \in 1 .. 32 : WideLanes(n) = 0 .. n - 1
    BY SMT DEF WideLanes, Lanes
  <1>4. 32 * ordinal + LaneCount(segment, ordinal) =
          IF segment.rows < 32 * (ordinal + 1) THEN segment.rows ELSE 32 * (ordinal + 1)
    BY <1>1, SMT DEF LaneCount
  <1>5. QED
    BY <1>2, <1>3, <1>4

LEMMA BeginTileKeeps == IInv /\ BeginTile => IInv'
  <1> SUFFICES ASSUME IInv, BeginTile PROVE IInv'
    OBVIOUS
  <1> USE DEF BeginTile
  <1>1. Prepared /\ Bounded(query) /\ QueryOK(query)
    BY DEF Prepared, IInv, TypeOK
  <1>2. query.maximum * Dimension <= I64Max /\ query.maximum \in Nat
    BY <1>1, Widths, WidthAssumption, SMT
  <1>3. pc' \in {"compact", "wide"} /\ (pc' = "compact" => query.compact # NoLookup)
    BY <1>2, WidthAssumption, SMT DEF Path
  <1>4. sums' = [l \in Lanes |-> 0] /\ sum' = 0 /\ at' = 0 /\ row' = 0 /\ half' = 0
    BY DEF ZeroSums
  <1>5. \A w \in Nat : 0 \in Words(w)
    BY SMT DEF Words
  <1>6. segment \in Segments /\ segment.rows \in Nat
    BY SegmentsAssumption DEF IInv, TypeOK
  <1>7. TypeOK'
    <2>1. sums' \in [Lanes -> Words(IF pc' = "compact" THEN I32Max ELSE I64Max)]
      BY <1>4, <1>5, WidthAssumption
    <2>2. row' \in 0 .. segment.rows /\ at' \in Nat /\ half' \in {0, 1}
            /\ sum' \in Words(I64Max)
      BY <1>4, <1>5, <1>6, WidthAssumption, SMT
    <2>3. QED
      BY <1>1, <1>3, <2>1, <2>2 DEF IInv, TypeOK
  <1>8. SumsBounded'
    <2>1. \A l \in Lanes : Abs(sums'[l]) = 0
      BY <1>4, SMT DEF Abs
    <2>2. \A l \in Lanes : CompactTerms(l)' = 0
      BY <1>4, SMT DEF CompactTerms, Lanes
    <2>3. 0 * query.maximum = 0 /\ 0 <= Dimension /\ 0 < Dimension
      BY <1>2, WidthAssumption, SMT
    <2>4. \A n \in DOMAIN scores' : Abs(scores'[n]) <= Dimension * EntryMax
      BY DEF IInv, SumsBounded
    <2>5. QED
      BY <1>3, <1>4, <2>1, <2>2, <2>3, <2>4, SMT DEF SumsBounded
  <1>9. QED
    BY <1>1, <1>3, <1>7, <1>8 DEF IInv, NeverPanics, NeverScalar

LEMMA AddCompactKeeps == IInv /\ AddCompact => IInv'
  <1> SUFFICES ASSUME IInv, AddCompact PROVE IInv'
    OBVIOUS
  <1> USE DEF AddCompact
  <1> DEFINE v(l) == sums[l] + query.compact[at][TileNibble(tiles[ordinal], at, l)]
  <1>1. ASSUME NEW l \in Lanes, l \div 16 = half
        PROVE  /\ sums'[l] \in Words(I32Max)
               /\ Abs(sums'[l]) <= (at + 1) * query.maximum
    <2>1. Fits(v(l), I32Max) /\ v(l) \in Words(I32Max)
            /\ Abs(v(l)) <= (at + 1) * query.maximum
      BY <1>1, CompactAddition
    <2>2. v(l) \in Int
      BY <2>1, WidthAssumption, SMT DEF Words
    <2>3. sums'[l] = Wrap(v(l), I32Max)
      BY <1>1
    <2> HIDE DEF v
    <2>4. QED
      BY <2>1, <2>2, <2>3, WrapOfFitting, WidthAssumption
  <1>2. ASSUME NEW l \in Lanes, l \div 16 # half
        PROVE  sums'[l] = sums[l] /\ sums[l] \in Words(I32Max)
    BY <1>2 DEF IInv, TypeOK
  <1>3. at \in Nat /\ half \in {0, 1} /\ Dimension \in Nat \ {0}
    BY WidthAssumption DEF IInv, TypeOK
  <1>4. /\ at' \in Nat /\ half' \in {0, 1} /\ at' <= Dimension
        /\ half' = 0 => at' < Dimension
        /\ \A l \in Lanes :
              /\ l \div 16 = half => CompactTerms(l)' = at + 1
              /\ l \div 16 # half => CompactTerms(l)' = CompactTerms(l)
    <2>1. CASE at = Dimension - 1 /\ half = 0
      <3>1. at' = 0 /\ half' = 1
        BY <2>1
      <3>2. QED
        BY <1>3, <2>1, <3>1, SMT DEF CompactTerms, Lanes
    <2>2. CASE ~ (at = Dimension - 1 /\ half = 0)
      <3>1. at' = at + 1 /\ half' = half /\ at < Dimension
        BY <2>2
      <3>2. QED
        BY <1>3, <3>1, SMT DEF CompactTerms, Lanes
    <2>3. QED
      BY <2>1, <2>2
  <1>5. TypeOK'
    <2>1. sums' \in [Lanes -> Words(I32Max)]
      <3>1. sums' = [l \in Lanes |-> sums'[l]]
        OBVIOUS
      <3>2. QED
        BY <1>1, <1>2, <3>1
    <2>2. pc' = "compact"
      OBVIOUS
    <2>3. QED
      BY <1>4, <2>1, <2>2 DEF IInv, TypeOK, Prepared
  <1>6. \A l \in Lanes : Abs(sums'[l]) <= CompactTerms(l)' * query.maximum
    <2>1. SUFFICES ASSUME NEW l \in Lanes
                   PROVE  Abs(sums'[l]) <= CompactTerms(l)' * query.maximum
      OBVIOUS
    <2>2. CASE l \div 16 = half
      BY <1>1, <1>4, <2>2
    <2>3. CASE l \div 16 # half
      BY <1>2, <1>4, <2>3 DEF IInv, SumsBounded
    <2>4. QED
      BY <2>2, <2>3
  <1>7. SumsBounded'
    BY <1>4, <1>6 DEF IInv, SumsBounded
  <1>8. QED
    BY <1>5, <1>7 DEF IInv, Prepared, NeverPanics, NeverScalar

LEMMA AddWideKeeps == IInv /\ AddWide => IInv'
  <1> SUFFICES ASSUME IInv, AddWide PROVE IInv'
    OBVIOUS
  <1> USE DEF AddWide
  <1> DEFINE v(l) == sums[l] + query.primary[at][TileNibble(tiles[ordinal], at, l)]
  <1>1. at \in Nat /\ at + 1 <= Dimension /\ query.maximum \in Nat
    BY WidthAssumption, Widths, SMT DEF IInv, TypeOK, Prepared
  <1>2. ASSUME NEW l \in Lanes
        PROVE  /\ sums'[l] \in Words(I64Max)
               /\ Abs(sums'[l]) <= (at + 1) * query.maximum
    <2>1. CASE l \in WideLanes(LaneCount(segment, ordinal))
      <3>1. Fits(v(l), I64Max) /\ v(l) \in Words(I64Max)
              /\ Abs(v(l)) <= (at + 1) * query.maximum
        BY WideAddition
      <3>2. v(l) \in Int
        BY <3>1, WidthAssumption, SMT DEF Words
      <3>3. sums'[l] = Wrap(v(l), I64Max)
        BY <2>1
      <3> HIDE DEF v
      <3>4. QED
        BY <3>1, <3>2, <3>3, WrapOfFitting, WidthAssumption
    <2>2. CASE l \notin WideLanes(LaneCount(segment, ordinal))
      <3>1. sums'[l] = sums[l] /\ sums[l] \in Words(I64Max)
        BY <2>2 DEF IInv, TypeOK
      <3>2. Abs(sums[l]) <= at * query.maximum
        BY DEF IInv, SumsBounded
      <3>3. at * query.maximum <= (at + 1) * query.maximum /\ at * query.maximum \in Nat
              /\ (at + 1) * query.maximum \in Nat
        BY <1>1, TermsMonotone, SMT
      <3>4. Abs(sums[l]) \in Int
        BY <3>1, WidthAssumption, SMT DEF Words, Abs
      <3>5. QED
        BY <3>1, <3>2, <3>3, <3>4, SMT
    <2>3. QED
      BY <2>1, <2>2
  <1>3. TypeOK'
    <2>1. sums' \in [Lanes -> Words(I64Max)]
      <3>1. sums' = [l \in Lanes |-> sums'[l]]
        OBVIOUS
      <3>2. QED
        BY <1>2, <3>1
    <2>2. pc' = "wide" /\ at' \in Nat
      BY <1>1, SMT
    <2>3. QED
      BY <2>1, <2>2 DEF IInv, TypeOK, Prepared
  <1>4. SumsBounded'
    BY <1>1, <1>2 DEF IInv, SumsBounded
  <1>5. QED
    BY <1>3, <1>4 DEF IInv, Prepared, NeverPanics, NeverScalar

\* A checked sum within its bound does not panic.
LEMMA AccumulateSafe ==
    ASSUME NEW m \in Nat, NEW t \in Nat, NEW n \in Nat, t < n, n * m <= I64Max,
           sum \in Int, Abs(sum) <= t * m, at \in Nat,
           NEW e \in Int, Abs(e) <= m, Accumulate(e)
    PROVE  /\ sum' \in Words(I64Max) /\ Abs(sum') <= (t + 1) * m
           /\ at' = at + 1 /\ pc' = pc
  <1>1. Fits(sum + e, I64Max) /\ sum + e \in Words(I64Max) /\ Abs(sum + e) <= (t + 1) * m
    BY TermFits, WidthAssumption
  <1>2. QED
    BY <1>1 DEF Accumulate

LEMMA AddCheckedKeeps == IInv /\ AddChecked => IInv'
  <1> SUFFICES ASSUME IInv, AddChecked PROVE IInv'
    OBVIOUS
  <1> USE DEF AddChecked
  <1>1. pc = "scoring" /\ at < Dimension /\ at \in Nat /\ row \in 0 .. segment.rows - 1
    <2>1. pc = "scoring" /\ at < Dimension /\ at \in Nat
      BY DEF IInv, NeverScalar, TypeOK
    <2>2. segment.rows \in Nat
      BY SegmentsAssumption DEF IInv, TypeOK
    <2>3. QED
      BY <2>1, <2>2, SMT DEF IInv, TypeOK
  <1> DEFINE e == query.primary[at][NibbleAt(segment.codes[row], at)]
  <1>2. Accumulate(e)
    BY <1>1
  <1>3. e \in Int /\ Abs(e) <= EntryMax /\ EntryMax \in Nat
    <2>1. at \in Coordinates
      BY <1>1, WidthAssumption, SMT DEF Coordinates
    <2>2. segment.codes[row] \in DirectCode
      BY <1>1, SegmentsAssumption DEF IInv, TypeOK
    <2>3. NibbleAt(segment.codes[row], at) \in Codes
      BY <2>1, <2>2, NibbleType
    <2>4. e \in Int /\ Abs(e) <= query.maximum
      BY <1>1, <2>1, <2>3, EntriesFound DEF Prepared
    <2>5. query.maximum \in Nat /\ query.maximum <= EntryMax /\ EntryMax \in Nat
      BY <1>1, Widths DEF Prepared
    <2> HIDE DEF e
    <2>6. QED
      BY <2>4, <2>5, SMT DEF Abs
  <1>4. Dimension * EntryMax <= I64Max
    BY <1>1, <1>3, Widths, WidthAssumption, SMT DEF Prepared
  <1>5. sum \in Int /\ Abs(sum) <= at * EntryMax
    BY <1>1, WidthAssumption, SMT DEF IInv, SumsBounded, TypeOK, Words
  <1> HIDE DEF e
  <1>6. /\ sum' \in Words(I64Max) /\ Abs(sum') <= (at + 1) * EntryMax
        /\ at' = at + 1 /\ pc' = pc
    BY <1>1, <1>2, <1>3, <1>4, <1>5, AccumulateSafe, WidthAssumption
  <1>7. TypeOK'
    <2>1. at' \in Nat
      BY <1>1, <1>6, SMT
    <2>2. QED
      BY <1>1, <1>6, <2>1 DEF IInv, TypeOK, Prepared
  <1>8. SumsBounded'
    <2>1. at' <= Dimension
      BY <1>1, <1>6, WidthAssumption, SMT
    <2>2. QED
      BY <1>1, <1>6, <2>1 DEF IInv, SumsBounded
  <1>9. QED
    BY <1>1, <1>6, <1>7, <1>8 DEF IInv, Prepared, NeverPanics, NeverScalar

LEMMA EndPrimaryKeeps == IInv /\ EndPrimary => IInv'
  <1> SUFFICES ASSUME IInv, EndPrimary PROVE IInv'
    OBVIOUS
  <1> USE DEF EndPrimary
  <1>1. pc = "scoring" /\ pc' = "refining" /\ at = Dimension /\ at' = 0
          /\ sums' = sums /\ row' = row /\ sum' = sum
    BY DEF IInv, NeverScalar
  <1>2. TypeOK'
    BY <1>1 DEF IInv, TypeOK, Prepared
  <1>3. SumsBounded'
    <2>1. Dimension + 0 = Dimension /\ 0 <= Subquantizers
      BY WidthAssumption, SMT
    <2>2. Abs(sum) <= Dimension * EntryMax
      BY <1>1 DEF IInv, SumsBounded
    <2>3. QED
      BY <1>1, <2>1, <2>2 DEF IInv, SumsBounded
  <1>4. QED
    BY <1>1, <1>2, <1>3 DEF IInv, Prepared, NeverPanics, NeverScalar

LEMMA EndTileKeeps == IInv /\ EndTile => IInv'
  <1> SUFFICES ASSUME IInv, EndTile PROVE IInv'
    OBVIOUS
  <1> USE DEF EndTile
  <1> DEFINE lanes == LaneCount(segment, ordinal)
  <1>1. pc \in {"compact", "wide"} /\ at = Dimension /\ ordinal < TileCount(segment)
    BY DEF IInv, NeverScalar, TileDone, TypeOK
  <1>2. /\ lanes \in 1 .. 32
        /\ 32 * ordinal + lanes =
              IF segment.rows < 32 * (ordinal + 1) THEN segment.rows ELSE 32 * (ordinal + 1)
    BY <1>1, LanesInUse
  <1>3. ordinal \in Nat /\ segment.rows \in Nat /\ TileCount(segment) \in Nat
          /\ 32 * (TileCount(segment) - 1) < segment.rows
    BY TileCountType, SMT DEF IInv, TypeOK
  <1>4. 32 * ordinal < segment.rows
    BY <1>1, <1>3, SMT
  <1> HIDE DEF lanes
  <1>5. /\ DOMAIN scores' = 0 .. 32 * ordinal + lanes - 1
        /\ \A n \in DOMAIN scores' :
              scores'[n] = IF n < 32 * ordinal THEN scores[n] ELSE sums[n - 32 * ordinal]
    BY DEF lanes
  <1>u. /\ ordinal' = ordinal + 1 /\ pc' = "ready"
        /\ UNCHANGED <<query, segment, tiles, row, at, half, sums, sum, refined>>
    OBVIOUS
  <1> HIDE DEF EndTile
  <1>6. \A l \in Lanes : sums[l] \in Words(I64Max) /\ Abs(sums[l]) <= Dimension * EntryMax
    <2>1. SUFFICES ASSUME NEW l \in Lanes
                   PROVE  sums[l] \in Words(I64Max) /\ Abs(sums[l]) <= Dimension * EntryMax
      OBVIOUS
    <2>2. sums[l] \in Words(I64Max)
      <3>1. Words(I32Max) \subseteq Words(I64Max)
        BY WidthAssumption, SMT DEF Words
      <3>2. QED
        BY <1>1, <3>1 DEF IInv, TypeOK
    <2>3. /\ query.maximum \in Nat /\ EntryMax \in Nat
          /\ query.maximum * Dimension <= Dimension * EntryMax
      BY <1>1, Widths DEF Prepared
    <2>4. Abs(sums[l]) <= Dimension * query.maximum \/ Abs(sums[l]) <= 0 * query.maximum
      BY <1>1 DEF IInv, SumsBounded, CompactTerms
    <2>5. Abs(sums[l]) \in Int
      BY <2>2, WidthAssumption, SMT DEF Words, Abs
    <2>6. /\ Dimension * query.maximum = query.maximum * Dimension
          /\ 0 * query.maximum <= Dimension * EntryMax
          /\ Dimension * EntryMax \in Nat /\ Dimension * query.maximum \in Nat
          /\ 0 * query.maximum = 0
      BY <2>3, WidthAssumption, SMT
    <2>7. QED
      BY <2>2, <2>3, <2>4, <2>5, <2>6, SMT
  <1>7. DOMAIN scores = 0 .. 32 * ordinal - 1
    <2>1. DOMAIN scores = {n \in 0 .. segment.rows - 1 : n < 32 * ordinal}
      BY DEF IInv, TypeOK
    <2>2. QED
      BY <1>3, <1>4, <2>1, SMT
  <1>8. \A n \in DOMAIN scores' :
           scores'[n] \in Words(I64Max) /\ Abs(scores'[n]) <= Dimension * EntryMax
    <2>1. SUFFICES ASSUME NEW n \in DOMAIN scores'
                   PROVE  /\ scores'[n] \in Words(I64Max)
                          /\ Abs(scores'[n]) <= Dimension * EntryMax
      OBVIOUS
    <2>2. n \in Nat /\ n < 32 * ordinal + lanes
      BY <1>2, <1>3, <1>5, SMT
    <2>3. CASE n < 32 * ordinal
      <3>1. n \in DOMAIN scores
        BY <1>3, <1>7, <2>2, <2>3, SMT
      <3>2. QED
        BY <1>5, <2>3, <3>1 DEF IInv, TypeOK, SumsBounded
    <2>4. CASE ~ (n < 32 * ordinal)
      <3>1. n - 32 * ordinal \in Lanes
        BY <1>2, <1>3, <2>2, <2>4, SMT DEF Lanes
      <3>2. QED
        BY <1>5, <1>6, <2>4, <3>1
    <2>5. QED
      BY <2>3, <2>4
  <1>9. DOMAIN scores' = {n \in 0 .. segment.rows - 1 : n < 32 * (ordinal + 1)}
    BY <1>2, <1>3, <1>5, SMT
  <1>10. TypeOK'
    <2>1. ordinal' \in 0 .. TileCount(segment)
      BY <1>1, <1>3, <1>u, SMT
    <2>2. sums \in [Lanes -> Words(I64Max)]
      <3>1. sums = [l \in Lanes |-> sums[l]]
        BY DEF IInv, TypeOK
      <3>2. QED
        BY <1>6, <3>1
    <2>3. QED
      BY <1>1, <1>8, <1>9, <1>u, <2>1, <2>2 DEF IInv, TypeOK, Prepared
  <1>11. SumsBounded'
    BY <1>8, <1>u DEF SumsBounded
  <1>12. QED
    BY <1>1, <1>10, <1>11, <1>u DEF IInv, Prepared, NeverPanics, NeverScalar

\* After the scan every row has a primary score.
LEMMA AllScored ==
    ASSUME IInv, Scanned, NEW n \in 0 .. segment.rows - 1
    PROVE  n \in DOMAIN scores /\ n \in 0 .. segment.rows /\ n < segment.rows
             /\ scores[n] \in Words(I64Max) /\ Abs(scores[n]) <= Dimension * EntryMax
  <1>1. segment.rows \in Nat /\ segment.rows <= 32 * ordinal /\ ordinal \in Nat
    BY TileCountType, SMT DEF IInv, TypeOK, Scanned
  <1>2. n < 32 * ordinal /\ n < segment.rows /\ n \in 0 .. segment.rows
    BY <1>1, SMT
  <1>3. n \in DOMAIN scores
    BY <1>2 DEF IInv, TypeOK
  <1>4. QED
    BY <1>2, <1>3 DEF IInv, TypeOK, SumsBounded

LEMMA BeginRefineKeeps ==
    ASSUME IInv, NEW n \in 0 .. segment.rows - 1, BeginRefine(n)
    PROVE  IInv'
  <1> USE DEF BeginRefine
  <1>1. /\ pc' = "refining" /\ pc = "ready" /\ sum' = scores[n] /\ row' = n /\ at' = 0
        /\ sum' \in Words(I64Max) /\ Abs(sum') <= Dimension * EntryMax
        /\ row' \in 0 .. segment.rows /\ row' < segment.rows
    BY AllScored DEF Scanned
  <1>2. refined'.row \in -1 .. segment.rows - 1 /\ refined'.raw \in Words(I64Max)
    BY SegmentsAssumption, WidthAssumption, SMT DEF IInv, TypeOK, NoScore, Words
  <1>3. TypeOK'
    BY <1>1, <1>2 DEF IInv, TypeOK, Prepared
  <1>4. SumsBounded'
    <2>1. Dimension + 0 = Dimension /\ 0 <= Subquantizers
      BY WidthAssumption, SMT
    <2>2. QED
      BY <1>1, <2>1 DEF IInv, SumsBounded
  <1>5. QED
    BY <1>1, <1>3, <1>4 DEF IInv, Prepared, NeverPanics, NeverScalar

LEMMA BeginScoreKeeps ==
    ASSUME IInv, NEW n \in 0 .. segment.rows - 1, BeginScore(n)
    PROVE  IInv'
  <1> USE DEF BeginScore
  <1>1. /\ pc' = "scoring" /\ pc = "ready" /\ sum' = 0 /\ row' = n /\ at' = 0
        /\ row' \in 0 .. segment.rows /\ row' < segment.rows
    BY AllScored DEF Scanned
  <1>2. refined'.row \in -1 .. segment.rows - 1 /\ refined'.raw \in Words(I64Max)
    BY SegmentsAssumption, WidthAssumption, SMT DEF IInv, TypeOK, NoScore, Words
  <1>3. TypeOK'
    <2>1. 0 \in Words(I64Max)
      BY WidthAssumption, SMT DEF Words
    <2>2. QED
      BY <1>1, <1>2, <2>1 DEF IInv, TypeOK, Prepared
  <1>4. SumsBounded'
    <2>1. Abs(0) = 0 /\ 0 * EntryMax = 0 /\ 0 <= Dimension /\ 0 <= 0
      BY EntryMaxFits, WidthAssumption, SMT DEF Abs
    <2>2. QED
      BY <1>1, <2>1 DEF IInv, SumsBounded
  <1>5. QED
    BY <1>1, <1>3, <1>4 DEF IInv, Prepared, NeverPanics, NeverScalar

LEMMA AddResidualKeeps == IInv /\ AddResidual => IInv'
  <1> SUFFICES ASSUME IInv, AddResidual PROVE IInv'
    OBVIOUS
  <1> USE DEF AddResidual
  <1>1. pc = "refining" /\ at < Subquantizers /\ at \in Nat /\ row \in 0 .. segment.rows - 1
    <2>1. segment.rows \in Nat
      BY SegmentsAssumption DEF IInv, TypeOK
    <2>2. QED
      BY <2>1, SMT DEF IInv, TypeOK
  <1> DEFINE e == query.residual[at][segment.residuals[row][at]]
  <1>2. e \in Int /\ Abs(e) <= EntryMax /\ EntryMax \in Nat
    <2>1. at \in Subs
      BY <1>1, WidthAssumption, SMT DEF Subs
    <2>2. segment.residuals[row] \in Pq96Code
      BY <1>1, SegmentsAssumption DEF IInv, TypeOK
    <2>3. segment.residuals[row][at] \in Bytes
      BY <2>1, <2>2 DEF Pq96Code
    <2>4. query.residual \in [Subs -> [Bytes -> Entries(EntryMax)]]
      BY <1>1 DEF IInv, Prepared, Bounded
    <2>5. e \in Entries(EntryMax)
      BY <2>1, <2>3, <2>4
    <2>6. QED
      BY <2>5, EntryMaxFits DEF Entries
  <1>3. (Dimension + Subquantizers) * EntryMax <= I64Max
    BY <1>1, Widths DEF Prepared
  <1>4. sum \in Int /\ Abs(sum) <= (Dimension + at) * EntryMax
    BY <1>1, WidthAssumption, SMT DEF IInv, SumsBounded, TypeOK, Words
  <1>5. /\ Dimension + at \in Nat /\ Dimension + Subquantizers \in Nat
        /\ Dimension + at < Dimension + Subquantizers
        /\ Dimension + at + 1 = Dimension + (at + 1)
    BY <1>1, WidthAssumption, SMT
  <1>6. Accumulate(e)
    OBVIOUS
  <1> HIDE DEF e
  <1>7. /\ sum' \in Words(I64Max) /\ Abs(sum') <= (Dimension + at + 1) * EntryMax
        /\ at' = at + 1 /\ pc' = pc
    BY <1>1, <1>2, <1>3, <1>4, <1>5, <1>6, AccumulateSafe, WidthAssumption
  <1>8. at' \in Nat /\ at' <= Subquantizers
    BY <1>1, <1>7, WidthAssumption, SMT
  <1>9. TypeOK'
    BY <1>1, <1>7, <1>8 DEF IInv, TypeOK, Prepared
  <1>10. SumsBounded'
    BY <1>1, <1>5, <1>7, <1>8 DEF IInv, SumsBounded
  <1>11. QED
    BY <1>1, <1>7, <1>9, <1>10 DEF IInv, Prepared, NeverPanics, NeverScalar

LEMMA EndRefineKeeps == IInv /\ EndRefine => IInv'
  <1> SUFFICES ASSUME IInv, EndRefine PROVE IInv'
    OBVIOUS
  <1> USE DEF EndRefine
  <1>1. segment.rows \in Nat /\ row \in -1 .. segment.rows - 1
    <2>1. segment.rows \in Nat
      BY SegmentsAssumption DEF IInv, TypeOK
    <2>2. QED
      BY <2>1, SMT DEF IInv, TypeOK
  <1>2. TypeOK'
    BY <1>1 DEF IInv, TypeOK, Prepared
  <1>3. SumsBounded'
    BY DEF IInv, SumsBounded
  <1>4. QED
    BY <1>2, <1>3 DEF IInv, Prepared, NeverPanics, NeverScalar

LEMMA StepKeeps == IInv /\ [Next]_vars => IInv'
  <1> SUFFICES ASSUME IInv, [Next]_vars PROVE IInv'
    OBVIOUS
  <1>1. CASE UNCHANGED vars
    BY <1>1 DEF vars, IInv, TypeOK, Prepared, SumsBounded, CompactTerms,
                NeverPanics, NeverScalar
  <1>2. CASE \E products \in Products : PrepareQuery(products)
    BY <1>2, PrepareKeeps
  <1>3. CASE BeginTile \/ AddCompact \/ AddWide
    BY <1>3, BeginTileKeeps, AddCompactKeeps, AddWideKeeps
  <1>4. CASE AddChecked \/ EndPrimary \/ EndTile
    BY <1>4, AddCheckedKeeps, EndPrimaryKeeps, EndTileKeeps
  <1>5. CASE \E n \in 0 .. segment.rows - 1 : BeginRefine(n) \/ BeginScore(n)
    BY <1>5, BeginRefineKeeps, BeginScoreKeeps
  <1>6. CASE AddResidual \/ EndRefine
    BY <1>6, AddResidualKeeps, EndRefineKeeps
  <1>7. QED
    BY <1>1, <1>2, <1>3, <1>4, <1>5, <1>6 DEF Next

-----------------------------------------------------------------------------
(* Results. *)

\* The bound on the sums holds after every step: t terms of a query that was
\* prepared add up to at most t times its largest entry.
THEOREM KernelInductive == Spec => []IInv
  BY InitInv, StepKeeps, PTL DEF Spec

\* Every variable keeps its type, for every query, segment and width of the
\* integers: no index leaves a table or a tile.
THEOREM KernelTypes == Spec => []TypeOK
  <1>1. IInv => TypeOK
    BY DEF IInv
  <1>2. QED
    BY <1>1, KernelInductive, PTL

\* No unchecked addition of the scan overflows, whatever query is prepared:
\* neither the 32-bit one nor the 64-bit one ever wraps.
THEOREM AdditionsNeverWrap == Spec => []AdditionsFit
  <1>1. ASSUME IInv PROVE AdditionsFit
    <2>1. ASSUME pc = "compact", at < Dimension, NEW l \in Lanes, l \div 16 = half
          PROVE  Fits(sums[l] + query.compact[at][TileNibble(tiles[ordinal], at, l)], I32Max)
      BY <1>1, <2>1, CompactAddition
    <2>2. ASSUME pc = "wide", at < Dimension,
                 NEW l \in WideLanes(LaneCount(segment, ordinal))
          PROVE  Fits(sums[l] + query.primary[at][TileNibble(tiles[ordinal], at, l)], I64Max)
      <3>1. l \in Lanes
        <4>1. ordinal < TileCount(segment)
          BY <1>1, <2>2 DEF IInv, TypeOK
        <4>2. LaneCount(segment, ordinal) \in 1 .. 32
                /\ l \in 0 .. LaneCount(segment, ordinal) - 1
          BY <1>1, <2>2, <4>1, LanesInUse
        <4>3. QED
          BY <4>2, SMT DEF Lanes
      <3>2. QED
        BY <1>1, <2>2, <3>1, WideAddition
    <2>3. QED
      BY <2>1, <2>2 DEF AdditionsFit
  <1>2. IInv => AdditionsFit
    BY <1>1
  <1>3. QED
    BY <1>2, KernelInductive, PTL

\* The expect of checked_accumulate never fails: the bound on the entries of a
\* query leaves room for the 768 + 96 terms of a refined score.
THEOREM AccumulateNeverPanics == Spec => []NeverPanics
  <1>1. IInv => NeverPanics
    BY DEF IInv
  <1>2. QED
    BY <1>1, KernelInductive, PTL

\* The kernel's checked scalar path is never taken for a prepared query.
THEOREM KernelNeverScalar == Spec => []NeverScalar
  <1>1. IInv => NeverScalar
    BY DEF IInv
  <1>2. QED
    BY <1>1, KernelInductive, PTL

-----------------------------------------------------------------------------
(* Exactness.  A score is shown to be a sum by the sequence of its partial *)
(* sums, which the kernel extends by one with every addition.              *)

\* v is the sum of the first n values of f.
SumsTo(v, f, n) ==
    \E p \in [0 .. n -> Int] :
        /\ p[0] = 0
        /\ \A i \in 0 .. n - 1 : p[i + 1] = p[i] + f[i]
        /\ p[n] = v

LEMMA SumOfNone == \A f : SumsTo(0, f, 0)
  <1>1. SUFFICES ASSUME NEW f PROVE SumsTo(0, f, 0)
    OBVIOUS
  <1> DEFINE p == [i \in 0 .. 0 |-> 0]
  <1>2. p \in [0 .. 0 -> Int] /\ p[0] = 0 /\ \A i \in 0 .. 0 - 1 : p[i + 1] = p[i] + f[i]
    BY SMT
  <1>3. QED
    BY <1>2 DEF SumsTo

LEMMA SumOfOneMore ==
    ASSUME NEW f, NEW n \in Nat, NEW v, SumsTo(v, f, n), f[n] \in Int
    PROVE  SumsTo(v + f[n], f, n + 1)
  <1>1. PICK p \in [0 .. n -> Int] :
           /\ p[0] = 0
           /\ \A i \in 0 .. n - 1 : p[i + 1] = p[i] + f[i]
           /\ p[n] = v
    BY DEF SumsTo
  <1> DEFINE q == [i \in 0 .. n + 1 |-> IF i = n + 1 THEN v + f[n] ELSE p[i]]
  <1>2. v \in Int
    BY <1>1, SMT
  <1>3. q \in [0 .. n + 1 -> Int]
    <2>1. ASSUME NEW i \in 0 .. n + 1, i # n + 1 PROVE p[i] \in Int
      BY <1>1, <2>1, SMT
    <2>2. QED
      BY <1>2, <2>1, SMT
  <1>4. q[0] = 0 /\ q[n + 1] = v + f[n]
    BY <1>1, SMT
  <1>5. ASSUME NEW i \in 0 .. (n + 1) - 1 PROVE q[i + 1] = q[i] + f[i]
    <2>1. CASE i = n
      BY <1>1, <2>1, SMT
    <2>2. CASE i # n
      <3>1. i \in 0 .. n - 1 /\ i + 1 \in 0 .. n + 1 /\ i \in 0 .. n + 1
              /\ i # n + 1 /\ i + 1 # n + 1
        BY <2>2, SMT
      <3>2. q[i + 1] = p[i + 1] /\ q[i] = p[i]
        BY <3>1
      <3>3. QED
        BY <1>1, <3>1, <3>2
    <2>3. QED
      BY <2>1, <2>2
  <1> HIDE DEF q
  <1>6. QED
    BY <1>3, <1>4, <1>5 DEF SumsTo

LEMMA LeastNatural ==
    ASSUME NEW T, T \subseteq Nat, T # {}
    PROVE  \E x \in T : \A y \in T : ~ (y < x)
  <1>1. PICK x \in T : \A y \in T : ~ (<<y, x>> \in OpToRel(<, Nat))
    BY WFMin, NatLessThanWellFounded
  <1>2. ASSUME NEW y \in T, y < x PROVE <<y, x>> \in OpToRel(<, Nat)
    BY <1>2 DEF OpToRel
  <1>3. QED
    BY <1>1, <1>2

\* The recursive function that defines Total.
Recursion(g, f, n) == g = [i \in 0 .. n |-> IF i = 0 THEN f[0] ELSE g[i - 1] + f[i]]

\* A sum that partial sums lead up to is the one Total defines.
LEMMA TotalOfSum ==
    ASSUME NEW f, NEW n \in Nat, \A i \in 0 .. n : f[i] \in Int,
           NEW v, SumsTo(v, f, n + 1)
    PROVE  Total(f, n) = v
  <1>1. PICK p \in [0 .. n + 1 -> Int] :
           /\ p[0] = 0
           /\ \A i \in 0 .. (n + 1) - 1 : p[i + 1] = p[i] + f[i]
           /\ p[n + 1] = v
    BY DEF SumsTo
  <1>2. \A i \in 0 .. n : p[i + 1] = p[i] + f[i] /\ p[i + 1] \in Int
    BY <1>1, SMT
  <1>3. p[1] = f[0]
    BY <1>1, <1>2, SMT
  <1> DEFINE h == [i \in 0 .. n |-> p[i + 1]]
             g == CHOOSE x : Recursion(x, f, n)
  <1>4. Recursion(h, f, n)
    <2>1. ASSUME NEW i \in 0 .. n
          PROVE  p[i + 1] = IF i = 0 THEN f[0] ELSE h[i - 1] + f[i]
      <3>1. CASE i = 0
        BY <1>3, <3>1, SMT
      <3>2. CASE i # 0
        <4>1. i - 1 \in 0 .. n /\ (i - 1) + 1 = i
          BY <3>2, SMT
        <4>2. h[i - 1] = p[i]
          BY <4>1
        <4>3. QED
          BY <1>2, <3>2, <4>2
      <3>3. QED
        BY <3>1, <3>2
    <2>2. QED
      BY <2>1 DEF Recursion
  <1>5. Total(f, n) = g[n]
    BY Zenon DEF Total, Recursion
  <1>6. Recursion(g, f, n)
    BY <1>4
  <1> HIDE DEF g, h
  <1>7. \A i \in 0 .. n : g[i] = IF i = 0 THEN f[0] ELSE g[i - 1] + f[i]
    BY <1>6 DEF Recursion
  <1> DEFINE Wrong == {i \in 0 .. n : g[i] # p[i + 1]}
  <1>8. Wrong = {}
    <2>1. SUFFICES ASSUME Wrong # {} PROVE FALSE
      OBVIOUS
    <2>2. Wrong \subseteq Nat
      BY SMT
    <2>3. PICK m \in Wrong : \A y \in Wrong : ~ (y < m)
      BY <2>1, <2>2, LeastNatural
    <2>4. m \in 0 .. n /\ g[m] # p[m + 1]
      BY <2>3
    <2>5. CASE m = 0
      BY <1>3, <1>7, <2>4, <2>5, SMT
    <2>6. CASE m # 0
      <3>1. m - 1 \in 0 .. n /\ m - 1 < m /\ (m - 1) + 1 = m
        BY <2>4, <2>6, SMT
      <3>2. m - 1 \notin Wrong
        BY <2>3, <3>1
      <3>3. g[m - 1] = p[m]
        BY <3>1, <3>2
      <3>4. g[m] = g[m - 1] + f[m] /\ p[m + 1] = p[m] + f[m]
        BY <1>2, <1>7, <2>4, <2>6
      <3>5. QED
        BY <2>4, <3>3, <3>4
    <2>7. QED
      BY <2>5, <2>6
  <1>9. QED
    BY <1>1, <1>5, <1>8, SMT

LEMMA TermsTypes ==
    ASSUME IInv, Prepared, NEW n \in 0 .. segment.rows - 1
    PROVE  /\ \A c \in Coordinates : PrimaryTerms(n)[c] \in Int
           /\ \A s \in Subs : ResidualTerms(n)[s] \in Int
  <1>1. segment.codes[n] \in DirectCode /\ segment.residuals[n] \in Pq96Code
    BY SegmentsAssumption DEF IInv, TypeOK
  <1>2. ASSUME NEW c \in Coordinates PROVE PrimaryTerms(n)[c] \in Int
    BY <1>1, NibbleType, EntriesFound DEF PrimaryTerms
  <1>3. ASSUME NEW s \in Subs PROVE ResidualTerms(n)[s] \in Int
    <2>1. query.residual \in [Subs -> [Bytes -> Entries(EntryMax)]]
      BY DEF IInv, Bounded
    <2>2. segment.residuals[n][s] \in Bytes
      BY <1>1 DEF Pq96Code
    <2>3. query.residual[s][segment.residuals[n][s]] \in Entries(EntryMax)
      BY <2>1, <2>2
    <2>4. QED
      BY <2>3 DEF ResidualTerms, Entries
  <1>4. QED
    BY <1>2, <1>3

\* What a lane of the tile being scanned, and every score, is the sum of.
LaneExact(l, terms) ==
    32 * ordinal + l < segment.rows =>
        SumsTo(sums[l], PrimaryTerms(32 * ordinal + l), terms)

RefinedSum(v, n, terms) ==
    \E a, b \in Int : /\ v = a + b
                      /\ SumsTo(a, PrimaryTerms(n), Dimension)
                      /\ SumsTo(b, ResidualTerms(n), terms)

ExactInv ==
    /\ tiles = Encode(segment)
    /\ ~ Prepared => DOMAIN scores = {} /\ refined = NoScore
    /\ pc = "compact" => \A l \in Lanes : LaneExact(l, CompactTerms(l))
    /\ pc = "wide" => \A l \in Lanes : LaneExact(l, at)
    /\ pc = "scoring" => SumsTo(sum, PrimaryTerms(row), at)
    /\ pc = "refining" => RefinedSum(sum, row, at)
    /\ \A n \in DOMAIN scores : SumsTo(scores[n], PrimaryTerms(n), Dimension)
    /\ refined # NoScore =>
          /\ refined.row \in 0 .. segment.rows - 1
          /\ RefinedSum(refined.raw, refined.row, Subquantizers)

\* The entry an addition takes for a lane in use is one of its row's terms.
LEMMA LaneTerm ==
    ASSUME IInv, ExactInv, Prepared, ordinal < TileCount(segment),
           NEW c \in Coordinates, NEW l \in Lanes, 32 * ordinal + l < segment.rows
    PROVE  /\ query.primary[c][TileNibble(tiles[ordinal], c, l)]
                 = PrimaryTerms(32 * ordinal + l)[c]
           /\ 32 * ordinal + l \in 0 .. segment.rows - 1
           /\ PrimaryTerms(32 * ordinal + l)[c] \in Int
  <1>1. ordinal \in 0 .. TileCount(segment) - 1 /\ ordinal \in Nat
          /\ 32 * ordinal + l \in 0 .. segment.rows - 1
    <2>1. ordinal \in Nat /\ segment.rows \in Nat /\ TileCount(segment) \in Nat
      BY TileCountType, SMT DEF IInv, TypeOK
    <2>2. QED
      BY <2>1, SMT DEF Lanes
  <1>2. tiles[ordinal] = EncodeTile(segment, ordinal)
    BY <1>1 DEF ExactInv, Encode
  <1>3. TileNibble(tiles[ordinal], c, l) = NibbleAt(segment.codes[32 * ordinal + l], c)
    BY <1>1, <1>2, TileRoundTrip DEF IInv, TypeOK
  <1>4. QED
    BY <1>1, <1>3, TermsTypes DEF PrimaryTerms

LEMMA InitExact == Init => ExactInv
  BY DEF Init, ExactInv, Prepared

LEMMA PrepareExact ==
    ASSUME ExactInv, NEW products \in Products, PrepareQuery(products)
    PROVE  ExactInv'
  <1>1. ~ Prepared /\ pc' \in {"ready", "rejected"}
          /\ UNCHANGED <<segment, tiles, scores, refined>>
    BY DEF PrepareQuery, Prepared
  <1>2. QED
    BY <1>1 DEF ExactInv

LEMMA BeginTileExact == IInv /\ ExactInv /\ BeginTile => ExactInv'
  <1> SUFFICES ASSUME IInv, ExactInv, BeginTile PROVE ExactInv'
    OBVIOUS
  <1>1. pc' \in {"compact", "wide", "checked"} /\ Prepared /\ Prepared'
          /\ sums' = [l \in Lanes |-> 0] /\ at' = 0 /\ half' = 0
          /\ UNCHANGED <<query, segment, tiles, ordinal, scores, refined>>
    BY DEF BeginTile, Path, Prepared, ZeroSums
  <1>2. ASSUME NEW l \in Lanes PROVE CompactTerms(l)' = 0 /\ sums'[l] = 0
    <2>1. ~ (l \div 16 < 0)
      BY SMT DEF Lanes
    <2>2. QED
      BY <1>1, <2>1 DEF CompactTerms
  <1>3. \A l \in Lanes : LaneExact(l, 0)'
    <2>1. ASSUME NEW l \in Lanes
          PROVE  SumsTo(sums'[l], PrimaryTerms(32 * ordinal + l)', 0)
      BY <1>2, SumOfNone
    <2>2. QED
      BY <1>1, <2>1 DEF LaneExact
  <1>4. (pc = "compact")' => \A l \in Lanes : LaneExact(l, CompactTerms(l))'
    BY <1>2, <1>3 DEF LaneExact
  <1>5. (pc = "wide")' => \A l \in Lanes : LaneExact(l, at)'
    BY <1>1, <1>3 DEF LaneExact
  <1>6. QED
    BY <1>1, <1>4, <1>5 DEF ExactInv, PrimaryTerms, ResidualTerms, RefinedSum

LEMMA AddCompactExact == IInv /\ ExactInv /\ AddCompact => ExactInv'
  <1> SUFFICES ASSUME IInv, ExactInv, AddCompact PROVE ExactInv'
    OBVIOUS
  <1>1. /\ pc = "compact" /\ pc' = "compact" /\ at < Dimension /\ at \in Coordinates
        /\ Prepared /\ ordinal < TileCount(segment)
        /\ UNCHANGED <<query, segment, tiles, ordinal, scores, refined>>
    BY WidthAssumption, SMT DEF AddCompact, IInv, TypeOK, Prepared, Coordinates
  <1>2. /\ query.compact = query.primary
        /\ half \in {0, 1} /\ at \in Nat
    BY <1>1 DEF IInv, SumsBounded, Bounded, TypeOK
  <1>3. ASSUME NEW l \in Lanes PROVE LaneExact(l, CompactTerms(l))'
    <2>1. SUFFICES ASSUME 32 * ordinal + l < segment.rows
                   PROVE  SumsTo(sums'[l], PrimaryTerms(32 * ordinal + l), CompactTerms(l)')
      BY <1>1 DEF LaneExact, PrimaryTerms
    <2>2. SumsTo(sums[l], PrimaryTerms(32 * ordinal + l), CompactTerms(l))
      BY <1>1, <2>1 DEF ExactInv, LaneExact
    <2>3. CASE l \div 16 = half
      <3> DEFINE v == sums[l] + query.compact[at][TileNibble(tiles[ordinal], at, l)]
      <3>1. Fits(v, I32Max) /\ v \in Words(I32Max)
        BY <1>1, <2>3, CompactAddition
      <3>2. v \in Int
        BY <3>1, WidthAssumption, SMT DEF Words
      <3>3. sums'[l] = Wrap(v, I32Max)
        BY <2>3 DEF AddCompact
      <3>4. sums'[l] = v
        <4> HIDE DEF v
        <4>1. QED
          BY <3>1, <3>2, <3>3, WrapOfFitting, WidthAssumption
      <3>5. v = sums[l] + PrimaryTerms(32 * ordinal + l)[at]
              /\ PrimaryTerms(32 * ordinal + l)[at] \in Int
        BY <1>1, <1>2, <2>1, LaneTerm
      <3>6. CompactTerms(l) = at /\ CompactTerms(l)' = at + 1
        <4>1. CompactTerms(l) = at
          BY <2>3, SMT DEF CompactTerms, Lanes
        <4>2. CASE at = Dimension - 1 /\ half = 0
          <5>1. at' = 0 /\ half' = 1
            BY <4>2 DEF AddCompact
          <5>2. QED
            BY <1>2, <2>3, <4>1, <4>2, <5>1, WidthAssumption, SMT DEF CompactTerms, Lanes
        <4>3. CASE ~ (at = Dimension - 1 /\ half = 0)
          <5>1. at' = at + 1 /\ half' = half
            BY <4>3 DEF AddCompact
          <5>2. QED
            BY <1>2, <2>3, <4>1, <5>1, SMT DEF CompactTerms, Lanes
        <4>4. QED
          BY <4>2, <4>3
      <3> HIDE DEF v
      <3>7. QED
        BY <1>2, <2>2, <3>4, <3>5, <3>6, SumOfOneMore
    <2>4. CASE l \div 16 # half
      <3>1. sums'[l] = sums[l]
        BY <2>4 DEF AddCompact
      <3>2. CompactTerms(l)' = CompactTerms(l)
        <4>1. (half = 0 /\ at' = 0 /\ half' = 1) \/ (at' = at + 1 /\ half' = half)
          BY DEF AddCompact
        <4>2. QED
          BY <1>2, <2>4, <4>1, SMT DEF CompactTerms, Lanes
      <3>3. QED
        BY <2>2, <3>1, <3>2
    <2>5. QED
      BY <2>3, <2>4
  <1>4. QED
    BY <1>1, <1>3 DEF ExactInv, PrimaryTerms, ResidualTerms, RefinedSum, Prepared

LEMMA AddWideExact == IInv /\ ExactInv /\ AddWide => ExactInv'
  <1> SUFFICES ASSUME IInv, ExactInv, AddWide PROVE ExactInv'
    OBVIOUS
  <1>1. /\ pc = "wide" /\ pc' = "wide" /\ at < Dimension /\ at' = at + 1
        /\ Prepared /\ ordinal < TileCount(segment)
        /\ UNCHANGED <<query, segment, tiles, ordinal, scores, refined>>
    BY DEF AddWide, IInv, TypeOK, Prepared
  <1>2. at \in Nat /\ at \in Coordinates /\ ordinal \in Nat /\ segment.rows \in Nat
    BY <1>1, TileCountType, WidthAssumption, SMT DEF IInv, TypeOK, Coordinates
  <1>3. ASSUME NEW l \in Lanes PROVE LaneExact(l, at)'
    <2>1. SUFFICES ASSUME 32 * ordinal + l < segment.rows
                   PROVE  SumsTo(sums'[l], PrimaryTerms(32 * ordinal + l), at + 1)
      BY <1>1 DEF LaneExact, PrimaryTerms
    <2>2. SumsTo(sums[l], PrimaryTerms(32 * ordinal + l), at)
      BY <1>1, <2>1 DEF ExactInv, LaneExact
    <2> DEFINE v == sums[l] + query.primary[at][TileNibble(tiles[ordinal], at, l)]
    <2>3. Fits(v, I64Max) /\ v \in Words(I64Max)
      BY <1>1, WideAddition
    <2>4. v \in Int
      BY <2>3, WidthAssumption, SMT DEF Words
    <2>5. l \in WideLanes(LaneCount(segment, ordinal))
      <3>1. l \in 0 .. LaneCount(segment, ordinal) - 1
        BY <1>2, <2>1, SMT DEF LaneCount, Lanes
      <3>2. QED
        BY <1>1, <3>1, LanesInUse
    <2>6. sums'[l] = Wrap(v, I64Max)
      BY <2>5 DEF AddWide
    <2>7. sums'[l] = v
      <3> HIDE DEF v
      <3>1. QED
        BY <2>3, <2>4, <2>6, WrapOfFitting, WidthAssumption
    <2>8. v = sums[l] + PrimaryTerms(32 * ordinal + l)[at]
            /\ PrimaryTerms(32 * ordinal + l)[at] \in Int
      BY <1>1, <1>2, <2>1, LaneTerm
    <2> HIDE DEF v
    <2>9. QED
      BY <1>2, <2>2, <2>7, <2>8, SumOfOneMore
  <1>4. QED
    BY <1>1, <1>3 DEF ExactInv, PrimaryTerms, ResidualTerms, RefinedSum, Prepared

LEMMA EndTileExact == IInv /\ ExactInv /\ EndTile => ExactInv'
  <1> SUFFICES ASSUME IInv, ExactInv, EndTile PROVE ExactInv'
    OBVIOUS
  <1>1. /\ pc \in {"compact", "wide"} /\ pc' = "ready" /\ at = Dimension
        /\ Prepared /\ Prepared' /\ ordinal < TileCount(segment)
        /\ UNCHANGED <<query, segment, tiles, refined>>
    BY DEF EndTile, TileDone, IInv, NeverScalar, TypeOK, Prepared
  <1>2. /\ DOMAIN scores' = 0 .. 32 * ordinal + LaneCount(segment, ordinal) - 1
        /\ \A n \in DOMAIN scores' :
              scores'[n] = IF n < 32 * ordinal THEN scores[n] ELSE sums[n - 32 * ordinal]
    BY DEF EndTile
  <1>3. ordinal \in Nat /\ segment.rows \in Nat /\ half \in {0, 1}
          /\ LaneCount(segment, ordinal) \in 1 .. 32
          /\ 32 * ordinal + LaneCount(segment, ordinal) <= segment.rows
    <2>1. ordinal \in Nat /\ segment.rows \in Nat /\ half \in {0, 1}
      BY TileCountType, SMT DEF IInv, TypeOK
    <2>2. QED
      BY <1>1, <2>1, LanesInUse, SMT DEF LaneCount
  <1>4. ASSUME NEW n \in DOMAIN scores'
        PROVE  SumsTo(scores'[n], PrimaryTerms(n), Dimension)
    <2>1. n \in Nat /\ n < segment.rows
            /\ n < 32 * ordinal + LaneCount(segment, ordinal)
      <3>1. n \in 0 .. 32 * ordinal + LaneCount(segment, ordinal) - 1
        BY <1>2
      <3>2. QED
        BY <1>3, <3>1, SMT
    <2>2. CASE n < 32 * ordinal
      <3>1. n \in DOMAIN scores
        BY <1>3, <2>1, <2>2, SMT DEF IInv, TypeOK
      <3>2. QED
        BY <1>2, <2>2, <3>1 DEF ExactInv
    <2>3. CASE ~ (n < 32 * ordinal)
      <3> DEFINE l == n - 32 * ordinal
      <3>1. l \in Lanes /\ 32 * ordinal + l = n
        BY <1>3, <2>1, <2>3, SMT DEF Lanes
      <3>2. scores'[n] = sums[l]
        BY <1>2, <2>3
      <3> HIDE DEF l
      <3>3. CASE pc = "wide"
        BY <1>1, <2>1, <3>1, <3>2, <3>3 DEF ExactInv, LaneExact
      <3>4. CASE pc = "compact"
        <4>1. SumsTo(sums[l], PrimaryTerms(n), CompactTerms(l))
          BY <2>1, <3>1, <3>4 DEF ExactInv, LaneExact
        <4>2. CompactTerms(l) = Dimension
          <5>1. half = 1
            <6>1. half = 0 => at < Dimension
              BY <3>4 DEF IInv, SumsBounded
            <6>2. QED
              BY <1>1, <1>3, <6>1, WidthAssumption, SMT
          <5>2. l \div 16 < 1 \/ l \div 16 = 1
            BY <3>1, SMTT(40) DEF Lanes
          <5>3. QED
            BY <1>1, <5>1, <5>2 DEF CompactTerms
        <4>3. QED
          BY <3>2, <4>1, <4>2
      <3>5. QED
        BY <1>1, <3>3, <3>4
    <2>4. QED
      BY <2>2, <2>3
  <1>5. QED
    BY <1>1, <1>4 DEF ExactInv, PrimaryTerms, ResidualTerms, RefinedSum

LEMMA AddCheckedExact == IInv /\ IInv' /\ ExactInv /\ AddChecked => ExactInv'
  <1> SUFFICES ASSUME IInv, IInv', ExactInv, AddChecked PROVE ExactInv'
    OBVIOUS
  <1>1. /\ pc = "scoring" /\ at < Dimension /\ Prepared
        /\ UNCHANGED <<query, segment, tiles, ordinal, row, scores, refined>>
    BY DEF AddChecked, IInv, NeverScalar, Prepared
  <1>2. at \in Nat /\ at \in Coordinates /\ row \in 0 .. segment.rows - 1
    <2>1. at \in Nat /\ segment.rows \in Nat
      BY TileCountType DEF IInv, TypeOK
    <2>2. QED
      BY <1>1, <2>1, WidthAssumption, SMTT(40) DEF IInv, TypeOK, Coordinates
  <1>3. Accumulate(PrimaryTerms(row)[at]) /\ PrimaryTerms(row)[at] \in Int
    BY <1>1, <1>2, TermsTypes DEF AddChecked, PrimaryTerms
  <1>4. sum' = sum + PrimaryTerms(row)[at] /\ at' = at + 1 /\ pc' = "scoring"
    BY <1>1, <1>3 DEF Accumulate, IInv, NeverPanics
  <1>5. SumsTo(sum', PrimaryTerms(row), at')
    BY <1>1, <1>2, <1>3, <1>4, SumOfOneMore DEF ExactInv
  <1>6. QED
    BY <1>1, <1>4, <1>5, Zenon DEF ExactInv, PrimaryTerms, ResidualTerms, RefinedSum, Prepared

LEMMA EndPrimaryExact == IInv /\ ExactInv /\ EndPrimary => ExactInv'
  <1> SUFFICES ASSUME IInv, ExactInv, EndPrimary PROVE ExactInv'
    OBVIOUS
  <1>1. /\ pc = "scoring" /\ pc' = "refining" /\ at = Dimension /\ at' = 0 /\ Prepared
        /\ UNCHANGED <<query, segment, tiles, row, sum, scores, refined>>
    BY DEF EndPrimary, IInv, NeverScalar, Prepared
  <1>2. sum \in Int /\ sum = sum + 0
    BY WidthAssumption, SMT DEF IInv, TypeOK, Words
  <1>3. RefinedSum(sum, row, 0)
    BY <1>1, <1>2, SumOfNone, SMTT(40) DEF ExactInv, RefinedSum
  <1>4. QED
    BY <1>1, <1>3, ZenonT(40) DEF ExactInv, PrimaryTerms, ResidualTerms, RefinedSum, Prepared

LEMMA BeginRefineExact ==
    ASSUME IInv, ExactInv, NEW n \in 0 .. segment.rows - 1, BeginRefine(n)
    PROVE  ExactInv'
  <1>1. /\ Scanned /\ Prepared /\ pc' = "refining" /\ row' = n /\ at' = 0
        /\ sum' = scores[n] /\ refined' = NoScore
        /\ UNCHANGED <<query, segment, tiles, scores>>
    BY DEF BeginRefine, Scanned, Prepared
  <1>2. n \in DOMAIN scores /\ scores[n] \in Int /\ scores[n] = scores[n] + 0
    BY <1>1, AllScored, WidthAssumption, SMT DEF Words
  <1>3. RefinedSum(scores[n], n, 0)
    BY <1>2, SumOfNone DEF ExactInv, RefinedSum
  <1>4. QED
    BY <1>1, <1>3, Zenon DEF ExactInv, PrimaryTerms, ResidualTerms, RefinedSum, Prepared

LEMMA BeginScoreExact ==
    ASSUME IInv, ExactInv, NEW n \in 0 .. segment.rows - 1, BeginScore(n)
    PROVE  ExactInv'
  <1>1. /\ Prepared /\ pc' = "scoring" /\ row' = n /\ at' = 0 /\ sum' = 0
        /\ refined' = NoScore
        /\ UNCHANGED <<query, segment, tiles, scores>>
    BY DEF BeginScore, Scanned, Prepared
  <1>2. SumsTo(0, PrimaryTerms(n), 0)
    BY SumOfNone, SMTT(40)
  <1>3. QED
    BY <1>1, <1>2 DEF ExactInv, PrimaryTerms, ResidualTerms, RefinedSum, Prepared

LEMMA AddResidualExact == IInv /\ IInv' /\ ExactInv /\ AddResidual => ExactInv'
  <1> SUFFICES ASSUME IInv, IInv', ExactInv, AddResidual PROVE ExactInv'
    OBVIOUS
  <1>1. /\ pc = "refining" /\ at < Subquantizers /\ Prepared
        /\ UNCHANGED <<query, segment, tiles, ordinal, row, scores, refined>>
    BY DEF AddResidual, Prepared
  <1>2. at \in Nat /\ at \in Subs /\ row \in 0 .. segment.rows - 1
    <2>1. at \in Nat /\ segment.rows \in Nat
      BY TileCountType DEF IInv, TypeOK
    <2>2. QED
      BY <1>1, <2>1, WidthAssumption, SMT DEF IInv, TypeOK, Subs
  <1>3. Accumulate(ResidualTerms(row)[at]) /\ ResidualTerms(row)[at] \in Int
    BY <1>1, <1>2, TermsTypes DEF AddResidual, ResidualTerms
  <1>4. sum' = sum + ResidualTerms(row)[at] /\ at' = at + 1 /\ pc' = "refining"
    BY <1>1, <1>3 DEF Accumulate, IInv, NeverPanics
  <1>5. RefinedSum(sum', row, at')
    <2>1. PICK a, b \in Int : /\ sum = a + b
                             /\ SumsTo(a, PrimaryTerms(row), Dimension)
                             /\ SumsTo(b, ResidualTerms(row), at)
      BY <1>1 DEF ExactInv, RefinedSum
    <2>2. SumsTo(b + ResidualTerms(row)[at], ResidualTerms(row), at + 1)
      BY <1>2, <1>3, <2>1, SumOfOneMore
    <2>3. sum' = a + (b + ResidualTerms(row)[at]) /\ b + ResidualTerms(row)[at] \in Int
      BY <1>3, <1>4, <2>1, SMTT(40)
    <2>4. QED
      BY <1>4, <2>1, <2>2, <2>3 DEF RefinedSum
  <1>6. QED
    BY <1>1, <1>4, <1>5, Zenon DEF ExactInv, PrimaryTerms, ResidualTerms, RefinedSum, Prepared

LEMMA EndRefineExact == IInv /\ ExactInv /\ EndRefine => ExactInv'
  <1> SUFFICES ASSUME IInv, ExactInv, EndRefine PROVE ExactInv'
    OBVIOUS
  <1>1. /\ pc = "refining" /\ at = Subquantizers /\ pc' = "ready" /\ Prepared
        /\ refined'.raw = sum /\ refined'.row = row
        /\ UNCHANGED <<query, segment, tiles, scores>>
    BY DEF EndRefine, Prepared
  <1>2. RefinedSum(sum, row, Subquantizers)
    BY <1>1 DEF ExactInv
  <1>3. row \in 0 .. segment.rows - 1
    <2>1. segment.rows \in Nat
      BY TileCountType DEF IInv, TypeOK
    <2>2. QED
      BY <1>1, <2>1, SMT DEF IInv, TypeOK
  <1>4. QED
    BY <1>1, <1>2, <1>3 DEF ExactInv, PrimaryTerms, ResidualTerms, RefinedSum, Prepared

LEMMA StepExact == IInv /\ IInv' /\ ExactInv /\ [Next]_vars => ExactInv'
  <1> SUFFICES ASSUME IInv, IInv', ExactInv, [Next]_vars PROVE ExactInv'
    OBVIOUS
  <1>1. CASE UNCHANGED vars
    BY <1>1 DEF vars, ExactInv, Prepared, LaneExact, CompactTerms, RefinedSum,
                PrimaryTerms, ResidualTerms
  <1>2. CASE \E products \in Products : PrepareQuery(products)
    BY <1>2, PrepareExact
  <1>3. CASE BeginTile \/ AddCompact \/ AddWide
    BY <1>3, BeginTileExact, AddCompactExact, AddWideExact
  <1>4. CASE AddChecked \/ EndPrimary \/ EndTile
    BY <1>4, AddCheckedExact, EndPrimaryExact, EndTileExact
  <1>5. CASE \E n \in 0 .. segment.rows - 1 : BeginRefine(n) \/ BeginScore(n)
    BY <1>5, BeginRefineExact, BeginScoreExact
  <1>6. CASE AddResidual \/ EndRefine
    BY <1>6, AddResidualExact, EndRefineExact
  <1>7. QED
    BY <1>1, <1>2, <1>3, <1>4, <1>5, <1>6 DEF Next

LEMMA ExactInductive == Spec => [](IInv /\ ExactInv)
  BY InitInv, InitExact, StepKeeps, StepExact, PTL DEF Spec

LEMMA PrimaryOfSum ==
    ASSUME IInv, Prepared, NEW n \in 0 .. segment.rows - 1,
           NEW v, SumsTo(v, PrimaryTerms(n), Dimension)
    PROVE  v = Primary(n)
  <1>1. Dimension - 1 \in Nat /\ (Dimension - 1) + 1 = Dimension
    BY WidthAssumption, SMT
  <1>2. \A i \in 0 .. Dimension - 1 : PrimaryTerms(n)[i] \in Int
    BY TermsTypes DEF Coordinates
  <1>3. QED
    BY <1>1, <1>2, TotalOfSum DEF Primary

LEMMA ResidualOfSum ==
    ASSUME IInv, Prepared, NEW n \in 0 .. segment.rows - 1,
           NEW v, SumsTo(v, ResidualTerms(n), Subquantizers)
    PROVE  v = Residual(n)
  <1>1. Subquantizers - 1 \in Nat /\ (Subquantizers - 1) + 1 = Subquantizers
    BY WidthAssumption, SMT
  <1>2. \A i \in 0 .. Subquantizers - 1 : ResidualTerms(n)[i] \in Int
    BY TermsTypes DEF Subs
  <1>3. QED
    BY <1>1, <1>2, TotalOfSum DEF Residual

\* Every primary score the scan gives a row is the sum of the entries its own
\* code selects, by the compact path as by the wide one, in every lane of
\* every tile and for every number of rows.
THEOREM ScanIsExact == Spec => []ScoresExact
  <1>1. ASSUME IInv, ExactInv PROVE ScoresExact
    <2>1. SUFFICES ASSUME NEW n \in DOMAIN scores PROVE scores[n] = Primary(n)
      BY DEF ScoresExact
    <2>2. n \in 0 .. segment.rows - 1
      BY <1>1 DEF IInv, TypeOK
    <2>3. Prepared /\ SumsTo(scores[n], PrimaryTerms(n), Dimension)
      BY <1>1 DEF ExactInv
    <2>4. QED
      BY <1>1, <2>2, <2>3, PrimaryOfSum
  <1>2. IInv /\ ExactInv => ScoresExact
    BY <1>1
  <1>3. QED
    BY <1>2, ExactInductive, PTL

\* A score refined from what the scan found is the one score_refined gives the
\* row: the sum of the entries of its code and of its residual code.
THEOREM RefinementIsExact == Spec => []RefinedExact
  <1>1. ASSUME IInv, ExactInv PROVE RefinedExact
    <2>1. SUFFICES ASSUME refined # NoScore
                   PROVE  refined.raw = Primary(refined.row) + Residual(refined.row)
      BY DEF RefinedExact
    <2>2. PICK a, b \in Int : /\ refined.raw = a + b
                             /\ SumsTo(a, PrimaryTerms(refined.row), Dimension)
                             /\ SumsTo(b, ResidualTerms(refined.row), Subquantizers)
      BY <1>1, <2>1 DEF ExactInv, RefinedSum
    <2>3. Prepared /\ refined.row \in 0 .. segment.rows - 1
      BY <1>1, <2>1 DEF ExactInv
    <2>4. QED
      BY <1>1, <2>2, <2>3, PrimaryOfSum, ResidualOfSum
  <1>2. IInv /\ ExactInv => RefinedExact
    BY <1>1
  <1>3. QED
    BY <1>2, ExactInductive, PTL
=============================================================================
