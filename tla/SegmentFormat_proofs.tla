------------------------- MODULE SegmentFormat_proofs -------------------------
(***************************************************************************)
(* Proofs about what encode_segment lays out: its recursion gives every    *)
(* section a place, behind the one before it and aligned, with no more     *)
(* than alignment needs between them.                                      *)
(***************************************************************************)
EXTENDS SegmentFormat, WellFoundedInduction, TLAPS

-------------------------------------------------------------------------------
(* Arithmetic.                                                                 *)

\* A set of naturals that is not empty has a least element.
LEMMA LeastNatural ==
    ASSUME NEW T, T \subseteq Nat, T # {}
    PROVE  \E x \in T : \A y \in T : ~ (y < x)
  <1> DEFINE R == {ss \in Nat \X Nat : ss[1] < ss[2]}
  <1>1. IsWellFoundedOn(R, Nat)
    BY NatLessThanWellFounded DEF OpToRel
  <1> HIDE DEF R
  <1>2. PICK x \in T : \A y \in T : ~ (<<y, x>> \in R)
    BY <1>1, WFMin
  <1>3. ASSUME NEW y \in T, y < x PROVE <<y, x>> \in R
    BY <1>3 DEF R
  <1>4. QED
    BY <1>2, <1>3

\* Aligning moves an offset on by less than a unit of alignment, to a multiple
\* of it.
LEMMA AlignUpBounds ==
    ASSUME NEW x \in Nat
    PROVE  /\ AlignUp(x) \in Nat /\ x <= AlignUp(x) /\ AlignUp(x) <= x + 63
           /\ AlignUp(x) % 64 = 0
  BY DEF AlignUp, CeilDiv, SectionAlignment

\* A table has four bytes for each block of 4096.
LEMMA CrcTableBounds ==
    ASSUME NEW x \in Nat
    PROVE  CrcTableLen(x) \in Nat /\ 1024 * CrcTableLen(x) <= x + 4095
  BY DEF CrcTableLen, CeilDiv, BlockSize

-------------------------------------------------------------------------------
(* The recursion.                                                              *)

\* f is where sections of lengths l are that follow each other from c on.
Places(f, n, c, l) ==
    /\ f \in [1 .. n -> Nat]
    /\ \A i \in 1 .. n : f[i] = AlignUp(IF i = 1 THEN c ELSE f[i - 1] + l[i - 1])

\* Sections of given lengths, one after the other from c on, have places.
LEMMA OffsetsExist ==
    ASSUME NEW n \in Nat, NEW c \in Nat, NEW l \in [1 .. n -> Nat]
    PROVE  \E f : Places(f, n, c, l)
  <1> DEFINE Filled(m, f) ==
                 /\ f \in [1 .. m -> Nat]
                 /\ \A i \in 1 .. m :
                       f[i] = AlignUp(IF i = 1 THEN c ELSE f[i - 1] + l[i - 1])
             Bad == {m \in 0 .. n : ~ \E f : Filled(m, f)}
  <1>1. Bad = {}
    <2> SUFFICES ASSUME Bad # {} PROVE FALSE
      OBVIOUS
    <2>1. Bad \subseteq Nat
      OBVIOUS
    <2> HIDE DEF Bad
    <2>2. PICK m \in Bad : \A y \in Bad : ~ (y < m)
      BY <2>1, LeastNatural
    <2>3. m \in 0 .. n /\ ~ \E f : Filled(m, f)
      BY <2>2 DEF Bad
    <2>4. CASE m = 0
      <3>1. Filled(0, [i \in {} |-> 0])
        OBVIOUS
      <3>2. QED
        BY <2>3, <2>4, <3>1
    <2>5. CASE m > 0
      <3>1. m - 1 \in 0 .. n /\ m - 1 < m
        BY <2>3, <2>5
      <3>2. m - 1 \notin Bad
        BY <2>2, <3>1
      <3>3. PICK g : Filled(m - 1, g)
        BY <3>1, <3>2 DEF Bad
      <3> DEFINE v == AlignUp(IF m = 1 THEN c ELSE g[m - 1] + l[m - 1])
                 f == [i \in 1 .. m |-> IF i = m THEN v ELSE g[i]]
      <3>4. v \in Nat
        <4>1. CASE m = 1
          BY <4>1, AlignUpBounds
        <4>2. CASE m # 1
          <5>1. g[m - 1] \in Nat /\ l[m - 1] \in Nat
            BY <2>3, <2>5, <3>3, <4>2
          <5>2. g[m - 1] + l[m - 1] \in Nat
            BY <5>1
          <5>3. QED
            BY <4>2, <5>2, AlignUpBounds
        <4>3. QED
          BY <4>1, <4>2
      <3> HIDE DEF v
      <3>5. f \in [1 .. m -> Nat]
        BY <2>3, <3>3, <3>4
      <3>6. ASSUME NEW i \in 1 .. m
            PROVE  f[i] = AlignUp(IF i = 1 THEN c ELSE f[i - 1] + l[i - 1])
        <4>1. CASE i = m
          <5>1. f[i] = v /\ (i # 1 => f[i - 1] = g[i - 1])
            BY <2>3, <4>1
          <5>2. QED
            BY <4>1, <5>1 DEF v
        <4>2. CASE i # m
          <5>1. i \in 1 .. m - 1 /\ f[i] = g[i] /\ (i # 1 => f[i - 1] = g[i - 1])
            BY <2>3, <4>2
          <5>2. g[i] = AlignUp(IF i = 1 THEN c ELSE g[i - 1] + l[i - 1])
            BY <3>3, <5>1
          <5>3. QED
            BY <5>1, <5>2
        <4>3. QED
          BY <4>1, <4>2
      <3>7. Filled(m, f)
        BY <3>5, <3>6
      <3>8. QED
        BY <2>3, <3>7
    <2>6. QED
      BY <2>3, <2>4, <2>5
  <1>2. n \in 0 .. n
    OBVIOUS
  <1>3. PICK f : Filled(n, f)
    BY <1>1, <1>2
  <1>4. QED
    BY <1>3 DEF Places

-------------------------------------------------------------------------------
(* The encoded file.                                                           *)

\* Length of section i of a file, and where the sections are.
LengthOf(kind, rows, i) ==
    LET kinds == DataSections(kind)
        n == Len(kinds)
    IN  IF i <= n THEN ExpectedLen(kinds[i], rows)
        ELSE CrcTableLen(ExpectedLen(kinds[i - n], rows))

Placed(f, kind, rows) ==
    LET n == Len(DataSections(kind))
    IN  f = [i \in 1 .. 2 * n |->
               AlignUp(IF i = 1 THEN HeaderLen + 2 * n * EntryLen
                       ELSE f[i - 1] + LengthOf(kind, rows, i - 1))]

\* The file with its sections at the places of f.
DataAt(f, kind, rows, i) ==
    LET kinds == DataSections(kind)
    IN  [kind |-> kinds[i], alignment |-> SectionAlignment,
         offset |-> f[i], length |-> LengthOf(kind, rows, i),
         rows |-> IF IsRowAddressed(kinds[i]) THEN rows ELSE 0,
         block |-> BlockSize, crc |-> Len(kinds) + i - 1]

TableAt(f, kind, rows, i) ==
    [kind |-> "CrcTable", alignment |-> SectionAlignment,
     offset |-> f[i], length |-> LengthOf(kind, rows, i),
     rows |-> 0, block |-> 0, crc |-> NoCrcTable]

FileAt(f, kind, rows, identity) ==
    LET n == Len(DataSections(kind))
        total == f[2 * n] + LengthOf(kind, rows, 2 * n)
    IN  [len |-> total, v1 |-> TRUE, kind |-> kind,
         identity |-> identity, rows |-> rows,
         payload |-> total - HeaderLen, directory |-> HeaderLen,
         entries |-> [i \in 1 .. 2 * n |-> IF i <= n THEN DataAt(f, kind, rows, i)
                                           ELSE TableAt(f, kind, rows, i)],
         staleBlocks |-> {}, staleSections |-> {}, sealed |-> TRUE]

\* The recursion by which encode_segment lays sections out.
LEMMA EncodeShape ==
    ASSUME NEW kind, NEW rows, NEW identity
    PROVE  Encode(kind, rows, identity)
               = FileAt(CHOOSE g : Placed(g, kind, rows), kind, rows, identity)
  BY DEF Encode, Placed, LengthOf, FileAt, DataAt, TableAt

\* f is where the sections are, of which there are m.
LaidOut(f, kind, rows, m) ==
    /\ f \in [1 .. m -> Nat]
    /\ \A identity : Encode(kind, rows, identity) = FileAt(f, kind, rows, identity)
    /\ f[1] \in 240 + 72 * m .. 240 + 72 * m + 63
    /\ \A i \in 2 .. m : /\ f[i - 1] + LengthOf(kind, rows, i - 1) <= f[i]
                          /\ f[i] <= f[i - 1] + LengthOf(kind, rows, i - 1) + 63
    /\ \A i \in 1 .. m : f[i] % 64 = 0

\* The lengths of the sections, in the order of the file.
LEMMA PrimaryLengths ==
    ASSUME NEW rows \in Nat
    PROVE  /\ Len(DataSections("Primary")) = 6
           /\ LengthOf("Primary", rows, 1) = rows * 40
           /\ LengthOf("Primary", rows, 2) = rows * 4
           /\ LengthOf("Primary", rows, 3) = CeilDiv(rows, 32) * 12288
           /\ LengthOf("Primary", rows, 4) = 49152
           /\ LengthOf("Primary", rows, 5) = 40
           /\ LengthOf("Primary", rows, 6) = 40
           /\ \A i \in 7 .. 12 :
                 LengthOf("Primary", rows, i) =
                     CrcTableLen(LengthOf("Primary", rows, i - 6))
  <1> DEFINE kinds == DataSections("Primary")
  <1>1. /\ Len(kinds) = 6
        /\ kinds[1] = "IdsSequences" /\ kinds[2] = "RadiusFlags"
        /\ kinds[3] = "PrimaryDirectInt4" /\ kinds[4] = "Int4QuantizerTable"
        /\ kinds[5] = "PrimaryCertificate" /\ kinds[6] = "RefinedCertificate"
    BY DEF DataSections
  <1>2. /\ ExpectedLen("IdsSequences", rows) = rows * 40
        /\ ExpectedLen("RadiusFlags", rows) = rows * 4
        /\ ExpectedLen("PrimaryDirectInt4", rows) = CeilDiv(rows, 32) * 12288
        /\ ExpectedLen("Int4QuantizerTable", rows) = 49152
        /\ ExpectedLen("PrimaryCertificate", rows) = 40
        /\ ExpectedLen("RefinedCertificate", rows) = 40
    BY DEF ExpectedLen, RowBytes, TableBytes, TileRows, TileBytes
  <1> HIDE DEF kinds
  <1>3. \A i \in 1 .. 6 : LengthOf("Primary", rows, i) = ExpectedLen(kinds[i], rows)
    BY <1>1 DEF LengthOf, kinds
  <1>4. \A i \in 7 .. 12 :
           LengthOf("Primary", rows, i) = CrcTableLen(ExpectedLen(kinds[i - 6], rows))
    <2>1. TAKE i \in 7 .. 12
    <2>2. LengthOf("Primary", rows, i) =
             IF i <= Len(kinds) THEN ExpectedLen(kinds[i], rows)
             ELSE CrcTableLen(ExpectedLen(kinds[i - Len(kinds)], rows))
      BY DEF LengthOf, kinds
    <2>3. ~ (i <= Len(kinds)) /\ i - Len(kinds) = i - 6
      BY <1>1
    <2>4. QED
      BY <2>2, <2>3
  <1>5. \A i \in 7 .. 12 :
           LengthOf("Primary", rows, i) = CrcTableLen(LengthOf("Primary", rows, i - 6))
    BY <1>3, <1>4
  <1>6. QED
    BY <1>1, <1>2, <1>3, <1>5 DEF kinds

\* Likewise of a residual file.
LEMMA ResidualLengths ==
    ASSUME NEW rows \in Nat
    PROVE  /\ Len(DataSections("Residual")) = 2
           /\ LengthOf("Residual", rows, 1) = rows * 96
           /\ LengthOf("Residual", rows, 2) = 786432
           /\ \A i \in 3 .. 4 :
                 LengthOf("Residual", rows, i) =
                     CrcTableLen(LengthOf("Residual", rows, i - 2))
  <1> DEFINE kinds == DataSections("Residual")
  <1>1. Len(kinds) = 2 /\ kinds[1] = "Pq96Residual" /\ kinds[2] = "PqCodebook"
    BY DEF DataSections
  <1>2. /\ ExpectedLen("Pq96Residual", rows) = rows * 96
        /\ ExpectedLen("PqCodebook", rows) = 786432
    BY DEF ExpectedLen, RowBytes, TableBytes
  <1> HIDE DEF kinds
  <1>3. \A i \in 1 .. 2 : LengthOf("Residual", rows, i) = ExpectedLen(kinds[i], rows)
    BY <1>1 DEF LengthOf, kinds
  <1>4. \A i \in 3 .. 4 :
           LengthOf("Residual", rows, i) = CrcTableLen(ExpectedLen(kinds[i - 2], rows))
    <2>1. TAKE i \in 3 .. 4
    <2>2. LengthOf("Residual", rows, i) =
             IF i <= Len(kinds) THEN ExpectedLen(kinds[i], rows)
             ELSE CrcTableLen(ExpectedLen(kinds[i - Len(kinds)], rows))
      BY DEF LengthOf, kinds
    <2>3. ~ (i <= Len(kinds)) /\ i - Len(kinds) = i - 2
      BY <1>1
    <2>4. QED
      BY <2>2, <2>3
  <1>5. QED
    BY <1>1, <1>2, <1>3, <1>4 DEF kinds

\* encode_segment gives all sections a place.
LEMMA Layout ==
    ASSUME NEW kind, NEW n \in Nat \ {0}, Len(DataSections(kind)) = n, NEW rows,
           NEW m \in Nat, m = 2 * n,
           \A i \in 1 .. m : LengthOf(kind, rows, i) \in Nat
    PROVE  \E f : LaidOut(f, kind, rows, m)
  <1> DEFINE c == 240 + 72 * m
             l == [i \in 1 .. m |-> LengthOf(kind, rows, i)]
             g == CHOOSE h : Placed(h, kind, rows)
  <1>1. /\ c \in Nat /\ l \in [1 .. m -> Nat]
        /\ \A i \in 1 .. m : l[i] = LengthOf(kind, rows, i)
        /\ c = HeaderLen + 2 * n * EntryLen
    BY DEF HeaderLen, EntryLen
  <1> HIDE DEF l, c
  <1>2. PICK f : Places(f, m, c, l)
    BY <1>1, OffsetsExist, Zenon
  <1>3. \A i \in 2 .. m : i - 1 \in 1 .. m
    OBVIOUS
  <1>4. \A h : Placed(h, kind, rows) <=>
           h = [i \in 1 .. m |-> AlignUp(IF i = 1 THEN c
                                        ELSE h[i - 1] + LengthOf(kind, rows, i - 1))]
    BY <1>1 DEF Placed
  <1>5. ASSUME NEW i \in 1 .. m
        PROVE  f[i] = AlignUp(IF i = 1 THEN c ELSE f[i - 1] + LengthOf(kind, rows, i - 1))
    <2>1. f[i] = AlignUp(IF i = 1 THEN c ELSE f[i - 1] + l[i - 1])
      BY <1>2 DEF Places
    <2>2. CASE i = 1
      BY <2>1, <2>2
    <2>3. CASE i # 1
      <3>1. l[i - 1] = LengthOf(kind, rows, i - 1)
        BY <1>1, <1>3, <2>3
      <3>2. QED
        BY <2>1, <2>3, <3>1
    <2>4. QED
      BY <2>2, <2>3
  <1>6. Placed(f, kind, rows)
    <2> DEFINE e == [i \in 1 .. m |-> AlignUp(IF i = 1 THEN c
                                   ELSE f[i - 1] + LengthOf(kind, rows, i - 1))]
    <2>1. \A i \in 1 .. m : e[i] = f[i]
      BY <1>5
    <2>2. f \in [1 .. m -> Nat]
      BY <1>2 DEF Places
    <2>3. f = e
      BY <2>1, <2>2
    <2>4. QED
      BY <1>4, <2>3
  <1>7. Placed(g, kind, rows)
    BY <1>6
  <1> HIDE DEF g
  <1>8. \A i \in 1 .. m : g[i] = AlignUp(IF i = 1 THEN c
                                    ELSE g[i - 1] + LengthOf(kind, rows, i - 1))
    BY <1>4, <1>7
  \* The places are determined.
  <1>9. \A i \in 1 .. m : g[i] = f[i]
    <2> DEFINE T == {i \in 1 .. m : g[i] # f[i]}
    <2> SUFFICES ASSUME T # {} PROVE FALSE
      OBVIOUS
    <2>1. T \subseteq Nat
      OBVIOUS
    <2> HIDE DEF T
    <2>2. PICK x \in T : \A y \in T : ~ (y < x)
      BY <2>1, LeastNatural
    <2>3. x \in 1 .. m /\ g[x] # f[x]
      BY <2>2 DEF T
    <2>4. x # 1
      BY <1>5, <1>8, <2>3
    <2>5. x - 1 \in 1 .. m /\ x - 1 < x
      BY <2>3, <2>4
    <2>6. g[x - 1] = f[x - 1]
      BY <2>2, <2>5 DEF T
    <2>7. g[x] = AlignUp(g[x - 1] + LengthOf(kind, rows, x - 1))
      BY <1>8, <2>3, <2>4
    <2>8. f[x] = AlignUp(f[x - 1] + LengthOf(kind, rows, x - 1))
      BY <1>5, <2>3, <2>4
    <2>9. QED
      BY <2>3, <2>6, <2>7, <2>8
  <1>10. f \in [1 .. m -> Nat] /\ 1 \in 1 .. m /\ m \in 1 .. m
    BY <1>2 DEF Places
  <1>11. f[1] \in 240 + 72 * m .. 240 + 72 * m + 63 /\ f[1] % 64 = 0
    <2>1. f[1] = AlignUp(c)
      BY <1>5, <1>10
    <2>2. QED
      BY <1>1, <2>1, AlignUpBounds DEF c
  <1>12. ASSUME NEW i \in 2 .. m
         PROVE  /\ f[i - 1] + LengthOf(kind, rows, i - 1) <= f[i]
                /\ f[i] <= f[i - 1] + LengthOf(kind, rows, i - 1) + 63
                /\ f[i] % 64 = 0
    <2>1. i \in 1 .. m /\ i - 1 \in 1 .. m /\ i # 1
      OBVIOUS
    <2>2. f[i] = AlignUp(f[i - 1] + LengthOf(kind, rows, i - 1))
      BY <1>5, <2>1
    <2>3. f[i - 1] \in Nat /\ LengthOf(kind, rows, i - 1) \in Nat
      BY <1>10, <2>1
    <2>4. f[i - 1] + LengthOf(kind, rows, i - 1) \in Nat
      BY <2>3
    <2>5. QED
      BY <2>2, <2>4, AlignUpBounds
  <1>13. \A identity : Encode(kind, rows, identity) = FileAt(f, kind, rows, identity)
    <2>1. f = g
      <3>1. g = [i \in 1 .. m |-> AlignUp(IF i = 1 THEN c
                                    ELSE g[i - 1] + LengthOf(kind, rows, i - 1))]
        BY <1>4, <1>7
      <3>2. DOMAIN g = 1 .. m /\ g = [i \in 1 .. m |-> g[i]]
        BY <3>1
      <3>3. f = [i \in 1 .. m |-> f[i]]
        BY <1>10
      <3>4. QED
        BY <1>9, <3>2, <3>3
    <2>2. QED
      BY <2>1, EncodeShape, Zenon DEF g
  <1>14. \A i \in 1 .. m : f[i] % 64 = 0
    BY <1>11, <1>12
  <1>15. QED
    BY <1>10, <1>11, <1>12, <1>13, <1>14 DEF LaidOut

\* The places of the sections ascend, with room for each.
LEMMA Ascend ==
    ASSUME NEW m \in Nat, NEW f \in [1 .. m -> Nat], NEW l \in [1 .. m -> Nat],
           \A i \in 2 .. m : f[i - 1] + l[i - 1] <= f[i]
    PROVE  \A i, j \in 1 .. m : i < j => f[i] + l[i] <= f[j]
  <1> DEFINE T == {j \in 1 .. m : \E i \in 1 .. m : i < j /\ ~ f[i] + l[i] <= f[j]}
  <1> SUFFICES ASSUME T # {} PROVE FALSE
    OBVIOUS
  <1>1. T \subseteq Nat
    OBVIOUS
  <1> HIDE DEF T
  <1>2. PICK j \in T : \A y \in T : ~ (y < j)
    BY <1>1, LeastNatural
  <1>3. j \in 1 .. m
    BY <1>2 DEF T
  <1>4. PICK i \in 1 .. m : i < j /\ ~ f[i] + l[i] <= f[j]
    BY <1>2 DEF T
  <1>5. j \in 2 .. m /\ j - 1 \in 1 .. m /\ f[j - 1] + l[j - 1] <= f[j]
    BY <1>3, <1>4
  <1>6. i # j - 1
    BY <1>4, <1>5
  <1>7. j - 1 \notin T /\ i < j - 1
    BY <1>2, <1>3, <1>4, <1>5, <1>6
  <1>8. f[i] + l[i] <= f[j - 1]
    BY <1>4, <1>5, <1>7 DEF T
  <1>9. /\ f[i] \in Nat /\ l[i] \in Nat /\ f[j] \in Nat
        /\ f[j - 1] \in Nat /\ l[j - 1] \in Nat
    BY <1>3, <1>4, <1>5
  <1>10. QED
    BY <1>4, <1>5, <1>8, <1>9

\* The data sections of a file are of different kinds, each with a length.
LEMMA KindFacts ==
    ASSUME NEW kind \in FileKinds
    PROVE  /\ Len(DataSections(kind)) \in {2, 6}
           /\ \A i \in 1 .. Len(DataSections(kind)) :
                 /\ DataSections(kind)[i] \in DataKinds
                 /\ DataSections(kind)[i] # "CrcTable"
           /\ \A i, j \in 1 .. Len(DataSections(kind)) :
                 i # j => DataSections(kind)[i] # DataSections(kind)[j]
           /\ Required(kind) = {DataSections(kind)[i] : i \in 1 .. Len(DataSections(kind))}
  <1>1. Required("Primary") \subseteq DataKinds /\ Required("Residual") \subseteq DataKinds
    BY DEF DataKinds
  <1>2. CASE kind = "Primary"
    <2>1. /\ DataSections(kind) = <<"IdsSequences", "RadiusFlags", "PrimaryDirectInt4",
               "Int4QuantizerTable", "PrimaryCertificate", "RefinedCertificate">>
      BY <1>2 DEF DataSections
    <2>2. Len(DataSections(kind)) = 6 /\ DOMAIN DataSections(kind) = 1 .. 6
      BY <2>1
    <2>3. Required(kind) = {DataSections(kind)[i] : i \in 1 .. 6}
      BY <2>2 DEF Required
    <2>4. \A i \in 1 .. 6 : DataSections(kind)[i] \in DataKinds
      BY <1>1, <1>2, <2>3
    <2>5. \A i \in 1 .. 6 : DataSections(kind)[i] # "CrcTable"
      BY <2>1
    <2>6. \A i, j \in 1 .. 6 : i # j => DataSections(kind)[i] # DataSections(kind)[j]
      BY <2>1
    <2>7. QED
      BY <2>2, <2>3, <2>4, <2>5, <2>6
  <1>3. CASE kind = "Residual"
    <2>1. DataSections(kind) = <<"Pq96Residual", "PqCodebook">>
      BY <1>3 DEF DataSections
    <2>2. Len(DataSections(kind)) = 2 /\ DOMAIN DataSections(kind) = 1 .. 2
      BY <2>1
    <2>3. Required(kind) = {DataSections(kind)[i] : i \in 1 .. 2}
      BY <2>2 DEF Required
    <2>4. \A i \in 1 .. 2 : DataSections(kind)[i] \in DataKinds
      BY <1>1, <1>3, <2>3
    <2>5. \A i \in 1 .. 2 : DataSections(kind)[i] # "CrcTable"
      BY <2>1
    <2>6. \A i, j \in 1 .. 2 : i # j => DataSections(kind)[i] # DataSections(kind)[j]
      BY <2>1
    <2>7. QED
      BY <2>2, <2>3, <2>4, <2>5, <2>6
  <1>4. QED
    BY <1>2, <1>3 DEF FileKinds

\* Every section has a length.
LEMMA LengthsAreNatural ==
    ASSUME NEW kind \in FileKinds, NEW rows \in Nat
    PROVE  \A i \in 1 .. 2 * Len(DataSections(kind)) : LengthOf(kind, rows, i) \in Nat
  <1>1. CASE kind = "Primary"
    <2> DEFINE l(i) == LengthOf("Primary", rows, i)
    <2>1. /\ Len(DataSections("Primary")) = 6
          /\ l(1) = rows * 40 /\ l(2) = rows * 4 /\ l(3) = CeilDiv(rows, 32) * 12288
          /\ l(4) = 49152 /\ l(5) = 40 /\ l(6) = 40
          /\ \A i \in 7 .. 12 : l(i) = CrcTableLen(l(i - 6))
      BY PrimaryLengths, SMT
    <2> HIDE DEF l
    <2>2. CeilDiv(rows, 32) \in Nat
      BY DEF CeilDiv
    <2>3. \A i \in 1 .. 6 : l(i) \in Nat
      <3>1. l(3) \in Nat
        BY <2>1, <2>2, SMT
      <3>2. /\ l(1) \in Nat /\ l(2) \in Nat /\ l(4) \in Nat
            /\ l(5) \in Nat /\ l(6) \in Nat
        BY <2>1, SMT
      <3>3. QED
        BY <3>1, <3>2
    <2>4. \A i \in 7 .. 12 : l(i) \in Nat
      <3>1. ASSUME NEW i \in 7 .. 12 PROVE l(i) \in Nat
        <4>1. i - 6 \in 1 .. 6
          OBVIOUS
        <4>2. QED
          BY <2>1, <2>3, <4>1, CrcTableBounds, SMT
      <3>2. QED
        BY <3>1
    <2>5. \A i \in 1 .. 12 : l(i) \in Nat
      BY <2>3, <2>4
    <2>6. \A i \in 1 .. 12 : LengthOf("Primary", rows, i) \in Nat
      BY <2>5 DEF l
    <2>7. 2 * Len(DataSections("Primary")) = 12
      BY DEF DataSections
    <2>8. QED
      BY <1>1, <2>6, <2>7
  <1>2. CASE kind = "Residual"
    <2> DEFINE l(i) == LengthOf("Residual", rows, i)
    <2>1. /\ Len(DataSections("Residual")) = 2
          /\ l(1) = rows * 96 /\ l(2) = 786432
          /\ \A i \in 3 .. 4 : l(i) = CrcTableLen(l(i - 2))
      BY ResidualLengths, SMT
    <2> HIDE DEF l
    <2>2. l(1) \in Nat /\ l(2) \in Nat
      BY <2>1, SMT
    <2>3. l(3) \in Nat /\ l(4) \in Nat
      BY <2>1, <2>2, CrcTableBounds, SMT
    <2>4. \A i \in 1 .. 4 : l(i) \in Nat
      BY <2>2, <2>3
    <2>5. \A i \in 1 .. 4 : LengthOf("Residual", rows, i) \in Nat
      BY <2>4 DEF l
    <2>6. 2 * Len(DataSections("Residual")) = 4
      BY DEF DataSections
    <2>7. QED
      BY <1>2, <2>5, <2>6
  <1>3. QED
    BY <1>1, <1>2 DEF FileKinds
===============================================================================
