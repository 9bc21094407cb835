------------------------------ MODULE DotProduct ------------------------------
(* The dot-product search of an opened index (spherra/dot_product.rs) over the *)
(* certified cosine of Certificate.tla: a row keeps the half-precision radius  *)
(* that ValidatedVector::new rounds its length to (spherra-domain/record.rs),  *)
(* and a hit gets an interval around the dot product of the original vectors,  *)
(* whose lengths are not 1. Which rows become hits is in SearchPool.tla. A     *)
(* length counts parts of the smallest half value, HalfUnit of them. The true  *)
(* product is exact here, so that the allowance for the long reductions, and   *)
(* the padding made of it, are left out.                                       *)
EXTENDS Certificate

CONSTANTS
    FractionBits,     \* of a half-precision number: 10 in the code
    LargestHalf,      \* the bits of the largest finite one
    HalfUnit,         \* the length of the smallest one
    MinNorm,          \* DEFAULT_MIN_NORM_EPSILON
    RowLengths,       \* the lengths rows are pushed with
    QueryScales       \* a query is its normalized vector that many times

ASSUME DotProductAssumption ==
    /\ FractionBits \in Nat /\ LargestHalf \in Nat /\ MinNorm \in Nat
    /\ HalfUnit \in Nat \ {0} /\ HalfUnit % 2 = 0
    /\ RowLengths \subseteq Nat /\ QueryScales \subseteq Nat \ {0}

VARIABLES
    hit,              \* the last dot-product hit
    refused           \* why the last vector was refused, or "ok"

dotVars == <<certificateVars, hit, refused>>

-------------------------------------------------------------------------------
(* magnitude_units: a subnormal counts its fraction, any other number its      *)
(* significand, shifted.                                                       *)
Fractions == PowerOf2[FractionBits]
MagnitudeUnits(bits) ==
    LET exponent == bits \div Fractions
        fraction == bits % Fractions
    IN  IF exponent = 0 THEN fraction ELSE (Fractions + fraction) * PowerOf2[exponent - 1]

(* to_f32. Past the largest half value this is the ideal next one, 65536 in    *)
(* the code, and not infinity.                                                 *)
HalfLength(bits) == HalfUnit * MagnitudeUnits(bits)

(* f16::from_f64: the nearest, the even one of two.                            *)
RadiusBits(length) ==
    LET apart(bits) == AbsInt(HalfLength(bits) - length)
    IN  CHOOSE bits \in 0..LargestHalf : \A other \in 0..LargestHalf \ {bits} :
            apart(bits) < apart(other) \/ (apart(bits) = apart(other) /\ bits % 2 = 0)

(* ValidatedVector::new, and validate of the builder: no infinite radius is    *)
(* stored, and no direction is taken from a vector too short to have one.      *)
VectorError(length) ==
    IF length > HalfLength(LargestHalf) THEN "NormExceedsFp16"
    ELSE IF length < MinNorm THEN "DirectionUnreliable" ELSE "ok"

(* Seeded fault: the stored radius is taken for the length itself.             *)
StoredLengthExact(bits) ==
    [lower |-> Max({0, NextDown(HalfLength(bits))}), upper |-> NextUp(HalfLength(bits))]

(* stored_length_interval: every length that rounds to these bits.             *)
StoredLengthInterval(bits) ==
    LET value == HalfLength(bits)
        previous == IF bits = 0 THEN 0 ELSE HalfLength(bits - 1)
        next == HalfLength(bits + 1)
    IN  [lower |-> Max({0, NextDown(Round((previous + value) \div 2))}),
         upper |-> NextUp(Round((value + next) \div 2))]

(* query_length: the square of a component is exact, each sum is rounded       *)
(* outward.                                                                    *)
QueryLengthInterval(components) ==
    LET down[c \in 0..Dimension] ==
            IF c = 0 THEN 0
            ELSE Max({0, NextDown(Round(down[c - 1] + components[c] * components[c]))})
        up[c \in 0..Dimension] ==
            IF c = 0 THEN 0 ELSE NextUp(Round(up[c - 1] + components[c] * components[c]))
    IN  [lower |-> Max({0, NextDown(Round(RoundedSqrt(down[Dimension])))}),
         upper |-> NextUp(Round(RoundedSqrt(up[Dimension])))]

(* multiply: the interval that a factor of either sign may flip.               *)
Multiply(a, b) ==
    LET products == {Round(x * y) : x \in {a.lower, a.upper}, y \in {b.lower, b.upper}}
    IN  [lower |-> NextDown(Min(products)), upper |-> NextUp(Max(products))]

DotInterval(cosine, bits, queryLength) ==
    Multiply(Multiply(cosine, StoredLengthInterval(bits)), queryLength)

-------------------------------------------------------------------------------
DotInit == CertificateInit /\ hit = None /\ refused = "ok"

(* search_dot_product for one hit, whose cosine interval was served. Until     *)
(* then the length of the row mattered to nothing, so that it is chosen here:  *)
(* the row is one that push accepted, and so is the query, which select        *)
(* validates in the same way before its norm is taken, with a length of scale  *)
(* smallest halves. An index serves no score a caller of the codec made; the   *)
(* behaviour ends with the answer.                                             *)
ServeDotProduct(length, scale) ==
    /\ interval # None /\ certified = None /\ hit = None /\ refused = "ok"
    /\ refused' = IF VectorError(length) # "ok" THEN VectorError(length)
                  ELSE VectorError(HalfUnit * scale)
    /\ LET bits == RadiusBits(length)
           components == [c \in Coordinates |-> scale * query.original[c]]
           served == DotInterval(interval.bounds, bits, QueryLengthInterval(components))
       IN  IF refused' # "ok" THEN UNCHANGED <<hit, outcome>>
           ELSE IF served.lower > served.upper
           THEN outcome' = "CertificateInvalid" /\ UNCHANGED hit
           ELSE /\ hit' = [block |-> interval.block, row |-> interval.row, length |-> length,
                           scale |-> scale, stored_magnitude |-> bits, interval |-> served]
                /\ outcome' = "ok"
    /\ UNCHANGED <<blocks, certificates, query, certified, interval>>

DotNext ==
    \/ hit = None /\ refused = "ok" /\ CertificateNext /\ UNCHANGED <<hit, refused>>
    \/ \E length \in RowLengths, scale \in QueryScales : ServeDotProduct(length, scale)

DotSpec == DotInit /\ [][DotNext]_dotVars

-------------------------------------------------------------------------------
(* The dot product of two vectors that went in: the length of the query is     *)
(* scale times One, whatever the search made of it.                            *)
DotTruth(row) == Truth(query, row) * hit.length * hit.scale * One

(* A hit of a dot-product search holds the dot product of the vectors that     *)
(* were stored and asked for, although only a rounded length was kept: at a    *)
(* tie between two halves, where the radius is stored as zero, at the largest  *)
(* half, and for a cosine that is negative or of either sign (dot_product.rs). *)
DotIntervalsHoldTruth ==
    /\ hit # None => \A row \in RowsOf(hit.block) : row.row = hit.row =>
           hit.interval.lower <= DotTruth(row) /\ DotTruth(row) <= hit.interval.upper
    /\ outcome # "CertificateInvalid"

===============================================================================
