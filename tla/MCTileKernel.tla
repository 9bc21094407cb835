---------------------------- MODULE MCTileKernel ----------------------------
(***************************************************************************)
(* Queries whose products lie on both sides of each bound, and segments    *)
(* that end with an odd lane, with a full tile and with one row in a tile. *)
(***************************************************************************)
EXTENDS TileKernel

CONSTANT RowCounts

\* Products in halves of a unit: of code 0, of the codes above it, and of
\* the residual codes.
Zeros == {-42, -20, -7, 0, 5, 8, 21}
Others == {-20, -8, 0, 6, 7, 20}
Residuals == {-20, 3, 30}

\* Code 0 of every coordinate has one product, the codes above it another,
\* which the odd coordinates negate.
Product(c, k, zero, other) ==
    IF k = 0 THEN zero ELSE IF c % 2 = 0 THEN other ELSE - other

MCProducts ==
    {[primary |-> [c \in Coordinates |-> [k \in Codes |-> Product(c, k, zero, other)]],
      residual |-> [s \in Subs |-> [k \in Bytes |-> IF k = 0 THEN res ELSE - res]]] :
        zero \in Zeros, other \in Others, res \in Residuals}

\* The rows of a segment go through codes with each nibble zero and not.
Patterns == <<0, 16, 15, 241, 1>>

MCSegments ==
    {[rows |-> rows,
      codes |-> [n \in 0 .. rows - 1 |->
                   [b \in 0 .. Dimension \div 2 - 1 |-> Patterns[((n + b) % 5) + 1]]],
      residuals |-> [n \in 0 .. rows - 1 |-> [s \in Subs |-> n \div 32]]] :
        rows \in RowCounts}
=============================================================================
