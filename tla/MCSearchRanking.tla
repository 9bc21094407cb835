-------------------------- MODULE MCSearchRanking --------------------------
(* One caller: every primary score of a small index, with a choice of       *)
(* options, against the exact answer.                                       *)
EXTENDS SearchPool

\* Two segments: tiles of rows {0, 1}, {2} and {3, 4}.
TwoSegments == <<3, 2>>
Magnitudes == [r \in 0 .. 4 |-> IF r = 2 THEN 0 ELSE 1 + (r % 2)]

\* The third row, when it is among the hits, fails a search of the last kind.
Options ==
    LET of(k, budget, excluded, uncertified) ==
            [k |-> k, budget |-> budget, excluded |-> excluded,
             uncertified |-> uncertified]
    IN  {of(1, 3, None, {}), of(2, None, 0, {}), of(1, 2, 0, {}),
         of(3, 7, 3, {}), of(4, None, None, {}), of(2, 1, None, {}),
         of(1, 1, 5, {}), of(1, 2, None, {2})}

Refined == [r \in 0 .. 4 |-> ((r * r) % 3) - (r \div 3)]

Searches ==
    {[k |-> o.k, budget |-> o.budget, excluded |-> o.excluded,
      valid |-> TRUE, prepares |-> TRUE, uncertified |-> o.uncertified,
      dot |-> d, primary |-> p, refined |-> Refined] :
         o \in Options, d \in BOOLEAN,
         p \in [0 .. 4 -> {-1, 0, 1}]}
=============================================================================
