---------------------------- MODULE MCSearchPool ----------------------------
(* Two callers share the pool: scans that panic, abandoned jobs, a full     *)
(* queue, and a pool dropped or never completed.                            *)
EXTENDS SearchPool, TLC

TwoSegments == <<2, 2>>
Magnitudes == [r \in 0 .. 3 |-> 1]

\* Rows 0 and 2 tie, in different jobs: the order of the replies could show.
Searches ==
    {[k |-> 1, budget |-> 1, excluded |-> 1, dot |-> FALSE,
      valid |-> v, prepares |-> p, uncertified |-> {},
      primary |-> [r \in 0 .. 3 |-> r % 2],
      refined |-> [r \in 0 .. 3 |-> 0]] : v \in BOOLEAN, p \in BOOLEAN}

Symmetry == Permutations(Callers) \cup Permutations(Workers)
=============================================================================
