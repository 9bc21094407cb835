----------------------- MODULE MCIndexStoreRefinement -----------------------
(* Rows are interchangeable to the store: symmetry over their payloads. *)
EXTENDS IndexStoreRefinement, TLC

Symmetry == Permutations(Vectors)
=============================================================================
