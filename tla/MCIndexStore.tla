---------------------------- MODULE MCIndexStore ----------------------------
(* Symmetry of IndexStore's model values, for the runs without liveness. *)
EXTENDS IndexStore, TLC

Symmetry == Permutations(Builders)
=============================================================================
