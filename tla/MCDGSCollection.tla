-------------------------- MODULE MCDGSCollection --------------------------
(* Instances of DGSCollection for TLC. *)
EXTENDS DGSCollection, TLC

\* Names are interchangeable as long as Existing is all of them or none.
Symmetry == Permutations(Names)
=============================================================================
