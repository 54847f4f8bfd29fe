---------------------------- MODULE MCWorkQueue ----------------------------
(* Instances of WorkQueue for TLC. *)
EXTENDS WorkQueue, TLC

Symmetry == Permutations(Keys) \cup Permutations(Workers)
=============================================================================
