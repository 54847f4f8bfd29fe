--------------------------- MODULE MCPortRegistry ---------------------------
(* Instances of PortRegistry for TLC. *)
EXTENDS PortRegistry, TLC

\* One DGS with two ports, the shape of portregistry_test.go.
OneServer == <<<<2, 4>>>>

Symmetry == Permutations(Clients)
=============================================================================
