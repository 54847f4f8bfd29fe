-------------------------- MODULE MCDGSController --------------------------
(* Instances of DGSController for TLC. *)
EXTENDS DGSController, TLC

\* Posts of a game server that never fails and never asks for its own deletion.
PlayersOnly == {[players |-> 0], [players |-> 1]}

\* Posts that concern the deletion.
PlayersAndMark == {[players |-> 0], [players |-> 1], [marked |-> TRUE]}

Symmetry == Permutations(Pods) \cup Permutations(Handlers)
=============================================================================
