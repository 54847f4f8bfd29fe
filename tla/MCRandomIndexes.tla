-------------------------- MODULE MCRandomIndexes --------------------------
(* Instances of RandomIndexes for TLC. *)
EXTENDS RandomIndexes

\* All calls on collections of up to four DGSs.
AllCalls == {a \in (0..4) \X (0..4) : a[2] <= a[1]}
=============================================================================
