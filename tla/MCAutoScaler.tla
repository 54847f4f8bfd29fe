---------------------------- MODULE MCAutoScaler ----------------------------
(* Instances of AutoScaler for TLC. *)
EXTENDS AutoScaler
=============================================================================
