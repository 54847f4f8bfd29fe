--------------------------- MODULE MCPortLifecycle ---------------------------
(***************************************************************************)
(* Instances of PortLifecycle for TLC, with host ports 1..3.  Container    *)
(* port 2 is in that range, as 22222 of the examples is in 20000..30000;   *)
(* 80 and 90 are not.                                                      *)
(***************************************************************************)
EXTENDS PortLifecycle

\* The shape of the example in docs/installation.md: one port, exposed.
OnePort == {[ports |-> <<2>>, expose |-> <<2>>]}

\* A sidecar whose port stays inside, listed before the game server's.
Sidecar == [ports |-> <<80, 2>>, expose |-> <<2>>]

\* A game server with two ports to expose, one of them in the range.
TwoShapes == {Sidecar, [ports |-> <<2, 80, 90>>, expose |-> <<2, 90>>]}
=============================================================================
