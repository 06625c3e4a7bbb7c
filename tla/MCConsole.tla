------------------------------- MODULE MCConsole -------------------------------
(* Instances of Console for TLC. *)
EXTENDS Console, TLC

CONSTANTS p1, p2
TwoPages == {p1, p2}
=============================================================================
