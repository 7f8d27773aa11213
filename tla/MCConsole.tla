------------------------------ MODULE MCConsole ------------------------------
(* A small instance of Console for TLC. *)
EXTENDS Console

MCKnown == {0, 1}
\* At rest, to one side, and up: with two rooms the sides are alike.
MCPositions == {<<0, 0>>, <<1, 0>>, <<0, -1>>}
=============================================================================
