-------------------------- MODULE MCPositionStore --------------------------
(* An instance of PositionStore for TLC. *)
EXTENDS PositionStore

\* A fast position, and a slow one that may fail.
Times == [x \in Position |-> IF x = "a" THEN {3} ELSE {5, MAX}]
=============================================================================
