----------------------------- MODULE MCSavepoints -----------------------------
(* The constants of Savepoints for TLC. *)
EXTENDS Savepoints

CONSTANTS a, b, c

MCRows == {a, b, c}
=============================================================================
