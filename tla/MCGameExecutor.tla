--------------------------- MODULE MCGameExecutor ---------------------------
(* Instances of GameExecutor for TLC. *)
EXTENDS GameExecutor

CONSTANTS j1, j2, w1, w2
=============================================================================
