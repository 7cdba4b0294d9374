--------------------------- MODULE MCInputHandler ---------------------------
(* Instances of InputHandler for TLC. *)
EXTENDS InputHandler
=============================================================================
