---------------------------- MODULE MCCharacter ----------------------------
(* Instances of Character for TLC, with up to three calls. *)
EXTENDS Character

CONSTANTS c1, c2, c3
=============================================================================
