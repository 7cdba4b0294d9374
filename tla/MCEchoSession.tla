--------------------------- MODULE MCEchoSession ---------------------------
(* Instances of EchoSession for TLC. *)
EXTENDS EchoSession
=============================================================================
