---------------------------- MODULE MCEchoCalls ----------------------------
(* The instance of EchoCalls for TLC: the example client's three messages. *)
EXTENDS EchoCalls

CONSTANTS hello, world, bye

MCWords == <<hello, world, bye>>
=============================================================================
