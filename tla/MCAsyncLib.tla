----------------------------- MODULE MCAsyncLib -----------------------------
(* Instances of AsyncLib for TLC; the .cfg files choose which threads poll   *)
(* the completion queue and which ones spawn tasks.                          *)
EXTENDS AsyncLibInvariant
=============================================================================
