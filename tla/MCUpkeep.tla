------------------------------- MODULE MCUpkeep -------------------------------
(* Ages up to four minutes, one over the limit of every check.              *)
EXTENDS Upkeep
=============================================================================
