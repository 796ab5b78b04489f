----------------------------- MODULE MCTrailStop -----------------------------
(* Positions in up to two symbols; prices in quarters of a paisa.           *)
EXTENDS TrailStop, TLC

MCSymmetry == Permutations(Symbols)
===============================================================================
