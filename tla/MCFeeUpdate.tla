----------------------------- MODULE MCFeeUpdate -----------------------------
(* Both segments, and a rate of two values for each.                        *)
EXTENDS FeeUpdate

MCSegments == {"equity", "fno"}
=============================================================================
