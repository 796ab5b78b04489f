----------------------------- MODULE MCFeeAudit -----------------------------
(* Two days; the STT of futures rises by less than twice the tolerance, the *)
(* one of options by half.  A mistaken value is between the old and the new *)
(* rate of futures, or the right one of another column.                     *)
EXTENDS FeeAudit

MCLaw(r, d) ==
  CASE r = "equity" -> 250 [] r = "gst" -> 180
    [] r = "futures" -> 200 + 2 * (d - 1) [] r = "options" -> 500 + 500 * (d - 1)
=============================================================================
