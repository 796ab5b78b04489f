---------------------------- MODULE MCLiveBroker ----------------------------
(* Two symbols, one open position allowed, two entries of each.             *)
EXTENDS LiveBroker

CONSTANTS s1, s2

MCSymbols == {s1, s2}
=============================================================================
