---------------------------- MODULE MCMarketData ----------------------------
(* Two callers of one symbol's two-minute bars; the unit is one minute.    *)
EXTENDS MarketData

CONSTANTS c1, c2

MCCallers == {c1, c2}
=============================================================================
