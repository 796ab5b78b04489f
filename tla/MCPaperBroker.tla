----------------------------- MODULE MCPaperBroker -----------------------------
(* Two symbols of either segment and two prices, below a spread's width of 4. *)
EXTENDS Journal, TLC
CONSTANTS s1, s2
MCSymbols == {s1, s2}
MCSymmetry == Permutations(MCSymbols)
MCSegments == {{"equity"}, {"futures", "option", "spread"}}
MCFuturesMargin == [p \in Prices |-> (p + 1) \div 2]
===============================================================================
