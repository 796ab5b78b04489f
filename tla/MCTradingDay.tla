------------------------------ MODULE MCTradingDay ------------------------------
(* The instance TLC checks: two symbols that may both be open, two trading   *)
(* days, two process starts, one snapshot write lost since the last that     *)
(* succeeded, equity in two levels: a loss is a fall from the day's base, a  *)
(* target a rise above it.                                                   *)
EXTENDS TradingDay
CONSTANTS s1, s2
MCEquities == 0..1
=================================================================================
