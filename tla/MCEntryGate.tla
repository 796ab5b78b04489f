---------------------------- MODULE MCEntryGate ----------------------------
(* The lineups of config.yaml's two segments, and one for each strategy of  *)
(* derivatives; two underlyings, options of two strikes.                    *)
EXTENDS EntryGate, TLC

Alone(strategy) == [enabled |-> <<strategy>>, slow |-> FALSE, minAgree |-> 1]

MCLineups ==
  {[enabled |-> <<"orb", "ema_supertrend">>, slow |-> TRUE, minAgree |-> 1],
   [enabled |-> <<"orb", "vwap_revert", "ema_supertrend">>, slow |-> FALSE, minAgree |-> 2],
   Alone("futures_trend"), Alone("option_buy_directional"),
   Alone("credit_spread"), Alone("iron_condor")}

(* The underlyings are alike. *)
MCSymmetry == Permutations(Watch)
=============================================================================
