----------------------------- MODULE EntryRules -----------------------------
(***************************************************************************)
(* What the strategies (bot/strategies) may propose, and how the ensemble   *)
(* makes one signal of it.                                                  *)
(*                                                                         *)
(* An indicator is abstracted to what the strategy compares: the price is   *)
(* above a line or below it, an average crossed another in the bars looked  *)
(* at.  A view is what one strategy sees, and every combination of views is *)
(* allowed.  Prices are whole numbers; an average true range of 0 stands    *)
(* for one that is not known.  Of the Black-Scholes premiums only what      *)
(* holds for any is kept: a premium does not fall as the price of the       *)
(* underlying moves its way.                                                *)
(***************************************************************************)
EXTENDS Integers, Sequences, FiniteSetsExt

CONSTANTS
  Spot,          \* the price of the underlying
  Bars,          \* lengths of the history a strategy is given
  Ranges,        \* average true ranges, 0 for none
  SlMult, TpMult,\* levels of a trend, in true ranges
  Premiums,      \* premiums of an option
  Credits,       \* net premiums of a spread or an iron condor
  Wing,          \* between the strikes of a spread, or of the wider wing
  FloorPct,      \* min_sl_premium_pct
  LockPct,       \* profit_lock_pct
  StopPct,       \* sl_max_loss_pct
  NoLevel        \* no level

(* Half a percent of the price is at least a unit of it.  A short's target  *)
(* is not nothing: a level of exactly 0 is taken for none.                  *)
ASSUME MarketAssumption ==
  /\ Spot \in Nat /\ Spot >= 200
  /\ {SlMult, TpMult} \subseteq Nat \ {0}
  /\ Ranges \subseteq Nat /\ Premiums \subseteq Nat /\ Credits \subseteq Nat
  /\ {Wing, FloorPct, LockPct, StopPct} \subseteq Nat
  /\ \A atr \in Ranges \cup {Spot \div 200} : TpMult * atr # Spot
  /\ \A credit \in Credits \ {0} : (credit * (100 - LockPct)) \div 100 # 0
  /\ NoLevel \notin Int

Hold == [side |-> "HOLD", kind |-> "none", price |-> Spot, sl |-> NoLevel, tp |-> NoLevel]
Where == {"above", "level", "below"}
-----------------------------------------------------------------------------
(* Levels and sides *)

AtrLevels(long, price, atr) ==
  LET a == IF atr > 0 THEN atr ELSE price \div 200
  IN  IF long THEN [sl |-> price - SlMult * a, tp |-> price + TpMult * a]
      ELSE [sl |-> price + SlMult * a, tp |-> price - TpMult * a]

(* A signal on the underlying itself: a share or its future.                *)
Ride(side, kind, atr) ==
  LET levels == AtrLevels(side = "BUY", Spot, atr)
  IN  IF side = "HOLD" THEN Hold
      ELSE [side |-> side, kind |-> kind, price |-> Spot, sl |-> levels.sl, tp |-> levels.tp]

(* Opening range: where the price is of it, and whether the time for        *)
(* entries is over.                                                         *)
OrbViews == [range : Where \cup {"none"}, late : BOOLEAN]

Orb(bars, v, atr) ==
  Ride(CASE bars < 5 \/ v.range = "none" \/ v.late -> "HOLD"
         [] v.range = "above" -> "BUY"
         [] v.range = "below" -> "SELL"
         [] OTHER -> "HOLD", "cash", atr)

(* The fast average against the slow one and the direction of Supertrend,   *)
(* on the last bar and on the one before.                                   *)
EmaViews == [fast : Where, was : Where, dir : {1, -1}, wasDir : {1, -1}]

EmaSupertrend(bars, v, atr) ==
  Ride(CASE bars < 26 -> "HOLD"
         [] v.fast = "above" /\ v.dir = 1 /\ (v.was # "above" \/ v.wasDir # v.dir) -> "BUY"
         [] v.fast = "below" /\ v.dir = -1 /\ (v.was # "below" \/ v.wasDir # v.dir) -> "SELL"
         [] OTHER -> "HOLD", "cash", atr)

(* The price against the band about VWAP; an index that is not known counts *)
(* as in the middle.                                                        *)
VwapViews == [band : Where, rsi : {"low", "middle", "high"}]

VwapRevert(bars, v, atr) ==
  Ride(CASE bars < 20 -> "HOLD"
         [] v.band = "below" /\ v.rsi = "low" -> "BUY"
         [] v.band = "above" /\ v.rsi = "high" -> "SELL"
         [] OTHER -> "HOLD", "cash", atr)

(* The crosses in the bars looked back at (there may be both), the price    *)
(* against the fast average, and the fast one against the slow.             *)
TrendViews == [crosses : SUBSET {"up", "down"}, price : Where, fast : Where]

Trend(bars, v) ==
  CASE bars < 56 -> "HOLD"
    [] "up" \in v.crosses /\ v.price = "above" /\ v.fast = "above" -> "BUY"
    [] "down" \in v.crosses /\ v.price = "below" /\ v.fast = "below" -> "SELL"
    [] OTHER -> "HOLD"

FuturesTrend(bars, v, atr) == Ride(Trend(bars, v), "future", atr)
-----------------------------------------------------------------------------
(* Options *)

(* The quotes of NSE differ too much, the market is too calm, the index and *)
(* the price's place in the Bollinger band; what is not known stops nothing.*)
Checks == [nse : {"agrees", "differs"}, calm : BOOLEAN,
           rsi : {"low", "middle", "high"}, band : {"low", "middle", "high"}]

Filtered(side, c) ==
  \/ c.nse = "differs" \/ c.calm
  \/ side = "BUY" /\ "high" \in {c.rsi, c.band}
  \/ side = "SELL" /\ "low" \in {c.rsi, c.band}

(* The premium now, and where the underlying is at its stop and target.     *)
Quotes == {q \in [stop : Premiums, now : Premiums, target : Premiums] :
             q.stop <= q.now /\ q.now <= q.target}

(* A call or a put is bought, always; its levels are premiums.              *)
LongOptionUnchecked(q) ==
  IF q.now > 0
  THEN [side |-> "BUY", kind |-> "option", price |-> q.now,
        sl |-> Max({q.stop, (q.now * FloorPct) \div 100}), tp |-> q.target]
  ELSE Hold

LongOption(q) ==
  LET sl == Max({q.stop, (q.now * FloorPct) \div 100})
  IN  IF q.now > 0 /\ sl < q.now /\ q.now < q.target
      THEN [side |-> "BUY", kind |-> "option", price |-> q.now, sl |-> sl, tp |-> q.target]
      ELSE Hold

OptionBuy(bars, v, c, q) ==
  LET side == Trend(bars, v)
  IN  IF side = "HOLD" \/ Filtered(side, c) THEN Hold ELSE LongOption(q)

(* A spread is sold for a credit; its levels are net premiums.              *)
ShortSpread(kind, credit) ==
  LET loss == Wing - credit
      tp == (credit * (100 - LockPct)) \div 100
      sl == credit + (loss * StopPct) \div 100
  IN  IF credit > 0 /\ loss > 0 /\ tp < credit /\ credit < sl
      THEN [side |-> "SELL", kind |-> kind, price |-> credit, sl |-> sl, tp |-> tp]
      ELSE Hold

CreditSpread(bars, v, credit) ==
  IF Trend(bars, v) = "HOLD" THEN Hold ELSE ShortSpread("spread", credit)

IronCondor(bars, flat, credit) ==
  IF bars < 52 \/ ~flat THEN Hold ELSE ShortSpread("condor", credit)
-----------------------------------------------------------------------------
(* The ensemble *)

(* The slower frame: bars, the price and the fast average against the slow. *)
SlowViews == [bars : Bars, price : Where, fast : Where]

Confirms(v, side) ==
  LET agreeing == IF side = "BUY" THEN "above" ELSE "below"
  IN  v.bars >= 25 /\ v.price = agreeing /\ v.fast = agreeing

MultiTimeframe(sig, v) == IF Confirms(v, sig.side) THEN sig ELSE Hold

(* A level of 0 counts as none.                                             *)
Given(levels) == levels \ {0, NoLevel}

Merge(sigs, voters, side) ==
  LET first == sigs[Min(voters)]
      sls == Given({sigs[i].sl : i \in voters})
      tps == Given({sigs[i].tp : i \in voters})
  IN  [side |-> side, kind |-> first.kind, price |-> first.price,
       sl |-> IF sls = {} THEN NoLevel ELSE IF side = "BUY" THEN Max(sls) ELSE Min(sls),
       tp |-> IF tps = {} THEN NoLevel ELSE IF side = "BUY" THEN Min(tps) ELSE Max(tps)]

Voters(sigs, side) == {i \in DOMAIN sigs : sigs[i].side = side}

Ensemble(sigs, minAgree) ==
  LET buys == Voters(sigs, "BUY")
      sells == Voters(sigs, "SELL")
  IN  CASE Cardinality(buys) >= minAgree /\ sells = {} -> Merge(sigs, buys, "BUY")
        [] Cardinality(sells) >= minAgree /\ buys = {} -> Merge(sigs, sells, "SELL")
        [] OTHER -> Hold

(* The signals a strategy may give on a history of so many bars and of a    *)
(* range.                                                                   *)
Signals(strategy, bars, atr) ==
  CASE strategy = "orb"            -> {Orb(bars, v, atr) : v \in OrbViews}
    [] strategy = "vwap_revert"    -> {VwapRevert(bars, v, atr) : v \in VwapViews}
    [] strategy = "ema_supertrend" -> {EmaSupertrend(bars, v, atr) : v \in EmaViews}
    [] strategy = "futures_trend"  -> {FuturesTrend(bars, v, atr) : v \in TrendViews}
    [] strategy = "option_buy_directional" ->
         {OptionBuy(bars, v, c, q) : v \in TrendViews, c \in Checks, q \in Quotes}
    [] strategy = "credit_spread"  -> {CreditSpread(bars, v, w) : v \in TrendViews, w \in Credits}
    [] strategy = "iron_condor"    -> {IronCondor(bars, f, w) : f \in BOOLEAN, w \in Credits}

(* A lineup is the list of the strategies that are enabled, whether they    *)
(* are wrapped in the check of the slower frame, and how many must agree.   *)
Voices(lineup, bars, atr) ==
  [i \in 1..Len(lineup.enabled) |->
     LET own == Signals(lineup.enabled[i], bars, atr)
     IN  IF lineup.slow THEN {MultiTimeframe(s, v) : s \in own, v \in SlowViews} ELSE own]

VotesOf(sets) ==
  {f \in [DOMAIN sets -> UNION {sets[i] : i \in DOMAIN sets}] :
     \A i \in DOMAIN sets : f[i] \in sets[i]}

Ballots(lineup) ==
  UNION {{Ensemble(votes, lineup.minAgree) : votes \in VotesOf(Voices(lineup, bars, atr))}
         : bars \in Bars, atr \in Ranges}
=============================================================================
