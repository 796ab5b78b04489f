----------------------------- MODULE EntryGate -----------------------------
(***************************************************************************)
(* The last gate before an order (RiskManager.evaluate, bot/risk.py): the   *)
(* size of a position, the edge it must have over the fees (bot/fees.py),   *)
(* and the risk of the day it leaves.                                       *)
(*                                                                         *)
(* A position is what it loses at its stop and gains at its target by the   *)
(* prices of its signal; what an order costs beyond its price, slippage and *)
(* fees, is a toll.  A size is a share of the configured capital, the loss  *)
(* and the profit of the day are shares of the equity the day began with:   *)
(* a process that runs on carries the results of earlier days.  How the     *)
(* baseline is kept, the locks and the kill file are in TradingDay, fills   *)
(* and cash in PaperBroker: here every signal of EntryRules may come with   *)
(* any cash.                                                                *)
(***************************************************************************)
EXTENDS EntryRules, FiniteSets

CONSTANTS
  Lineups,      \* configurations of the strategies
  Watch,        \* the watchlist
  Strikes,      \* strikes a derivative of one underlying may have
  Capital,      \* capital.total
  PerTradePct,  \* max_loss_per_trade_pct
  DailyCapPct,  \* max_daily_loss_pct
  Targets,      \* values of daily_profit_target_pct, 0 for none
  Equities,     \* equities a day may begin with
  Tolls,        \* what an order may cost beyond its price
  MaxToll,      \* the most of it
  PositionCap,  \* max_position_pct of the capital
  OpenCap,      \* max_open_positions
  TradesPerDay, \* max_trades_per_day
  Cash,         \* cash there may be
  Lot,          \* lot of a derivative
  MarginPct,    \* margin of a future
  FeePct        \* max_fee_pct_of_gross

(* _verify_risk_invariants: no risk manager is made otherwise.  It compares *)
(* percentages; of what they are taken is another matter.                   *)
ASSUME CapsAssumption ==
  /\ Capital \in Nat /\ PerTradePct \in Nat /\ DailyCapPct \in Nat /\ OpenCap \in Nat
  /\ PerTradePct * OpenCap <= DailyCapPct

(* One of these on derivatives, or any that quote the underlying itself: an *)
(* ensemble merges levels, so its strategies have to speak of one price.    *)
RideStrategies == {"orb", "vwap_revert", "ema_supertrend", "futures_trend"}
DerivativeStrategies == {"option_buy_directional", "credit_spread", "iron_condor"}

ASSUME GateAssumption ==
  /\ \A lineup \in Lineups :
       /\ lineup.enabled \in Seq(RideStrategies \cup DerivativeStrategies)
       /\ lineup.minAgree \in Nat \ {0} /\ lineup.slow \in BOOLEAN
       /\ \/ Len(lineup.enabled) = 1
          \/ \A i \in 1..Len(lineup.enabled) : lineup.enabled[i] \in RideStrategies
  /\ Targets \subseteq Nat /\ Equities \subseteq Nat
  /\ MaxToll \in Nat /\ Tolls \subseteq 0..MaxToll
  /\ Cash \subseteq Nat /\ {PositionCap, MarginPct, FeePct} \subseteq Nat
  /\ Lot \in Nat \ {0} /\ (Spot * MarginPct) \div 100 > 0

VARIABLES
  offers,   \* the signals the strategies of this process may give
  began,    \* equity the day began with
  target,   \* the profit target
  book,     \* [symbol -> what the position risks and may gain], of those open
  realized, \* profit of the day's closed positions, less the tolls
  trades,   \* entries of the day
  hidden,   \* what counted as unrealised profit at the last entry, 0 for a loss
  order     \* history: the last decision, until the next exit

config == <<offers, began, target>>
gate == <<config, book, realized, trades, hidden, order>>

Symbol(w, strike, kind) == <<w, IF kind \in {"cash", "future"} THEN 1 ELSE strike>>
NoBook == [p \in {} |-> [risk |-> 0, gain |-> 0, notional |-> 0]]
NoOrder == [signal |-> Hold, qty |-> 0, cash |-> 0]
-----------------------------------------------------------------------------
(* Charges, in millionths *)

Rates(kind) ==
  CASE kind = "cash"   -> [stt |-> 250, exchange |-> 31, sebi |-> 1, stamp |-> 30]
    [] kind = "future" -> [stt |-> 500, exchange |-> 18, sebi |-> 1, stamp |-> 20]
    [] kind = "option" -> [stt |-> 1500, exchange |-> 355, sebi |-> 1, stamp |-> 30]

Brokerage(kind, turnover) ==
  IF kind = "cash" THEN Min({20000000, 300 * turnover}) ELSE 20000000

Charges(kind, side, turnover) ==
  LET r == Rates(kind)
      charged == Brokerage(kind, turnover) + (r.exchange + r.sebi) * turnover
      levy == IF side = "SELL" THEN r.stt ELSE r.stamp
  IN  charged + levy * turnover + 18 * (charged \div 100)

RoundTrip(s, qty) ==
  LET opposite == IF s.side = "BUY" THEN "SELL" ELSE "BUY"
  IN  Charges(s.kind, s.side, qty * s.price) + Charges(s.kind, opposite, qty * s.tp)

GrossPerShare(s) == IF s.side = "BUY" THEN s.tp - s.price ELSE s.price - s.tp

(* Spreads and condors are not asked; a target that is none, or on the      *)
(* wrong side, passes.                                                      *)
TooDear(s, qty) ==
  /\ s.kind \in {"cash", "future", "option"}
  /\ s.tp # NoLevel /\ s.tp > 0 /\ GrossPerShare(s) > 0
  /\ (RoundTrip(s, qty) + 9999) \div 10000 > FeePct * GrossPerShare(s) * qty
-----------------------------------------------------------------------------
(* The size *)

Credit(s) == s.kind \in {"spread", "condor"}
LotOf(s) == IF s.kind = "cash" THEN 1 ELSE Lot
Abs(n) == IF n < 0 THEN -n ELSE n
PerTrade == (Capital * PerTradePct) \div 100
RiskPerShare(s) == Abs(s.price - s.sl)

(* What a share of the position ties up, and what it takes from the cash.   *)
(* A credit spread's worst loss is vertical_spread_max_loss.                *)
Outlay(s) ==
  CASE Credit(s) -> Wing - s.price
    [] s.kind = "future" -> (s.price * MarginPct) \div 100
    [] OTHER -> s.price

CashPerShare(s) == IF Credit(s) THEN Outlay(s) - s.price ELSE Outlay(s)

CapsOfRisk(s, cash) ==
  {PerTrade \div RiskPerShare(s)}
    \cup (IF CashPerShare(s) > 0 THEN {cash \div CashPerShare(s)} ELSE {})

Caps(s, cash) ==
  {PerTrade \div RiskPerShare(s), PositionCap \div Outlay(s)}
    \cup (IF CashPerShare(s) > 0 THEN {cash \div CashPerShare(s)} ELSE {})

SizeRoundedUp(s, cash) ==
  ((Min(Caps(s, cash)) + LotOf(s) - 1) \div LotOf(s)) * LotOf(s)

Size(s, cash) == (Min(Caps(s, cash)) \div LotOf(s)) * LotOf(s)

Sizeable(s) ==
  /\ s.side # "HOLD" /\ s.sl # NoLevel /\ s.price > 0 /\ RiskPerShare(s) > 0
  /\ Credit(s) => s.price < Wing

OpenRisk == FoldSet(LAMBDA p, sum : book[p].risk + sum, 0, DOMAIN book)
OpenGain == FoldSet(LAMBDA p, sum : book[p].gain + sum, 0, DOMAIN book)

OpenNotional == FoldSet(LAMBDA p, sum : book[p].notional + sum, 0, DOMAIN book)

(* The unrealised profit: at worst every stop, at best every target.        *)
Unrealised == {-OpenRisk, 0, OpenGain}

(* The equity adds a long future's price though only its margin was paid.   *)
CountedFor(s) == IF s.kind = "future" /\ s.side = "BUY" THEN s.price ELSE 0
Seen(u) == u + OpenNotional

Divisor == IF began < 1 THEN 1 ELSE began
AtTarget(u) == target > 0 /\ 100 * (realized + u) >= target * Divisor

HaltedByTarget(u) == AtTarget(u)

Halted(u) == 100 * (realized + u) <= -(DailyCapPct * Divisor) \/ AtTarget(u)

Evaluate(s, symbol, cash, u) ==
  /\ ~Halted(u)
  /\ trades < TradesPerDay
  /\ Cardinality(DOMAIN book) < OpenCap
  /\ symbol \notin DOMAIN book
  /\ Sizeable(s)
  /\ Size(s, cash) >= LotOf(s)
  /\ ~TooDear(s, Size(s, cash))
-----------------------------------------------------------------------------
GateInit ==
  /\ \E lineup \in Lineups : offers = Ballots(lineup)
  /\ began \in Equities /\ target \in Targets
  /\ book = NoBook /\ realized = 0 /\ trades = 0 /\ hidden = 0
  /\ order = NoOrder

With(symbol, position) ==
  [p \in DOMAIN book \cup {symbol} |-> IF p = symbol THEN position ELSE book[p]]

PositionOf(s, qty) ==
  [risk |-> qty * RiskPerShare(s), gain |-> qty * GrossPerShare(s), notional |-> qty * CountedFor(s)]

OpenPosition ==
  \E w \in Watch, strike \in Strikes, s \in offers, cash \in Cash, u \in Unrealised, toll \in Tolls :
    LET symbol == Symbol(w, strike, s.kind)
        qty == Size(s, cash)
    IN  /\ Evaluate(s, symbol, cash, Seen(u))
        /\ book' = With(symbol, PositionOf(s, qty))
        /\ realized' = realized - toll
        /\ trades' = trades + 1
        /\ hidden' = Max({Seen(u), 0})
        /\ order' = [signal |-> s, qty |-> qty, cash |-> cash]
        /\ UNCHANGED config

Without(symbol) == [p \in DOMAIN book \ {symbol} |-> book[p]]

Exit(symbol, profit) ==
  /\ \E toll \in Tolls : realized' = realized + profit - toll
  /\ book' = Without(symbol)
  /\ order' = NoOrder
  /\ UNCHANGED <<config, trades, hidden>>

Stopped == \E symbol \in DOMAIN book : Exit(symbol, -book[symbol].risk)

OnTarget == \E symbol \in DOMAIN book : Exit(symbol, book[symbol].gain)

(* The loss or the profit of the day closes what is open, wherever it is;   *)
(* what was only counted as profit is not realised.                         *)
Sweep ==
  \E u \in Unrealised, toll \in Tolls :
    /\ Halted(Seen(u)) /\ book # NoBook
    /\ realized' = realized + u - toll * Cardinality(DOMAIN book)
    /\ book' = NoBook /\ order' = NoOrder
    /\ UNCHANGED <<config, trades, hidden>>

GateNext == OpenPosition \/ Stopped \/ OnTarget \/ Sweep

GateSpec == GateInit /\ [][GateNext]_gate
-----------------------------------------------------------------------------
(* An order that passes has its stop and its target on the right sides of   *)
(* its price, whatever the strategies saw and the ensemble made of it.      *)
OrdersAreCoherent ==
  LET s == order.signal
  IN  CASE s.side = "BUY"  -> s.sl < s.price /\ s.price < s.tp
        [] s.side = "SELL" -> s.tp < s.price /\ s.price < s.sl
        [] s.side = "HOLD" -> order = NoOrder

(* The size is the largest number of whole lots that loses no more than the *)
(* risk per trade at its stop, ties up no more than a position may, and can *)
(* be paid.                                                                 *)
LargestSize ==
  LET s == order.signal
      Fits(n) == /\ n % LotOf(s) = 0
                 /\ n * RiskPerShare(s) <= PerTrade
                 /\ n * Outlay(s) <= PositionCap
                 /\ n * CashPerShare(s) <= order.cash
  IN  order # NoOrder =>
        /\ order.qty > 0 /\ Fits(order.qty)
        /\ \A more \in 1..LotOf(s) : ~Fits(order.qty + more)

(* If every stop is hit at once, at the price of the signal, the open       *)
(* positions lose no more than the daily percentage of the configured       *)
(* capital (_verify_risk_invariants): slippage and fees come on top, and of *)
(* the equity the day began with it may be more.                            *)
OpenRiskWithinDailyCap == 100 * OpenRisk <= DailyCapPct * Capital

(* The gate counts unrealised profit against realised loss, and it divides  *)
(* by the equity the day began with where a size is a share of the capital: *)
(* the day may lose the percentage of the first, once more that of the      *)
(* second at the stops, what counted as unrealised profit when the last     *)
(* position was opened, a long future's price included, and a toll for each *)
(* open position, one to close it and one more for the last entry; never    *)
(* more as long as a stop is filled at its price less the toll.             *)
DayLossBounded ==
  100 * (OpenRisk + Cardinality(DOMAIN book) * MaxToll - realized)
    < DailyCapPct * (Divisor + Capital) + 100 * (hidden + (OpenCap + 1) * MaxToll)
=============================================================================
