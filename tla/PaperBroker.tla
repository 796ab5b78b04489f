------------------------------ MODULE PaperBroker ------------------------------
(***************************************************************************)
(* The cash, margin and cost-basis accounting of the paper broker          *)
(* (bot/broker/paper.py, place_order) and the equity the risk manager      *)
(* computes from it (bot/risk.py, _equity).  Each instrument kind has a    *)
(* cash-flow model of its own; all of them implement one Ledger.           *)
(*                                                                         *)
(* A position keeps its cost basis, avg_price * |qty|, instead of its      *)
(* average.  An iron condor is booked like a spread whose width is its     *)
(* wider wing.  Fills are at any price: slippage is part of the choice.    *)
(***************************************************************************)
EXTENDS Integers, FiniteSets, FiniteSetsExt

CONSTANTS
    Symbols,        \* tradeable symbols
    Segments,       \* the kinds each segment trades; a broker serves one
    Start,          \* the segment's capital
    Prices,         \* prices, or premiums, of a unit
    Fees,           \* fees of an order (bot/fees.py)
    FuturesMargin,  \* margin of a unit of futures at each price
    Width,          \* distance of a spread's strikes
    MaxQty,         \* bound: units per order
    MaxHeld,        \* bound: units per position
    MaxFills        \* bound: orders filled

Kinds == {"equity", "futures", "option", "spread"}

ASSUME BrokerAssumption ==
    /\ IsFiniteSet(Symbols)
    /\ Segments \subseteq SUBSET Kinds
    /\ Start \in Nat /\ Width \in Nat
    /\ MaxQty \in Nat /\ MaxHeld \in Nat /\ MaxFills \in Nat
    /\ Prices \subseteq Nat \ {0} /\ Fees \subseteq Nat
    /\ FuturesMargin \in [Prices -> Nat]

VARIABLES
    kind,       \* what each symbol is
    cash,       \* PaperBroker._cash
    pos,        \* PaperBroker._positions
    marks,      \* PaperBroker._marks (0: none)
    flow,       \* history: what each symbol's orders have done to the cash
    fills       \* history: orders filled

vars == <<kind, cash, pos, marks, flow, fills>>

NoPosition == [qty |-> 0, basis |-> 0, margin |-> 0]
Magnitude(q) == IF q < 0 THEN -q ELSE q

Positions == [qty : Int, basis : Nat, margin : Nat]

\* What a position of kind k may look like.
Fits(k, p) ==
    /\ p.qty = 0 => p = NoPosition
    /\ k \in {"equity", "option"} => p.margin = 0
    /\ k = "option" => p.qty >= 0
    /\ k = "spread" => p.qty <= 0

TypeOK ==
    /\ kind \in [Symbols -> Kinds]
    /\ cash \in Int
    /\ pos \in [Symbols -> Positions]
    /\ marks \in [Symbols -> Prices \cup {0}]
    /\ flow \in [Symbols -> Int]
    /\ fills \in 0..MaxFills
    /\ \A s \in Symbols : Fits(kind[s], pos[s])

Init ==
    /\ \E segment \in Segments : kind \in [Symbols -> segment]
    /\ cash = Start
    /\ pos = [s \in Symbols |-> NoPosition]
    /\ marks = [s \in Symbols |-> 0]
    /\ flow = [s \in Symbols |-> 0]
    /\ fills = 0

\* An order of symbol s moves the cash and leaves position p.
Booked(s, delta, p) ==
    /\ Magnitude(p.qty) <= MaxHeld /\ fills < MaxFills
    /\ cash' = cash + delta
    /\ flow' = [flow EXCEPT ![s] = @ + delta]
    /\ pos' = [pos EXCEPT ![s] = p]
    /\ fills' = fills + 1
    /\ UNCHANGED <<kind, marks>>

-------------------------------------------------------------------------------
(* place_order: entry.                                                     *)

SpreadMarginLoose(fill) == fill  \* mutant: the credit instead of the loss
SpreadMargin(fill) == Width - fill

\* What an entry of n units blocks.
Blocked(k, n, fill) ==
    CASE k = "futures" -> FuturesMargin[fill] * n
      [] k = "spread"  -> SpreadMargin(fill) * n
      [] OTHER         -> 0

\* A share is paid for when bought, a short sale pays nothing in; an option
\* is paid for; a future locks margin; a spread brings its credit and locks
\* margin.
EntryDelta(k, d, n, fill, fee) ==
    CASE k = "equity" /\ d = -1 -> -fee
      [] k = "futures"          -> -Blocked(k, n, fill) - fee
      [] k = "spread"           -> fill * n - Blocked(k, n, fill) - fee
      [] OTHER                  -> -(fill * n) - fee

\* Options are only bought, spreads only sold, for less than their width.
EntryAllowed(k, d, fill) ==
    /\ k = "option" => d = 1
    /\ k = "spread" => d = -1 /\ fill < Width

Entered(k, d, n, fill) ==
    [qty |-> d * n, basis |-> fill * n, margin |-> Blocked(k, n, fill)]

Enter(s, d, n, fill, fee) ==
    LET k == kind[s] delta == EntryDelta(k, d, n, fill, fee) IN
    /\ pos[s].qty = 0
    /\ EntryAllowed(k, d, fill)
    /\ (k = "equity" /\ d = -1) \/ -delta <= cash
    /\ Booked(s, delta, Entered(k, d, n, fill))

-------------------------------------------------------------------------------
(* place_order: an order on a held symbol.                                 *)

Profit(p, fill, fee) ==
    LET worth == fill * Magnitude(p.qty)
    IN  (IF p.qty > 0 THEN worth - p.basis ELSE p.basis - worth) - fee

\* Mutant: the proceeds of a covered short come back as if its cost had been
\* debited (the leak fixed in 2026-05).
CloseDeltaLeaks(k, p, fill, fee) ==
    CASE k = "futures" -> p.margin + Profit(p, fill, fee)
      [] k = "spread"  -> p.margin - fill * Magnitude(p.qty) - fee
      [] OTHER         -> p.basis + Profit(p, fill, fee)

\* Taking the whole position off: margin or cost come back with the profit;
\* a covered short gets the profit only; a spread is bought back.
CloseDelta(k, p, fill, fee) ==
    CASE k = "futures"                -> p.margin + Profit(p, fill, fee)
      [] k = "spread"                 -> p.margin - fill * Magnitude(p.qty) - fee
      [] k = "equity" /\ p.qty < 0    -> Profit(p, fill, fee)
      [] OTHER                        -> p.basis + Profit(p, fill, fee)

Close(s, d, n, fill, fee) ==
    LET p == pos[s] IN
    /\ p.qty # 0 /\ p.qty + d * n = 0
    /\ Booked(s, CloseDelta(kind[s], p, fill, fee), NoPosition)

\* More than the position, the other way: the rest is a new position without
\* margin.  An equity SELL of more than is held is rejected.
Flipped(p, d, n, fill) ==
    LET rest == p.qty + d * n
    IN  [qty |-> rest, basis |-> fill * Magnitude(rest), margin |-> 0]

Flip(s, d, n, fill, fee) ==
    LET p == pos[s] IN
    /\ p.qty * (p.qty + d * n) < 0
    /\ ~(kind[s] = "equity" /\ d = -1)
    /\ Booked(s, CloseDelta(kind[s], p, fill, fee), Flipped(p, d, n, fill))

\* Everything else on a held symbol, a partial exit included, is booked as
\* an addition: the order's value joins the basis, whatever its side.
AddDelta(k, d, n, fill, fee) ==
    CASE k = "futures"                      -> -(FuturesMargin[fill] * n) - fee
      [] k \in {"equity", "spread"} /\ d = -1  -> -fee
      [] OTHER                              -> -(fill * n) - fee

Added(k, p, d, n, fill) ==
    [qty |-> p.qty + d * n, basis |-> p.basis + fill * n,
     margin |-> p.margin + (IF k = "futures" THEN FuturesMargin[fill] * n ELSE 0)]

Add(s, d, n, fill, fee) ==
    LET p == pos[s] k == kind[s] IN
    /\ p.qty * (p.qty + d * n) > 0
    /\ Booked(s, AddDelta(k, d, n, fill, fee), Added(k, p, d, n, fill))

\* The orders the books are made for.  The bot itself sends only entries and
\* whole exits; a partial exit, more of a spread, and a flip of anything but
\* futures are booked wrongly and sent by nobody.
Supported(k, q, d, n) ==
    \/ q = 0 \/ q + d * n = 0
    \/ q * d > 0 /\ k # "spread"
    \/ q * d < 0 /\ n > Magnitude(q) /\ k = "futures"
    \/ q * d < 0 /\ n < Magnitude(q) /\ k = "spread"

Fill(s, d, n, fill, fee) ==
    /\ Supported(kind[s], pos[s].qty, d, n)
    /\ \/ Enter(s, d, n, fill, fee)
       \/ Close(s, d, n, fill, fee)
       \/ Flip(s, d, n, fill, fee)
       \/ Add(s, d, n, fill, fee)

PlaceOrder(s) ==
    \E d \in {1, -1}, n \in 1..MaxQty, fill \in Prices, fee \in Fees :
        Fill(s, d, n, fill, fee)

UpdateMarks ==
    /\ \E s \in Symbols, m \in Prices : marks' = [marks EXCEPT ![s] = m]
    /\ UNCHANGED <<kind, cash, pos, flow, fills>>

Next == UpdateMarks \/ \E s \in Symbols : PlaceOrder(s)

Spec == Init /\ [][Next]_vars

-------------------------------------------------------------------------------
(* RiskManager._equity.                                                    *)

Unrealized(s) ==
    LET p == pos[s] worth == marks[s] * Magnitude(p.qty) IN
    IF marks[s] = 0 THEN 0 ELSE IF p.qty > 0 THEN worth - p.basis ELSE p.basis - worth

\* Mutant: the formula of Phase 1, without margin_offset.
MarginOffsetNone(s) == 0

MarginOffset(s) ==
    LET p == pos[s] IN
    CASE kind[s] = "futures"                  -> p.margin
      [] kind[s] = "spread" /\ p.qty < 0      -> p.margin - p.basis
      [] OTHER                                -> 0

Contribution(s) ==
    (IF pos[s].qty > 0 THEN pos[s].basis ELSE 0) + Unrealized(s) + MarginOffset(s)

Equity == cash + MapThenSumSet(Contribution, Symbols)

-------------------------------------------------------------------------------
(* Properties.                                                             *)

\* What the cash withholds of a position against a plain ledger: the
\* proceeds of a short share, the margin, the value a future is not paid for.
Withheld(k, p) ==
    CASE k = "equity"  -> IF p.qty < 0 THEN p.basis ELSE 0
      [] k = "futures" -> p.margin + (IF p.qty > 0 THEN -p.basis ELSE p.basis)
      [] k = "spread"  -> p.margin
      [] k = "option"  -> 0

Account(s) == flow[s] + Withheld(kind[s], pos[s])
Worth(s) == LET p == pos[s] IN
    IF marks[s] = 0 THEN (IF p.qty > 0 THEN p.basis ELSE -p.basis) ELSE p.qty * marks[s]

L == INSTANCE Ledger WITH
        Sizes <- (-MaxQty..MaxQty) \ {0},
        qty <- [s \in Symbols |-> pos[s].qty],
        account <- [s \in Symbols |-> Account(s)]

\* The five cash-flow models of place_order all keep a plain ledger: no fill,
\* in whatever order entries, additions and exits come, makes or loses money.
KeepsLedger == L!Spec

\* The capital, what the trades brought in, and what is held at its marks.
NetWorth == Start + MapThenSumSet(LAMBDA s : Account(s) + Worth(s), Symbols)

\* The equity behind the daily loss cap and the profit target is the net
\* worth, on every book without a long future.
EquityIsWorthButLongFutures ==
    (\A s \in Symbols : ~(kind[s] = "futures" /\ pos[s].qty > 0)) => Equity = NetWorth

Covered(p) == p.margin + p.basis >= Width * Magnitude(p.qty)

\* What is kept of a spread, its margin and its credit, pays for buying it
\* back at its widest, also after it was partly bought back.
DefinedRisk == \A s \in Symbols : kind[s] = "spread" => Covered(pos[s])
===============================================================================
