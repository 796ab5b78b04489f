----------------------------- MODULE LiveBroker -----------------------------
(***************************************************************************)
(* The executor on a live account: bot/executor.py and bot/risk.py with the *)
(* adapter of bot/broker/zerodha.py in place of the paper broker.           *)
(*                                                                         *)
(* The executor was written for a broker that fills in place_order().  Kite *)
(* answers OPEN; the order fills, in parts, or is rejected while the bot    *)
(* goes on.  Every call over the network may fail, and the adapter turns a  *)
(* failed read into an empty book, a part of it or a balance of zero, a     *)
(* failed order into REJECTED, although Kite may have taken it.  No answer  *)
(* is ever FILLED, so the executor counts no trade and journals no fill.    *)
(* The equity takes two calls, cash() and positions(), and an order may     *)
(* fill between them.                                                       *)
(*                                                                         *)
(* One order is one unit of a symbol; the jobs of the scheduler run one at  *)
(* a time (EodRace has their interleavings), the exchange beside them.      *)
(***************************************************************************)
EXTENDS Integers, FiniteSets

CONSTANTS
  Symbols,     \* the watchlist
  MaxOpen,     \* risk.max_open_positions
  MaxTrades,   \* risk.max_trades_per_day
  EntrySides,  \* sides of the entries: 1 for BUY, -1 for SELL
  MaxEntries,  \* bound: entries sent
  MaxStarts    \* bound: starts after the first

ASSUME LiveAssumption ==
  IsFiniteSet(Symbols) /\ EntrySides \subseteq {1, -1} /\ {MaxOpen, MaxTrades, MaxEntries, MaxStarts} \subseteq Nat

VARIABLES
  net,         \* the account's position in each symbol, in units
  flight,      \* units of live orders at the exchange, by side
  phase,       \* of the day: entries, management only, after square_off, over
  real,        \* the true profit or loss against the true baseline
  base,        \* the risk manager's baseline for the day
  cash,        \* the first call of an equity under way: what cash() gave
  halted,      \* the file KILL_SWITCH exists
  locked,      \* profit_lockin
  marker,      \* eod_done
  counted,     \* trades counted against the daily quota
  pc,          \* where the tick is
  todo,        \* symbols whose signals the tick still has to consider
  sent,        \* entries sent
  starts,      \* starts after the first
  doubled,     \* history: symbols with an order sent that another was ahead of
  excuse,      \* history: the first reason why a square-off may leave something
  misread      \* history: a reading of the equity was false

book == <<net, flight>>
control == <<pc, todo>>
reading == <<cash, base, misread>>
vars == <<book, phase, real, reading, halted, locked, marker, counted, control, sent, starts,
          doubled, excuse>>
-----------------------------------------------------------------------------
Sides == {1, -1}
InFlight(s) == flight[s][1] + flight[s][-1] > 0
Magnitude(n) == IF n < 0 THEN -n ELSE n
Exposure(s) == net[s] + flight[s][1] - flight[s][-1]
Held == {s \in Symbols : net[s] # 0}
Flat == Held = {} /\ \A s \in Symbols : ~InFlight(s)

(* positions(): the account's book, or as much of it as was read before the *)
(* call, or a row of its answer, failed.                                    *)
Views == SUBSET Held

(* cash() then positions(): the sum is the account's equity when both calls *)
(* worked and nothing filled in between.                                    *)
Whole(view) == cash = "good" /\ view = Held

(* The profit or loss read, against the baseline.  The first reading of the *)
(* day takes the baseline, and is zero; a false one stays for the day.      *)
Readings(view) ==
  CASE base = "none" -> {"even"}
    [] base = "true" /\ Whole(view) -> {real}
    [] OTHER -> {"loss", "even", "gain"}

BaselineUnchecked(view) == IF base # "none" THEN base ELSE "false"  \* mutant: the cash alone
Baseline(view) ==
  IF base # "none" THEN base ELSE IF Whole(view) THEN "true" ELSE "false"

Read(view, pnl) ==
  /\ cash # "unread" /\ cash' = "unread"
  /\ pnl \in Readings(view)
  /\ base' = Baseline(view)
  /\ misread' = (misread \/ ~Whole(view))

(* place_order(): Kite takes the order or not.  The status is OPEN, or      *)
(* REJECTED when the call failed, whether or not the order went through.    *)
Accepted == [taken : BOOLEAN, status : {"OPEN", "REJECTED"}] \ {[taken |-> FALSE, status |-> "OPEN"]}

Excused(why) == IF excuse = "none" THEN why ELSE excuse

Sent(f, s, d, n) == [f EXCEPT ![s][d] = @ + n]

TypeOK ==
  /\ net \in [Symbols -> Int]
  /\ flight \in [Symbols -> [Sides -> Nat]]
  /\ phase \in {"entry", "hold", "late", "over"}
  /\ real \in {"loss", "even", "gain"} /\ base \in {"none", "true", "false"}
  /\ cash \in {"unread", "good", "failed", "torn"} /\ halted \in BOOLEAN
  /\ locked \in BOOLEAN /\ marker \in BOOLEAN /\ counted \in Nat
  /\ pc \in {"idle", "kill", "lock", "signals"} /\ todo \subseteq Symbols
  /\ sent \in 0 .. MaxEntries /\ starts \in 0 .. MaxStarts
  /\ doubled \subseteq Symbols
  /\ misread \in BOOLEAN
  /\ excuse \in {"none", "blind", "refused", "inflight", "foreclosed"}

Init ==
  /\ net = [s \in Symbols |-> 0]
  /\ flight = [s \in Symbols |-> [d \in Sides |-> 0]]
  /\ phase = "entry" /\ real = "even" /\ base = "none"
  /\ cash = "unread" /\ halted \in BOOLEAN
  /\ locked = FALSE /\ marker = FALSE /\ counted = 0
  /\ pc = "idle" /\ todo = {}
  /\ sent = 0 /\ starts = 0
  /\ doubled = {}
  /\ excuse = "none" /\ misread = FALSE
-----------------------------------------------------------------------------
OpposingShorts(s, d) == net[s] < 0 /\ d = 1  \* mutant: only shorts are covered
Opposing(s, d) == net[s] * d < 0

(* square_off_all(): an opposite market order for each position it reads.   *)
(* The orders that Kite takes are in flight when it returns.                *)
SquareOff(view, marks) ==
  \E taken \in SUBSET view :
    /\ flight' = [s \in Symbols |->
         IF s \notin taken THEN flight[s]
         ELSE [d \in Sides |-> flight[s][d] + IF Opposing(s, d) THEN Magnitude(net[s]) ELSE 0]]
    /\ doubled' = doubled \cup {s \in taken : InFlight(s)}
    /\ excuse' = IF (marks \/ marker) /\ (\E s \in Symbols : InFlight(s)) THEN Excused("inflight")
                 ELSE IF marks /\ view # Held THEN Excused("blind")
                 ELSE IF marks /\ taken # view THEN Excused("refused")
                 ELSE excuse
    /\ UNCHANGED net

(* _end_of_day(): the marker is written whether or not the orders filled,   *)
(* and on an empty book without one.                                        *)
Marked(marks) == marker \/ marks

EndOfDay(marks) ==
  IF marks /\ marker
    THEN UNCHANGED <<book, marker, doubled, excuse>>
    ELSE /\ marker' = Marked(marks)
         /\ \E first \in Views, second \in Views :
              SquareOff(IF first = {} THEN {} ELSE second, marks)

(* The first half of an equity.  The kill switch and the entry gate look   *)
(* for the file before they read one.                                       *)
ReadCash ==
  /\ cash = "unread"
  /\ \/ pc = "kill" /\ ~halted
     \/ pc = "lock" /\ ~locked
     \/ pc = "signals" /\ todo # {} /\ ~halted
  /\ cash' \in {"good", "failed"}
  /\ UNCHANGED <<book, phase, real, base, misread, halted, locked, marker, counted, control,
                 sent, starts, doubled, excuse>>

(* A tick before square_off that sees open positions manages them.  Kite's  *)
(* positions carry no stop and no target, so none is closed here; then the  *)
(* kill switch is asked.                                                    *)
Goes == pc' = IF phase = "entry" THEN "lock" ELSE "idle"

TickManages ==
  /\ pc = "idle" /\ phase \in {"entry", "hold"}
  /\ \E view \in Views : IF view # {} THEN pc' = "kill" ELSE Goes
  /\ UNCHANGED <<book, phase, real, reading, halted, locked, marker, counted, todo, sent, starts,
                 doubled, excuse>>

TickKills ==
  /\ pc = "kill"
  /\ \/ cash = "unread" /\ halted /\ UNCHANGED reading
     \/ \E view \in Views : Read(view, "loss")
  /\ EndOfDay(TRUE)
  /\ pc' = "idle"
  /\ UNCHANGED <<phase, real, halted, locked, counted, todo, sent, starts>>

TickGoesOn ==
  /\ pc = "kill"
  /\ \E view \in Views, pnl \in {"even", "gain"} : Read(view, pnl)
  /\ Goes
  /\ UNCHANGED <<book, phase, real, halted, locked, marker, counted, todo, sent, starts, doubled, excuse>>

TickLocks ==
  /\ pc = "lock" /\ ~locked
  /\ \E view \in Views : Read(view, "gain")
  /\ \E view \in Views : SquareOff(view, FALSE)
  /\ locked' = TRUE
  /\ pc' = "idle"
  /\ UNCHANGED <<phase, real, halted, marker, counted, todo, sent, starts>>

TickRests ==
  /\ pc = "lock" /\ locked
  /\ pc' = "idle"
  /\ UNCHANGED <<book, phase, real, reading, halted, locked, marker, counted, todo, sent, starts,
                 doubled, excuse>>

(* The watchlist's signals, without those of symbols read as held.          *)
TickSignals ==
  /\ pc = "lock" /\ ~locked
  /\ \E view \in Views, pnl \in {"loss", "even"} : Read(view, pnl)
  /\ \E view \in Views : todo' = Symbols \ view
  /\ pc' = "signals"
  /\ UNCHANGED <<book, phase, real, halted, locked, marker, counted, sent, starts, doubled, excuse>>

(* RiskManager.evaluate: profit and loss, quota, open positions, symbol.    *)
AllowedHeld(s, pnl, view) ==  \* mutant: without a look at the open positions
  pnl = "even" /\ counted < MaxTrades
Allowed(s, pnl, view) ==
  /\ pnl = "even"
  /\ counted < MaxTrades
  /\ Cardinality(view) < MaxOpen
  /\ s \notin view

(* _place(): an entry that is not FILLED is not counted.                    *)
Count(status) == IF status = "FILLED" THEN counted + 1 ELSE counted

Enter(s) ==
  /\ pc = "signals" /\ s \in todo /\ sent < MaxEntries
  /\ \E seen \in Views, view \in Views, a \in Accepted, d \in EntrySides :
       /\ Read(seen, "even") /\ Allowed(s, "even", view)
       /\ flight' = IF a.taken THEN Sent(flight, s, d, 1) ELSE flight
       /\ counted' = Count(a.status)
       /\ doubled' = IF a.taken /\ (InFlight(s) \/ s \in Held \ view) THEN doubled \cup {s} ELSE doubled
       /\ excuse' = IF a.taken /\ marker THEN Excused("foreclosed") ELSE excuse
  /\ sent' = sent + 1
  /\ todo' = todo \ {s}
  /\ UNCHANGED <<net, phase, real, halted, locked, marker, pc, starts>>

(* No signal, or one the risk manager rejects, after a reading or before.   *)
Skip(s) ==
  /\ pc = "signals" /\ s \in todo
  /\ \/ \E view \in Views, pnl \in {"loss", "even", "gain"} : Read(view, pnl)
     \/ cash = "unread" /\ UNCHANGED reading
  /\ todo' = todo \ {s}
  /\ UNCHANGED <<book, phase, real, halted, locked, marker, counted, pc, sent, starts, doubled, excuse>>

TickEnds ==
  /\ pc = "signals" /\ todo = {}
  /\ pc' = "idle"
  /\ UNCHANGED <<book, phase, real, reading, halted, locked, marker, counted, todo, sent, starts,
                 doubled, excuse>>

(* A tick at or after square_off, or the end_of_day job.                    *)
TickSquaresOff ==
  /\ pc = "idle" /\ phase = "late" /\ ~marker
  /\ EndOfDay(TRUE)
  /\ UNCHANGED <<phase, real, reading, halted, locked, counted, control, sent, starts>>

(* SIGTERM, with its sweep, and the next start: the counter is a variable   *)
(* of the process, the baseline and the marker are in Redis.  The reset at  *)
(* the start deletes the lock, unless that fails.  A start after square_off *)
(* sweeps what it reads as open.                                            *)
Stop ==
  /\ phase # "over" /\ starts < MaxStarts
  /\ EndOfDay(FALSE)
  /\ starts' = starts + 1
  /\ pc' = "idle" /\ todo' = {} /\ counted' = 0 /\ cash' = "unread"
  /\ locked' \in {FALSE, locked}
  /\ UNCHANGED <<phase, real, base, misread, halted, sent>>

StartLate ==
  /\ pc = "idle" /\ phase = "late" /\ starts < MaxStarts
  /\ Held # {} /\ EndOfDay(FALSE)
  /\ starts' = starts + 1
  /\ counted' = 0
  /\ locked' \in {FALSE, locked}
  /\ UNCHANGED <<phase, real, reading, halted, control, sent>>
-----------------------------------------------------------------------------
(* The exchange and the market.  A fill after cash() and before positions() *)
(* is in one of the two and not in the other.                               *)
Torn == IF cash = "good" THEN "torn" ELSE cash

Fill(s, d) ==
  /\ flight[s][d] > 0
  /\ flight' = Sent(flight, s, d, -1)
  /\ net' = [net EXCEPT ![s] = @ + d]
  /\ cash' = Torn
  /\ UNCHANGED <<phase, real, base, misread, halted, locked, marker, counted, control, sent, starts,
                 doubled, excuse>>

Reject(s, d) ==
  /\ flight[s][d] > 0
  /\ flight' = Sent(flight, s, d, -1)
  /\ excuse' = IF marker THEN Excused("refused") ELSE excuse
  /\ UNCHANGED <<net, phase, real, reading, halted, locked, marker, counted, control, sent, starts,
                 doubled>>

PricesMove ==
  /\ Held # {} /\ phase # "over"
  /\ real' \in {"loss", "even", "gain"}
  /\ UNCHANGED <<book, phase, reading, halted, locked, marker, counted, control, sent, starts,
                 doubled, excuse>>

(* The operator creates the file, or removes it.                            *)
Operator ==
  /\ phase # "over"
  /\ halted' = ~halted
  /\ UNCHANGED <<book, phase, real, reading, locked, marker, counted, control, sent, starts,
                 doubled, excuse>>

ClockMoves ==
  /\ pc = "idle"
  /\ \/ phase = "entry" /\ phase' = "hold"
     \/ phase = "hold" /\ phase' = "late"
     \/ phase = "late" /\ marker /\ (\A s \in Symbols : ~InFlight(s)) /\ phase' = "over"
  /\ UNCHANGED <<book, real, reading, halted, locked, marker, counted, control, sent, starts,
                 doubled, excuse>>

Exchange(s) == \E d \in Sides : Fill(s, d) \/ Reject(s, d)

Next ==
  \/ TickManages \/ TickKills \/ TickGoesOn \/ TickLocks \/ TickRests \/ TickSignals
  \/ TickEnds \/ TickSquaresOff \/ ReadCash \/ Stop \/ StartLate
  \/ PricesMove \/ Operator \/ ClockMoves
  \/ \E s \in Symbols : Enter(s) \/ Skip(s) \/ Exchange(s)

(* The scheduler fires its jobs, the exchange decides each order.           *)
Spec ==
  /\ Init /\ [][Next]_vars
  /\ WF_vars(TickSquaresOff)
  /\ \A s \in Symbols : WF_vars(Exchange(s))
-----------------------------------------------------------------------------
(* Properties *)

(* The account never carries more than one entry of a symbol, unless an     *)
(* order was sent while another of that symbol was in flight or, the book   *)
(* unread, held: the executor's only guard is what positions() returns.     *)
OneEntryPerSymbol == \A s \in Symbols \ doubled : Magnitude(Exposure(s)) <= 1

(* Before square_off the marker is only set by a true loss or the operator's*)
(* file, and the profit lock by a true gain, unless some reading of the     *)
(* equity was false: a call failed, or an order filled between the two.     *)
StopIsEarned ==
  /\ marker' /\ ~marker => real = "loss" \/ halted \/ misread'
  /\ locked' /\ ~locked => real = "gain" \/ misread'
EarlyStopIsEarned == [][(phase \in {"entry", "hold"} => StopIsEarned)]_vars

(* After square_off the account gets flat, unless a square-off could not    *)
(* read the book, had an order refused, or found another order in flight, or*)
(* an entry was sent after the day's marker had been set.                   *)
SquareOffSettles == phase = "late" ~> (Flat \/ excuse # "none")

(* executor.py:816-820: a square-off that fails in part "leaves the marker  *)
(* absent and the next tick can retry".                                     *)
MarkerMeansClosed == phase = "over" /\ marker => Held = {} \/ excuse # "refused"
=============================================================================
