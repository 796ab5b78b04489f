------------------------------- MODULE TrailStop -------------------------------
(***************************************************************************)
(* The exits of open positions (bot/executor.py, _manage_open_positions):  *)
(* stop-loss, take-profit and the trailing stop, with the trail states the *)
(* executor keeps per symbol.  A pass looks at one position after another, *)
(* in the order of the broker's dictionary: any order here.                *)
(*                                                                         *)
(* The handlers run one at a time: what the end-of-day job and a tick can  *)
(* do to each other is the subject of module EodRace.                      *)
(*                                                                         *)
(* Prices are integers, in fractions of a tick; only the trailed stop is   *)
(* rounded to whole ticks.  They are positive: that a close at a mark of   *)
(* zero is rejected is in module TradingDay.                               *)
(***************************************************************************)
EXTENDS Integers

CONSTANTS
    Symbols,        \* the symbols that are traded
    EntryPrices,    \* prices at which positions are opened
    StopDists,      \* distances of the initial stop from the entry
    TakeDists,      \* distances of the target from the entry
    Quotes,         \* prices of the bars
    Ranges,         \* values of ATR(14)
    Tick,           \* what stops are rounded to (one paisa)
    LockDen,        \* 1 / risk.trail_lock_r
    TrailMult       \* risk.trail_atr_mult

\* A stop is on the losing side of its entry; the share of R that is locked
\* in is a whole number of units, and at least what rounding may take.
ASSUME ExitAssumption ==
    /\ EntryPrices \subseteq Nat \ {0} /\ Quotes \subseteq Nat \ {0}
    /\ StopDists \subseteq Nat \ {0} /\ TakeDists \subseteq Nat \ {0}
    /\ Ranges \subseteq Nat
    /\ Tick \in Nat \ {0} /\ LockDen \in Nat \ {0} /\ TrailMult \in Nat \ {0}
    /\ \A r \in StopDists : r % LockDen = 0 /\ 2 * (r \div LockDen) >= Tick

VARIABLES
    pos,        \* the broker's positions; side 0: flat
    trail,      \* Executor._trails; risk 0: no entry
    marks,      \* PaperBroker._marks; 0: none
    todo,       \* positions the running pass has not looked at; {}: no pass
    seen,       \* the marks the running pass has collected
    best,       \* history: best price since entry that a pass has seen
    risked,     \* history: R, the distance of the stop at entry
    trailed,    \* history: symbols whose stop has been trailed
    inherited   \* history: positions that found the trail of an earlier one

vars == <<pos, trail, marks, todo, seen, best, risked, trailed, inherited>>
history == <<best, risked, trailed, inherited>>

Flat == [side |-> 0, avg |-> 0, stop |-> 0, take |-> 0]
NoTrail == [entry |-> 0, risk |-> 0, peak |-> 0, active |-> FALSE]

Held == {s \in Symbols : pos[s] # Flat}

TypeOK ==
    /\ pos \in [Symbols -> [side : {1, 0, -1}, avg : Nat, stop : Int, take : Int]]
    /\ trail \in [Symbols -> [entry : Nat, risk : Nat, peak : Nat, active : BOOLEAN]]
    /\ marks \in [Symbols -> Nat] /\ seen \in [Symbols -> Nat]
    /\ todo \subseteq Held
    /\ best \in [Symbols -> Nat] /\ risked \in [Symbols -> Nat]
    /\ trailed \subseteq Held /\ inherited \subseteq Held
    /\ \A s \in Symbols : trail[s] # NoTrail => trail[s].risk > 0

NoMarks == [s \in Symbols |-> 0]

Init ==
    /\ pos = [s \in Symbols |-> Flat]
    /\ trail = [s \in Symbols |-> NoTrail]
    /\ marks = NoMarks /\ todo = {} /\ seen = NoMarks
    /\ best = NoMarks /\ risked = NoMarks
    /\ trailed = {} /\ inherited = {}

Abs(x) == IF x < 0 THEN -x ELSE x

\* Ahead(d, p, q): p is at least as good as q for a position of side d.
Ahead(d, p, q) == d * p >= d * q
Better(d, p, q) == IF Ahead(d, p, q) THEN p ELSE q

-------------------------------------------------------------------------------
(* The pieces of a pass.                                                   *)

\* A bar's extreme in the direction d.
Extreme(d, bar) == IF d = 1 THEN bar.high ELSE bar.low

StopHit(p, bar) == Ahead(p.side, p.stop, Extreme(-p.side, bar))
TakeHit(p, bar) == Ahead(p.side, Extreme(p.side, bar), p.take)

\* _init_trail_if_missing: R comes from the stop as it stands.
TrailOf(s) ==
    LET r == Abs(pos[s].avg - pos[s].stop) IN
    IF trail[s] # NoTrail \/ r = 0 THEN trail[s]
    ELSE [entry |-> pos[s].avg, risk |-> r, peak |-> pos[s].avg, active |-> FALSE]

\* The peak follows the bar; 1R of profit at the peak activates the trail
\* (risk.trail_activation_r is 1).
Followed(t, d, bar) ==
    LET peak == Better(d, Extreme(d, bar), t.peak) IN
    [entry |-> t.entry, risk |-> t.risk, peak |-> peak,
     active |-> t.active \/ d * (peak - t.entry) >= t.risk]

Distance(t, range) == TrailMult * (IF range > 0 THEN range ELSE t.risk)
LockStop(t, d) == t.entry + d * (t.risk \div LockDen)

\* Mutants: the stop in force is forgotten, or the floor.
NewStopForgets(t, d, stop, range) ==
    Better(d, t.peak - d * Distance(t, range), LockStop(t, d))
NewStopNoFloor(t, d, stop, range) ==
    Better(d, stop, t.peak - d * Distance(t, range))

\* The tightest of the stop in force, the ATR floor and the lock-in floor.
NewStop(t, d, stop, range) ==
    Better(d, stop, Better(d, t.peak - d * Distance(t, range), LockStop(t, d)))

\* round(x, 2): the nearest tick; a tie goes either way, because floats.
Rounded(x) ==
    {g \in {Tick * (x \div Tick), Tick * (x \div Tick + 1)} : 2 * Abs(g - x) <= Tick}

\* What a stop becomes; one that does not change is not rounded.
Updated(stop, x) == IF x = stop THEN {stop} ELSE Rounded(x)

-------------------------------------------------------------------------------
(* Outcomes for the position of s in a pass.                               *)

\* The position is looked at; p is its mark, 0 if there is none.  The marks
\* reach the broker when the pass ends with its last position.
Looked(s, p) ==
    LET now == IF p = 0 THEN seen ELSE [seen EXCEPT ![s] = p] IN
    /\ todo' = todo \ {s}
    /\ IF todo = {s}
       THEN /\ marks' = [x \in Symbols |-> IF now[x] # 0 THEN now[x] ELSE marks[x]]
            /\ seen' = NoMarks
       ELSE seen' = now /\ UNCHANGED marks

\* The positions of gone are closed.
Closed(gone) ==
    /\ pos' = [s \in Symbols |-> IF s \in gone THEN Flat ELSE pos[s]]
    /\ best' = [s \in Symbols |-> IF s \in gone THEN 0 ELSE best[s]]
    /\ risked' = [s \in Symbols |-> IF s \in gone THEN 0 ELSE risked[s]]
    /\ trailed' = trailed \ gone
    /\ inherited' = inherited \ gone

Follow(s, bar) == Followed(TrailOf(s), pos[s].side, bar)

Seen(s, bar) ==
    best' = [best EXCEPT ![s] = Better(pos[s].side, Extreme(pos[s].side, bar), @)]

Exit(s, bar) ==
    /\ StopHit(pos[s], bar) \/ TakeHit(pos[s], bar)
    /\ Closed({s})
    /\ trail' = [trail EXCEPT ![s] = NoTrail]
    /\ Looked(s, bar.close)

Stays(s, bar) == ~StopHit(pos[s], bar) /\ ~TakeHit(pos[s], bar)

\* Not (yet) trailed: the stop equals the entry, or less than 1R so far.
Hold(s, bar) ==
    /\ Stays(s, bar)
    /\ TrailOf(s) = NoTrail \/ ~Follow(s, bar).active
    /\ trail' = [trail EXCEPT ![s] =
           IF TrailOf(s) = NoTrail THEN NoTrail ELSE Follow(s, bar)]
    /\ Seen(s, bar)
    /\ Looked(s, bar.close)
    /\ UNCHANGED <<pos, risked, trailed, inherited>>

Trail(s, bar, range) ==
    /\ Stays(s, bar)
    /\ TrailOf(s) # NoTrail /\ Follow(s, bar).active
    /\ trail' = [trail EXCEPT ![s] = Follow(s, bar)]
    /\ LET p == pos[s]
           x == NewStop(Follow(s, bar), p.side, p.stop, range)
       IN \E g \in Updated(p.stop, x) : pos' = [pos EXCEPT ![s].stop = g]
    /\ trailed' = trailed \cup {s}
    /\ Seen(s, bar)
    /\ Looked(s, bar.close)
    /\ UNCHANGED <<risked, inherited>>

\* An active trail and no bars: the ATR of an empty frame raises, and the
\* tick ends there: what is left of the pass is not looked at.
Raise(s, bar) ==
    /\ Stays(s, bar)
    /\ TrailOf(s) # NoTrail /\ Follow(s, bar).active
    /\ trail' = [trail EXCEPT ![s] = Follow(s, bar)]
    /\ todo' = {} /\ seen' = NoMarks
    /\ Seen(s, bar)
    /\ UNCHANGED <<pos, marks, risked, trailed, inherited>>

-------------------------------------------------------------------------------
(* Actions.                                                                *)

Bars == {b \in [high : Quotes, low : Quotes, close : Quotes] :
            b.low <= b.close /\ b.close <= b.high}

Point(p) == [high |-> p, low |-> p, close |-> p]

\* The tick finds open positions: trails of symbols not held are dropped.
\* A tick over a flat book never gets here.
BeginPass ==
    /\ todo = {} /\ Held # {}
    /\ todo' = Held
    /\ trail' = [s \in Symbols |-> IF s \in Held THEN trail[s] ELSE NoTrail]
    /\ UNCHANGED <<pos, marks, seen, history>>

\* With 1- or 5-minute bars.
ManageBar(s) ==
    /\ s \in todo
    /\ \E bar \in Bars :
           \/ Exit(s, bar) \/ Hold(s, bar)
           \/ \E range \in Ranges : Trail(s, bar, range)

\* Without bars the broker's last mark has to do.
ManageMark(s) ==
    /\ s \in todo /\ marks[s] # 0
    /\ LET bar == Point(marks[s]) IN Exit(s, bar) \/ Hold(s, bar) \/ Raise(s, bar)

\* Neither bars nor a mark: the position is left alone.
Unmanaged(s) ==
    /\ s \in todo /\ marks[s] = 0
    /\ Looked(s, 0)
    /\ UNCHANGED <<pos, trail, history>>

\* The watchlist's closes.
UpdateMarks ==
    /\ todo = {}
    /\ \E s \in Symbols, q \in Quotes : marks' = [marks EXCEPT ![s] = q]
    /\ UNCHANGED <<pos, trail, todo, seen, history>>

Enter(s) ==
    /\ todo = {} /\ pos[s] = Flat
    /\ \E d \in {1, -1}, p \in EntryPrices, r \in StopDists, t \in TakeDists :
          /\ pos' = [pos EXCEPT ![s] =
                 [side |-> d, avg |-> p, stop |-> p - d * r, take |-> p + d * t]]
          /\ best' = [best EXCEPT ![s] = p]
          /\ risked' = [risked EXCEPT ![s] = r]
    /\ inherited' = IF trail[s] = NoTrail THEN inherited ELSE inherited \cup {s}
    /\ UNCHANGED <<trail, marks, todo, seen, trailed>>

\* The end of the day, or the kill switch: marks are refreshed where there
\* are bars, and the book is closed.  The trails stay.
EndOfDay ==
    /\ todo = {} /\ Held # {}
    /\ \E q \in [Held -> Quotes \cup {0}] :
          marks' = [s \in Symbols |->
                        IF s \in Held /\ q[s] # 0 THEN q[s] ELSE marks[s]]
    /\ Closed(Held)
    /\ UNCHANGED <<trail, todo, seen>>

\* The profit lock-in closes the book and clears the trails.
LockIn ==
    /\ todo = {} /\ Held # {}
    /\ Closed(Held)
    /\ trail' = [s \in Symbols |-> NoTrail]
    /\ UNCHANGED <<marks, todo, seen>>

\* A crash at any point, and the next start: the saved book, if the session
\* reset did not delete it, and nothing of the executor's or the marks.
Restart ==
    /\ Closed(Held) \/ UNCHANGED <<pos, history>>
    /\ trail' = [s \in Symbols |-> NoTrail]
    /\ marks' = NoMarks /\ todo' = {} /\ seen' = NoMarks

Manage(s) == ManageBar(s) \/ ManageMark(s) \/ Unmanaged(s)

Next ==
    \/ \E s \in Symbols : Enter(s) \/ Manage(s)
    \/ BeginPass \/ UpdateMarks \/ EndOfDay \/ LockIn \/ Restart

Spec == Init /\ [][Next]_vars

-------------------------------------------------------------------------------
(* Properties.                                                             *)

\* x is not worse than y for a position of side d, but for rounding.
NearlyAhead(d, x, y) == 2 * d * (x - y) >= -Tick

\* While a position is held its stop never moves against it, whatever trail
\* it is moved by and however often the process restarts; only the rounding
\* of the first trailed stop may cost half a tick.
NeverLoosened ==
    [][\A s \in Symbols : pos[s] # Flat /\ pos'[s] # Flat =>
           NearlyAhead(pos[s].side, pos'[s].stop, pos[s].stop)]_vars

\* Once trailed, a position has its share of the R it was entered with locked
\* in; and after a restart, which rebuilds R from the moved stop, the trail
\* is active again as soon as it exists.
LockedIn ==
    \A s \in trailed \ inherited :
        LET p == pos[s] IN
        /\ NearlyAhead(p.side, p.stop, p.avg + p.side * (risked[s] \div LockDen))
        /\ trail[s] # NoTrail => trail[s].active

\* The stop is never beyond the best price since entry: a stop that fills at
\* its own price fills at a price the market has seen.
BehindBest ==
    \A s \in Held \ inherited : NearlyAhead(pos[s].side, best[s], pos[s].stop)
===============================================================================
