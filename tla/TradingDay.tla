------------------------------ MODULE TradingDay ------------------------------
(***************************************************************************)
(* One segment of the bot over several trading days: the Executor's tick   *)
(* and end-of-day handlers, the RiskManager's daily counters, the cache    *)
(* keys that outlive the process, the scheduler's jobs, restarts and       *)
(* crashes (bot/executor.py, bot/risk.py, bot/scheduler.py,                *)
(* bot/daily_reset.py and the restore half of bot/broker/paper.py).        *)
(*                                                                         *)
(* A handler that runs to its end is one action here; the interleavings    *)
(* of handlers are the subject of module EodRace.  Redis may also go away  *)
(* in the middle of a handler: the cache operation raises, what was done   *)
(* before it stays done and the rest is not (the ...Raises actions).       *)
(* Money is abstracted to the                                              *)
(* account's equity relative to the configured capital: it moves           *)
(* arbitrarily while positions are open, only falls (fees, slippage) when  *)
(* a position is opened, and is frozen while the book is flat.             *)
(***************************************************************************)
EXTENDS Integers, FiniteSets

CONSTANTS
    Symbols,        \* tradeable symbols of the segment
    MaxOpen,        \* risk.max_open_positions
    MaxTrades,      \* risk.max_trades_per_day
    LossCap,        \* risk.max_daily_loss_pct, in units of equity
    ProfitTarget,   \* risk.daily_profit_target_pct, in units of equity
    Equities,       \* the values equity takes (0 is the configured capital)
    None,           \* "no value": Python's None, an absent cache key
    MaxDay,         \* bound: trading days considered
    MaxMissed,      \* bound: snapshot writes lost one after another
    MaxStarts       \* bound: times the process is started

\* The caps and the target are positive, as in config.yaml; the set of
\* equities contains the configured capital; None is not a number.
ASSUME ConfigAssumption ==
    /\ IsFiniteSet(Symbols)
    /\ MaxOpen \in Nat \ {0}
    /\ MaxTrades \in Nat \ {0}
    /\ LossCap \in Nat \ {0}
    /\ ProfitTarget \in Nat \ {0}
    /\ Equities \subseteq Int
    /\ 0 \in Equities
    /\ None \notin Int
    /\ MaxDay \in Nat \ {0}
    /\ MaxStarts \in Nat
    /\ MaxMissed \in Nat

VARIABLES
    day, phase,     \* the clock: trading day, and the session window
    killFile,       \* the KILL_SWITCH file exists
    cacheUp,        \* Redis answers
    \* memory of the process
    up,             \* the process runs
    held,           \* symbols in PaperBroker._positions
    equity,         \* RiskManager._equity() minus the configured capital
    trades,         \* RiskManager._trades_today
    riskDay,        \* RiskManager._day
    startEq,        \* RiskManager._starting_equity
    profitLocked,   \* Executor._profit_locked
    \* cache keys
    eodMark,        \* date in eod_done:<segment> (0: absent)
    lockMark,       \* date in profit_lockin:<segment> (0: absent)
    baseMark,       \* risk:starting_equity:<segment>
    snap,           \* paper:state:<segment>
    missed,         \* history: snapshot writes lost since the last that succeeded
    \* scheduler and history
    eodDue,         \* today's firing of the end_of_day cron has not run yet
    starts,         \* process starts so far
    hit,            \* history: day of the lock-in this process knows (0: none)
    excuses         \* history: why today's square-off may leave positions

envVars  == <<day, phase, killFile, cacheUp>>
riskVars == <<trades, riskDay, startEq, baseMark>>
vars == <<day, phase, killFile, cacheUp, up, held, equity, trades, riskDay,
          startEq, profitLocked, eodMark, lockMark, baseMark, snap, missed,
          eodDue, starts, hit, excuses>>

\* The windows of one session: ticks before trade_start only publish;
\* "entry" is [trade_start, trade_cutoff], "manage" runs until square_off.
Phases == {"pre", "entry", "manage", "close"}

Reasons == {"killed", "rejected", "unswept"}

Snapshots == [day : 1..MaxDay, held : SUBSET Symbols, eq : Equities]
Baselines == [day : 1..MaxDay, val : Equities]

TypeOK ==
    /\ day \in 1..MaxDay
    /\ phase \in Phases
    /\ killFile \in BOOLEAN
    /\ cacheUp \in BOOLEAN
    /\ up \in BOOLEAN
    /\ held \in SUBSET Symbols
    /\ equity \in Equities
    /\ trades \in 0..MaxTrades
    /\ riskDay \in 0..MaxDay
    /\ startEq \in Equities \cup {None}
    /\ profitLocked \in BOOLEAN
    /\ eodMark \in 0..MaxDay
    /\ lockMark \in 0..MaxDay
    /\ baseMark \in Baselines \cup {None}
    /\ snap \in Snapshots \cup {None}
    /\ missed \in 0..MaxMissed
    /\ eodDue \in BOOLEAN
    /\ starts \in 0..MaxStarts
    /\ hit \in 0..MaxDay
    /\ excuses \in SUBSET Reasons

Init ==
    /\ day = 1 /\ phase = "pre"
    /\ killFile = FALSE /\ cacheUp = TRUE
    /\ up = FALSE /\ held = {} /\ equity = 0 /\ trades = 0
    /\ riskDay = 0 /\ startEq = None /\ profitLocked = FALSE
    /\ eodMark = 0 /\ lockMark = 0 /\ baseMark = None
    /\ snap = None /\ missed = 0
    /\ eodDue = FALSE /\ starts = 0
    /\ hit = 0 /\ excuses = {}

-------------------------------------------------------------------------------
(* RiskManager: _reset_if_new_day, and the first read of the P&L.          *)

TradesNow == IF riskDay = day THEN trades ELSE 0
BaseNow   == IF riskDay = day THEN startEq ELSE None

\* The baseline a P&L read at equity e works with: the first read of a day
\* captures it (_daily_pnl_pct, _capture_starting_equity).
Base(e) == IF BaseNow = None THEN e ELSE BaseNow
Pnl(e)  == e - Base(e)

\* A handler that never reaches the RiskManager.
RiskIdle == UNCHANGED riskVars

\* _reset_if_new_day without a P&L read (the KILL_SWITCH short circuit).
RiskReset ==
    /\ riskDay' = day
    /\ trades' = TradesNow
    /\ startEq' = BaseNow
    /\ baseMark' = IF riskDay = day THEN baseMark ELSE None

\* _reset_if_new_day, then a P&L read at equity e; n trades are recorded.
RiskRead(e, n) ==
    /\ riskDay' = day
    /\ trades' = TradesNow + n
    /\ startEq' = Base(e)
    /\ baseMark' = IF BaseNow = None THEN [day |-> day, val |-> e] ELSE baseMark

\* The reset raises when it deletes yesterday's baseline: the counters are
\* rolled over already.
ResetRaises ==
    /\ riskDay # day
    /\ riskDay' = day
    /\ trades' = 0
    /\ startEq' = None
    /\ baseMark' = baseMark

\* The capture raises when it persists the baseline: memory has it already.
CaptureRaises(e) ==
    /\ BaseNow = None
    /\ riskDay' = day
    /\ trades' = TradesNow
    /\ startEq' = e
    /\ baseMark' = IF riskDay = day THEN baseMark ELSE None

\* _publish_state at the end of a sweep reads the P&L; it may raise there.
PublishRead(e) ==
    \/ RiskRead(e, 0) /\ UNCHANGED cacheUp
    \/ (ResetRaises \/ CaptureRaises(e)) /\ cacheUp' = FALSE

\* daily_loss_kill_breached: the file, or the loss cap.
Breached(e) == killFile \/ Pnl(e) <= -LossCap

-------------------------------------------------------------------------------
(* PaperBroker: the snapshot every fill writes.  Only a flat snapshot's    *)
(* equity is remembered: with positions it depends on the marks.           *)

Snapshot(h, e) == [day |-> day, held |-> h, eq |-> IF h = {} THEN e ELSE 0]

Save(h, e) == snap' = Snapshot(h, e) /\ missed' = 0

\* The book after a handler is h at equity e: every fill was persisted.
Book(h, e) ==
    /\ held' = h
    /\ equity' = e
    /\ IF h = held THEN UNCHANGED <<snap, missed>> ELSE Save(h, e)

\* The same after a management pass, whose trailing stops persist as well.
ManagedBook(h, e) ==
    /\ held' = h
    /\ equity' = e
    /\ \/ IF h = held THEN UNCHANGED <<snap, missed>> ELSE Save(h, e)
       \/ h # {} /\ Save(h, e)

\* The fill (or the trailed stop, with g = h) that takes the book from g to
\* h is in memory when _persist raises.  An earlier fill or stop of the same
\* handler may have saved g.
LostSave(g, h, e) ==
    /\ held' = h
    /\ equity' = e
    /\ \/ g = held /\ missed < MaxMissed /\ snap' = snap /\ missed' = missed + 1
       \/ /\ g # held \/ (g # {} /\ phase \in {"entry", "manage"})
          /\ MaxMissed > 0
          /\ \E e1 \in Equities : snap' = Snapshot(g, e1)
          /\ missed' = 1

\* Exits that take the book from m to h and stop there: the handler raises
\* after the last of them was saved, or in its save.
CutExits(m, h, e) ==
    /\ h \subseteq m
    /\ \/ IF phase = "close" THEN Book(h, e) ELSE ManagedBook(h, e)
       \/ \E s \in m \ h : LostSave(h \cup {s}, h, e)

-------------------------------------------------------------------------------
(* Executor._end_of_day called with the book (h, e): it leaves (h2, e2).   *)
(* Closes may be rejected (no usable mark), so h2 is any part of h.        *)

EodSkipsOnAnyMarker(markDone) == markDone /\ eodMark # 0  \* mutant: date not compared
EodSkips(markDone) == markDone /\ eodMark = day

EodPublishes(markDone, h) == ~EodSkips(markDone) /\ h # {}

\* Mutant: the coarse guard of the 2026-05-05 regression, marker on any call.
EndOfDayAlwaysMarks(markDone, h, e, h2, e2) ==
    /\ eodMark' = day
    /\ h2 \subseteq h
    /\ ~EodPublishes(markDone, h) => h2 = h /\ e2 = e

EndOfDay(markDone, h, e, h2, e2) ==
    /\ eodMark' = IF markDone THEN day ELSE eodMark
    /\ h2 \subseteq h
    /\ ~EodPublishes(markDone, h) => h2 = h /\ e2 = e

\* The two reasons an end-of-day call itself gives for positions left over.
Rejections(markDone, h, h2) ==
    IF EodPublishes(markDone, h) /\ h2 # {} THEN {"rejected"} ELSE {}

-------------------------------------------------------------------------------
(* Executor.tick.  Its first statement writes the heartbeat, so with Redis *)
(* down the tick raises before it does anything: no action of the model.   *)

TickRuns == up /\ cacheUp

\* The rollover at the head of the tick.
LockedNow == profitLocked /\ riskDay = day

Rollover ==
    /\ profitLocked' = LockedNow
    /\ lockMark' = IF profitLocked /\ ~LockedNow THEN 0 ELSE lockMark

\* _manage_open_positions: exits leave the positions h open; marks move.
\* It runs only with positions open inside [trade_start, square_off).
ManagePass(h, e) ==
    /\ h \subseteq held
    /\ e \in Equities
    /\ (held = {} \/ phase = "pre") => h = held /\ e = equity

\* At or after square_off the tick is one more end-of-day call.
TickSquareOff ==
    /\ TickRuns /\ phase = "close"
    /\ Rollover
    /\ \E h2 \in SUBSET held, e2 \in Equities :
          /\ EndOfDay(TRUE, held, equity, h2, e2)
          /\ Book(h2, e2)
          /\ IF EodPublishes(TRUE, held) THEN PublishRead(e2)
             ELSE RiskIdle /\ UNCHANGED cacheUp
          /\ excuses' = excuses \cup Rejections(TRUE, held, h2)
    /\ UNCHANGED <<day, phase, killFile, up, eodDue, starts, hit>>

\* The open-position kill switch: a managed book breaches the daily loss,
\* or the KILL_SWITCH file exists, and the tick calls _end_of_day().
TickKill ==
    /\ TickRuns /\ phase \in {"entry", "manage"} /\ held # {}
    /\ Rollover
    /\ \E h \in SUBSET held, h2 \in SUBSET held, e \in Equities, e2 \in Equities :
          /\ ManagePass(h, e)
          /\ Breached(e)
          /\ EndOfDay(TRUE, h, e, h2, e2)
          /\ ManagedBook(h2, e2)
          /\ \/ /\ IF ~killFile THEN RiskRead(e, 0)
                   ELSE IF EodPublishes(TRUE, h) THEN RiskRead(e2, 0) ELSE RiskReset
                /\ UNCHANGED cacheUp
             \/ killFile /\ EodPublishes(TRUE, h) /\ CaptureRaises(e2) /\ cacheUp' = FALSE
          /\ excuses' = excuses \cup Rejections(TRUE, h, h2)
                                \cup (IF EodSkips(TRUE) THEN {} ELSE {"killed"})
    /\ UNCHANGED <<day, phase, killFile, up, eodDue, starts, hit>>

\* Outside the entry window the tick manages what is open and publishes.
TickManage ==
    /\ TickRuns /\ phase \in {"pre", "manage"}
    /\ Rollover
    /\ \E h \in SUBSET held, e \in Equities :
          /\ ManagePass(h, e)
          /\ (held # {} /\ phase = "manage") => ~Breached(e)
          /\ ManagedBook(h, e)
          /\ RiskRead(e, 0)
    /\ UNCHANGED <<envVars, up, eodMark, eodDue, starts, hit, excuses>>

\* Profit target reached: _lock_in_for_day squares off and locks the day.
TickLockIn ==
    /\ TickRuns /\ phase = "entry" /\ ~LockedNow
    /\ \E h \in SUBSET held, h2 \in SUBSET held, e \in Equities, e2 \in Equities :
          /\ ManagePass(h, e)
          /\ held # {} => ~Breached(e)
          /\ Pnl(e) >= ProfitTarget
          /\ h2 \subseteq h
          /\ h = {} => e2 = e
          /\ ManagedBook(h2, e2)
          /\ RiskRead(e, 0)
    /\ profitLocked' = TRUE
    /\ lockMark' = day
    /\ hit' = day
    /\ UNCHANGED <<envVars, up, eodMark, eodDue, starts, excuses>>

\* A locked day: the tick manages what is still open and returns.
TickLocked ==
    /\ TickRuns /\ phase = "entry" /\ LockedNow
    /\ Rollover
    /\ \E h \in SUBSET held, e \in Equities :
          /\ ManagePass(h, e)
          /\ held # {} => ~Breached(e)
          /\ ManagedBook(h, e)
          /\ IF held # {} THEN RiskRead(e, 0) ELSE RiskIdle
    /\ UNCHANGED <<envVars, up, eodMark, eodDue, starts, hit, excuses>>

\* RiskManager.evaluate lets the signals of new through, one after another,
\* on the book h with baseline base: equity is e2 before the first fill and
\* e3 after the last; every fill costs something, none gains.
Admitted(new, h, base, e2, e3) ==
    /\ ~killFile
    /\ -LossCap < e2 - base /\ e2 - base < ProfitTarget
    /\ TradesNow + Cardinality(new) <= MaxTrades
    /\ Cardinality(h) + Cardinality(new) <= MaxOpen
    /\ e3 <= e2
    /\ Cardinality(new) > 1 =>
          \E m \in Equities : e3 <= m /\ m <= e2 /\ -LossCap < m - base

\* The entry window: manage, then place what the risk gate admits.
TickTrade ==
    /\ TickRuns /\ phase = "entry" /\ ~LockedNow
    /\ Rollover
    /\ \E h \in SUBSET held, new \in SUBSET Symbols,
          e \in Equities, e2 \in Equities, e3 \in Equities :
          /\ ManagePass(h, e)
          /\ held # {} => ~Breached(e)
          /\ Pnl(e) < ProfitTarget
          /\ h = {} => e2 = e
          /\ new \cap h = {}
          /\ IF new = {} THEN e3 = e2 ELSE Admitted(new, h, Base(e), e2, e3)
          /\ ManagedBook(h \cup new, e3)
          /\ RiskRead(e, Cardinality(new))
    /\ UNCHANGED <<envVars, up, eodMark, eodDue, starts, hit, excuses>>

-------------------------------------------------------------------------------
(* The same tick, cut short by a cache operation that raises.  What comes   *)
(* before the heartbeat's write or after the last change is no action.      *)

CutShort == cacheUp' = FALSE /\ UNCHANGED <<day, phase, killFile, up, starts>>

\* The rollover clears the flag; it raises when it deletes the key, or the
\* tick does at its next read.
RolloverRaises ==
    /\ TickRuns /\ profitLocked /\ ~LockedNow
    /\ profitLocked' = FALSE
    /\ lockMark' \in {lockMark, 0}
    /\ CutShort
    /\ UNCHANGED <<held, equity, riskVars, eodMark, snap, missed, eodDue, hit,
                   excuses>>

\* The management pass raises in an exit or in a trailing stop.
ManageRaises ==
    /\ TickRuns /\ phase \in {"entry", "manage"} /\ held # {}
    /\ Rollover
    /\ \E h \in SUBSET held, e \in Equities :
          CutExits(held, h, e) \/ (h # {} /\ LostSave(h, h, e))
    /\ CutShort
    /\ UNCHANGED <<riskVars, eodMark, eodDue, hit, excuses>>

\* The pass is over and the first P&L read raises: the kill check's with
\* positions managed, else the target's or _publish_state's.
ReadRaises ==
    /\ TickRuns /\ phase # "close"
    /\ held # {} \/ phase # "entry" \/ ~LockedNow
    /\ Rollover
    /\ \E h \in SUBSET held, e \in Equities :
          /\ ManagePass(h, e)
          /\ ManagedBook(h, e)
          /\ \/ ResetRaises
             \/ (killFile /\ held # {} => phase = "pre") /\ CaptureRaises(e)
    /\ CutShort
    /\ UNCHANGED <<eodMark, eodDue, hit, excuses>>

\* The kill switch's or the profit lock-in's closes raise: neither the
\* marker nor the lock is reached.
ClosesRaise ==
    /\ TickRuns /\ phase \in {"entry", "manage"}
    /\ Rollover
    /\ \E h \in SUBSET held, h2 \in SUBSET held, e \in Equities, e2 \in Equities :
          /\ ManagePass(h, e)
          /\ IF held # {} /\ Breached(e) THEN ~EodSkips(TRUE)
             ELSE /\ phase = "entry" /\ ~LockedNow /\ h # {}
                  /\ Pnl(e) >= ProfitTarget
          /\ CutExits(h, h2, e2)
          /\ h = {} => e2 = e
          /\ IF held # {} /\ killFile THEN RiskReset ELSE RiskRead(e, 0)
    /\ CutShort
    /\ UNCHANGED <<eodMark, eodDue, hit, excuses>>

\* The lock-in closes, sets the flag and raises when it writes the key.
LockInRaises ==
    /\ TickRuns /\ phase = "entry" /\ ~LockedNow
    /\ \E h \in SUBSET held, h2 \in SUBSET held, e \in Equities, e2 \in Equities :
          /\ ManagePass(h, e)
          /\ held # {} => ~Breached(e)
          /\ Pnl(e) >= ProfitTarget
          /\ h2 \subseteq h
          /\ h = {} => e2 = e
          /\ ManagedBook(h2, e2)
          /\ RiskRead(e, 0)
    /\ profitLocked' = TRUE
    /\ lockMark' = IF profitLocked THEN 0 ELSE lockMark
    /\ hit' = day
    /\ CutShort
    /\ UNCHANGED <<eodMark, eodDue, excuses>>

\* An entry is filled and its save, or the write of the order that follows,
\* raises: the trade is not counted.
EntryRaises ==
    /\ TickRuns /\ phase = "entry" /\ ~LockedNow
    /\ Rollover
    /\ \E h \in SUBSET held, new \in (SUBSET Symbols) \ {{}},
          e \in Equities, e2 \in Equities, e3 \in Equities :
          /\ ManagePass(h, e)
          /\ held # {} => ~Breached(e)
          /\ Pnl(e) < ProfitTarget
          /\ h = {} => e2 = e
          /\ new \cap h = {}
          /\ Admitted(new, h, Base(e), e2, e3)
          /\ \/ ManagedBook(h \cup new, e3)
             \/ \E s \in new : LostSave((h \cup new) \ {s}, h \cup new, e3)
          /\ RiskRead(e, Cardinality(new) - 1)
    /\ CutShort
    /\ UNCHANGED <<eodMark, eodDue, hit, excuses>>

\* A close of the square-off raises, or the write of the marker after them.
EodCut ==
    /\ ~EodSkips(TRUE)
    /\ \E h2 \in SUBSET held, e2 \in Equities :
          CutExits(held, h2, e2) /\ (held = {} => e2 = equity)

SquareOffRaises ==
    /\ TickRuns /\ phase = "close"
    /\ Rollover
    /\ EodCut
    /\ CutShort
    /\ UNCHANGED <<riskVars, eodMark, eodDue, hit, excuses>>

TickCut ==
    \/ RolloverRaises \/ ManageRaises \/ ReadRaises \/ ClosesRaise
    \/ LockInRaises \/ EntryRaises \/ SquareOffRaises

Tick ==
    \/ TickSquareOff \/ TickKill \/ TickManage
    \/ TickLockIn \/ TickLocked \/ TickTrade
    \/ TickCut

-------------------------------------------------------------------------------
(* The scheduler's other jobs.                                             *)

\* The end_of_day cron: the same handler, in a job of its own.
EodJob ==
    /\ up /\ cacheUp /\ eodDue
    /\ eodDue' = FALSE
    /\ \E h2 \in SUBSET held, e2 \in Equities :
          /\ EndOfDay(TRUE, held, equity, h2, e2)
          /\ Book(h2, e2)
          /\ IF EodPublishes(TRUE, held) THEN PublishRead(e2)
             ELSE RiskIdle /\ UNCHANGED cacheUp
          /\ excuses' = excuses \cup Rejections(TRUE, held, h2)
    /\ UNCHANGED <<day, phase, killFile, up, profitLocked, lockMark, starts, hit>>

\* The job raises: at its read of the marker with Redis down, else in a
\* close or in the write of the marker.
EodJobRaises ==
    /\ up /\ eodDue
    /\ eodDue' = FALSE
    /\ \/ ~cacheUp /\ UNCHANGED <<held, equity, snap, missed>>
       \/ cacheUp /\ EodCut
    /\ excuses' = excuses \cup {"unswept"}
    /\ CutShort
    /\ UNCHANGED <<riskVars, profitLocked, eodMark, lockMark, hit>>

\* The machine sleeps through the six hours of misfire grace: the firing is
\* dropped.
Oversleep ==
    /\ up /\ eodDue
    /\ eodDue' = FALSE
    /\ excuses' = excuses \cup {"unswept"}
    /\ UNCHANGED <<envVars, up, held, equity, riskVars, profitLocked, eodMark,
                   lockMark, snap, missed, starts, hit>>

\* The 08:55 daily_reset wipes the intraday keys, never the memory; each of
\* its deletes may fail on its own.
DailyResetJob ==
    /\ up /\ cacheUp /\ phase = "pre"
    /\ snap' \in {snap, None}
    /\ lockMark' \in {lockMark, 0}
    /\ UNCHANGED <<envVars, up, held, equity, riskVars, profitLocked, eodMark,
                   missed, eodDue, starts, hit, excuses>>
-------------------------------------------------------------------------------
(* Process lifecycle.                                                      *)

\* What the constructors take from the cache (_load_starting_equity,
\* _restore_profit_lock, _restore_state): only what was stamped today.
\*
\* Mutants: a restart that forgets the baseline, or takes any day's.
RestoredBaseForgotten == None
RestoredBase ==
    IF baseMark = None THEN None
    ELSE IF baseMark.day = day THEN baseMark.val ELSE None

RestoredLock(l) == l = day

Todays(s) == s # None /\ s.day = day

\* The snapshot after a restore that ends with the book (h, e): gone if it
\* was stale, written again if positions were refused or swept.
\*
\* Mutant: refused positions stay in the snapshot.
RestoredSnapKept(s, h, e) == IF ~Todays(s) THEN None ELSE s

RestoredSnap(s, h, e) ==
    IF ~Todays(s) THEN None ELSE IF h = s.held THEN s ELSE Snapshot(h, e)

\* _startup_catchup sweeps a restored book after the square-off time.
Catchup(h) == phase = "close" /\ h # {}

\* The constructors read snapshot s and lock date l, restore the book (h, e)
\* and the catch-up leaves (h2, e2).  _restore_state may refuse single
\* positions (price divergence); the catch-up never touches the marker.
RestoredFrom(s, l, h, e, h2, e2) ==
    /\ h \subseteq (IF Todays(s) THEN s.held ELSE {})
    /\ IF ~Todays(s) THEN e = 0 ELSE s.held = {} => e = s.eq
    /\ IF Catchup(h) THEN EndOfDay(FALSE, h, e, h2, e2)
       ELSE h2 = h /\ e2 = e /\ eodMark' = eodMark
    /\ held' = h2
    /\ equity' = e2
    /\ snap' = RestoredSnap(s, h2, e2)
    /\ missed' = 0
    /\ IF Catchup(h) /\ RestoredBase = None
       THEN startEq' = e2 /\ baseMark' = [day |-> day, val |-> e2]
       ELSE startEq' = RestoredBase /\ baseMark' = baseMark
    /\ excuses' = excuses \cup
          (IF Catchup(h) THEN Rejections(FALSE, h, h2) ELSE {})
    /\ profitLocked' = RestoredLock(l)
    /\ lockMark' = IF RestoredLock(l) THEN l ELSE 0
    /\ hit' = lockMark'

\* scheduler.start: daily_reset, Executor(), _startup_catchup.  Each delete
\* of the reset may fail on its own without stopping the start, so what the
\* constructors read is either the cached value or gone.
Start ==
    /\ ~up /\ cacheUp /\ starts < MaxStarts
    /\ \E s \in {snap, None}, l \in {lockMark, 0},
          h \in SUBSET Symbols, h2 \in SUBSET Symbols,
          e \in Equities, e2 \in Equities : RestoredFrom(s, l, h, e, h2, e2)
    /\ up' = TRUE
    /\ riskDay' = day
    /\ trades' = 0
    /\ starts' = starts + 1
    /\ UNCHANGED <<envVars, eodDue>>

\* The start raises: a constructor's read or its repair of the snapshot, or
\* a close or the last read of the catch-up.  There is no handler yet: the
\* process ends with the fills saved so far.
StartRaises ==
    /\ ~up /\ cacheUp /\ starts < MaxStarts
    /\ \E s \in {snap, None} :
          \/ snap' = s
          \/ Todays(s) /\ \E g \in SUBSET s.held, e \in Equities : snap' = Snapshot(g, e)
          \/ ~Todays(s) /\ snap' = None
    /\ lockMark' \in {lockMark, 0}
    /\ cacheUp' = FALSE
    /\ starts' = starts + 1
    /\ UNCHANGED <<day, phase, killFile, up, held, equity, riskVars, profitLocked,
                   eodMark, missed, eodDue, hit, excuses>>

\* The process is gone, and its memory with it.
Gone ==
    /\ up' = FALSE
    /\ held' = {} /\ missed' = 0 /\ equity' = 0
    /\ riskDay' = 0 /\ trades' = 0 /\ startEq' = None
    /\ profitLocked' = FALSE /\ hit' = 0
    /\ eodDue' = FALSE

\* kill -9, power loss.
Crash ==
    /\ up
    /\ Gone
    /\ UNCHANGED <<envVars, eodMark, lockMark, baseMark, snap, starts, excuses>>

\* SIGTERM or SIGINT: _shutdown sweeps without the marker and exits.
Shutdown ==
    /\ up /\ cacheUp
    /\ \E h2 \in SUBSET held, e2 \in Equities :
          /\ EndOfDay(FALSE, held, equity, h2, e2)
          /\ snap' = IF h2 = held THEN snap ELSE Snapshot(h2, e2)
          /\ baseMark' = IF EodPublishes(FALSE, held) /\ BaseNow = None
                         THEN [day |-> day, val |-> e2] ELSE baseMark
    /\ Gone
    /\ UNCHANGED <<envVars, lockMark, starts, excuses>>

\* The sweep raises in one of its fills, the first one with Redis down; the
\* handler's finally clause still exits.  The snapshot keeps the fills that
\* were saved.  (A baseline of an earlier day, which the last read may have
\* deleted, is never read again.)
ShutdownRaises ==
    /\ up
    /\ \/ snap' = snap
       \/ /\ cacheUp
          /\ \E g \in (SUBSET held) \ {held}, e \in Equities : snap' = Snapshot(g, e)
    /\ Gone
    /\ cacheUp' = FALSE
    /\ UNCHANGED <<day, phase, killFile, eodMark, lockMark, baseMark, starts,
                   excuses>>

-------------------------------------------------------------------------------
(* The environment: the clock, the operator's file, the cache server.      *)

NextPhase == [pre |-> "entry", entry |-> "manage", manage |-> "close"]

ClockAdvances ==
    /\ phase # "close"
    /\ phase' = NextPhase[phase]
    /\ eodDue' = (up /\ phase' = "close")
    /\ UNCHANGED <<day, killFile, cacheUp, up, held, equity, riskVars,
                   profitLocked, eodMark, lockMark, snap, missed, starts, hit,
                   excuses>>

\* A new day dawns only after the scheduler dealt with the day's firing.
NewDay ==
    /\ phase = "close" /\ ~eodDue /\ day < MaxDay
    /\ day' = day + 1
    /\ phase' = "pre"
    /\ excuses' = {}
    /\ UNCHANGED <<killFile, cacheUp, up, held, equity, riskVars, profitLocked,
                   eodMark, lockMark, snap, missed, eodDue, starts, hit>>

OperatorTogglesKillFile ==
    /\ killFile' = ~killFile
    /\ UNCHANGED <<day, phase, cacheUp, up, held, equity, riskVars,
                   profitLocked, eodMark, lockMark, snap, missed, eodDue, starts,
                   hit, excuses>>

CacheToggles ==
    /\ cacheUp' = ~cacheUp
    /\ UNCHANGED <<day, phase, killFile, up, held, equity, riskVars,
                   profitLocked, eodMark, lockMark, snap, missed, eodDue, starts,
                   hit, excuses>>

Next ==
    \/ Tick
    \/ EodJob \/ EodJobRaises \/ Oversleep \/ DailyResetJob
    \/ Start \/ StartRaises \/ Crash \/ Shutdown \/ ShutdownRaises
    \/ ClockAdvances \/ NewDay \/ OperatorTogglesKillFile \/ CacheToggles

Spec == Init /\ [][Next]_vars

\* APScheduler runs a due job of a live, awake process; nothing else is
\* promised: not the clock, the operator, the market or the cache server.
FairSpec == Spec /\ WF_vars(EodJob \/ EodJobRaises)

-------------------------------------------------------------------------------
(* Properties.                                                             *)

\* Executor._end_of_day's marker tells the truth: once it carries today's
\* date the live book is flat, unless the mid-session kill path wrote it or
\* a close was rejected.  Ticks, the cron, crashes and restarts interleave.
MarkerMeansFlat ==
    (eodMark = day /\ excuses \cap {"killed", "rejected"} = {}) => held = {}

\* The intraday mandate: a running bot carries no position into the next
\* trading day, except for the recorded reasons (a rejected close, the kill
\* path's marker, a square-off firing that was dropped or raised).
FlatOvernight ==
    [][day' # day => held = {} \/ excuses # {}]_vars

\* After _lock_in_for_day no entry is filled for the rest of the day, by the
\* process that locked it or by one that restored the lock.
NoEntryAfterTarget ==
    [][(hit = day /\ up /\ up') => held' \subseteq held]_vars

\* A lock that blocks entries was earned today, by some process: the flag,
\* its cache key, the tick's rollover and daily_reset never leave yesterday's.
LockIsTodays ==
    (up /\ LockedNow /\ phase # "close") => hit = day

\* risk:starting_equity is written once per day: no restart, sweep or kill
\* re-bases the daily P&L after it.
BaselineFixedForDay ==
    [][(baseMark # None /\ day' = day) =>
          (baseMark.day = day => baseMark' = baseMark)]_vars

\* The baseline in memory and the one in the cache never disagree about a
\* day: a capture whose write was lost leaves no key of that day behind.
BaselinesAgree ==
    (up /\ baseMark # None /\ baseMark.day = riskDay) => startEq = baseMark.val

\* paper:state falls behind the live book by at most one symbol per write
\* that failed since the last one that succeeded: with none lost, what a
\* restart would restore is the book, and nothing older ever comes back.
Apart(a, b) == (a \ b) \cup (b \ a)

SnapshotLag ==
    (up /\ snap # None) => Cardinality(Apart(held, snap.held)) <= missed

\* The concurrent-position cap holds through restores, partial exits and
\* re-entries in the same tick.
OpenCap == Cardinality(held) <= MaxOpen

\* Positions open when the square-off firing falls due do not stay open: the
\* scheduler's job closes them, unless the process dies or an excuse is noted.
SquareOffCompletes ==
    (up /\ eodDue /\ held # {}) ~> (~up \/ held = {} \/ excuses # {})
===============================================================================
