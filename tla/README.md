# A TLA+ model of Trading-Kavach

This directory specifies the intraday trading bot in `src/`: what one trading
process does to its positions, its money and its saved state over a day, over
restarts, and against its own other threads.  The modules are checked by TLC on
small instances (`*.cfg`), and every safety and action property the runs check
is proved for all values of the constants with TLAPS (`*_proofs.tla`).  Around
that process it specifies how the bot gets its bars, what becomes of its orders
on a live account, what an order must pass before it is sent, and the jobs that
watch over the bots and change the fee rates they run under.

1. [The system](#1-the-system)
2. [Modules](#2-modules)
3. [Runs, bounds and results](#3-runs-bounds-and-results)
4. [Fairness](#4-fairness)
5. [Proofs](#5-proofs)
6. [Where the code and its documents disagree](#6-where-the-code-and-its-documents-disagree)
7. [What is not modelled, and why](#7-what-is-not-modelled-and-why)
8. [Plan](#8-plan)

## 1. The system

Two *segments* (`equity`, `fno`) are two processes that share nothing but the
Redis server and the project directory: each has its own lock file, cache keys,
capital, risk caps and journal.  All modules but `FeeUpdate` and `Upkeep` are
about one segment.

A day has four windows: before `trade_start` (09:30), the entry window until
`trade_cutoff` (13:30), management only until `square_off` (15:15), and the
close.  APScheduler runs the jobs on a thread pool: `tick` every minute,
`end_of_day` at 15:15 (with six hours of misfire grace), `daily_reset` at 08:55,
and the audits, health checks and reports.  A SIGTERM or SIGINT handler sweeps
the book on the main thread.

| component (source) | state | operations | what makes it correct |
|---|---|---|---|
| executor (`bot/executor.py`) | profit-lock flag, trail states per symbol, cache keys `eod_done`, `profit_lockin` | `tick`, `_manage_open_positions`, `_lock_in_for_day`, `_place`, `_close_position`, `_end_of_day` | flat overnight; no entry after the target; stops only tighten; one sweep closes what was open and nothing else |
| risk manager (`bot/risk.py`) | day, trades today, starting equity (also in `risk:starting_equity`) | `evaluate`, `daily_loss_kill_breached`, `profit_target_hit`, `record_trade` | one baseline per day; caps hold; the equity is what the account is worth |
| paper broker (`bot/broker/paper.py`) | cash, positions, marks, `paper:state` | `place_order`, `square_off_all`, `update_marks`, `_restore_state`, `_persist` | no order makes or loses money; margin covers the worst case; the snapshot is the book |
| journal (`bot/journal.py`) | open trades in memory, event files | `record_fill`, `_emit_close`, reports | the statement agrees with the cash |
| scheduler (`bot/scheduler.py`) | job store, signal handlers | `start`, `_startup_catchup`, `_shutdown` | the square-off happens; a start wipes and restores in an order that loses nothing it promises to keep |
| daily reset (`bot/daily_reset.py`) | - | deletes the segment's intraday keys | each delete may fail alone |
| cache (`bot/cache.py`) | Redis, or a dictionary | get, set, delete | an outage stops handlers at their first access |
| process lock (`bot/lock.py`, `cli.py`) | lock file, flock, process id | `acquire`, `release`, signal and exit handlers | one bot per segment |
| market data (`bot/data.py`, `bot/data_sources/*`) | bar cache, stale copy, the chosen source, a thread-local re-entry flag | `intraday_bars`, `latest_quote` | no forming bar, nothing older than the cutoff, every request ends |
| live broker (`bot/broker/zerodha.py`; `dhan.py` is a stub) | Kite's book and its open orders | `place_order`, `positions`, `cash`, `square_off_all` | one entry per symbol; a failed read stops no healthy day; flat after the square-off |
| Kite feed (`bot/feeds/kite_ws.py`) | last ticks in the cache | connect, on_ticks | nothing in the bot reads them |
| strategies, ensemble (`bot/strategies/*`) | none | `generate`, vote | stop and target on the right sides of the price |
| indicators, option pricing | none | series, premiums | - |
| fees (`bot/fees.py`) | rate constants in a source file | round-trip fee, fee edge | one table from entry to exit |
| fee audit (`bot/fee_audit.py`) | report in the cache | read pages, verdict per rate | the sources that agree prevail |
| fee update (`scripts/eod_apply_fee_updates.py`, `clean*.py`) | rates file, its backup, the bots | audit, patch, stop, clean, wipe, launch | no position lost or re-rated; bots come back |
| preflight (`scripts/premarket_preflight.py`) | list of step results | fourteen steps, cleanups | no start on corrupt books |
| health check (`bot/healthcheck.py`) | report in the cache | checks over the cache | a neglected position is reported |
| holidays, watchlist, dashboard, other scripts | cache keys, files | reports and repairs | - |

Interactions: the scheduler calls the executor; the executor reads bars, asks
the risk manager, sends orders to the broker and hands every fill to the
journal; risk manager and broker write through to the cache, from which a new
process rebuilds them after `daily_reset` has deleted what it deletes.  The
threads share the broker's dictionary, the trail states and the cache without a
lock.

The hard behaviours are

* three threads (tick, cron, signal handler) over one book, with a marker that
  is read at the head of a handler and written at its end;
* restarts in the middle of a day, with keys that may or may not have survived;
* state that outlives what it describes: the end-of-day marker, the profit lock,
  trail states, the lock file's process id, the rates a bot has loaded, the bars
  in two caches;
* money: five cash-flow models for five kinds of instruments, and an equity
  formula that must undo each of them;
* data that is missing for a minute, an hour or for good.

`PROJECT.json` lists them one by one under `hazards`, each at its line and with
the properties that would notice it going wrong.

## 2. Modules

| module | what it models | built from |
|---|---|---|
| `TradingDay` | one process over several days: every handler is one action | `executor.py`, `risk.py`, `scheduler.py`, `daily_reset.py`, restore half of `paper.py` |
| `EodRace` | the same handlers step by step, in three threads | `executor.py`, `paper.py`, `scheduler.py` |
| `TrailStop` | a management pass position by position: stop, target, trailing stop, missing data | `executor.py`, restart |
| `LiveBroker` | the executor on a Kite account: orders that fill late or not at all, calls that fail | `zerodha.py`, `executor.py`, `risk.py` |
| `EntryRules` | the levels each strategy attaches to a signal, and the ensemble's vote | `strategies/*`, `ensemble.py` |
| `EntryGate` | the last gate before an order: size, fee edge, and the risk of a day of such orders; extends `EntryRules` | `risk.py`, `fees.py` |
| `PaperBroker` | the cash, margin and cost basis of every order | `paper.py`, `risk.py` (`_equity`), `margin.py` |
| `Ledger` | what the broker promises: an account that moves by price times quantity and fees | abstract; refined by `PaperBroker` and `Journal` |
| `Journal` | the round trips of the fills, composed with `PaperBroker` (every fill is a joint step) | `journal.py`, `executor.py` |
| `BotLock` | the lock file, several starting and stopping processes, the operator | `lock.py`, `cli.py`, `premarket_preflight.py` |
| `MarketData` | threads asking for bars through caches and a re-entrant chain of sources | `data.py`, `data_sources/*`, `cache.py` |
| `FeeAudit` | reading three price pages, the verdict per rate, the patch | `fee_audit.py`, `eod_apply_fee_updates.py` |
| `FeeUpdate` | applying the patch: file, backup, stop, clean-ups, restart, beside trading bots | `eod_apply_fee_updates.py`, `clean_redis_session.py`, `cleanup_*.py` |
| `Upkeep` | the pre-flight with its cleanups; then a day of ticks under the health check | `premarket_preflight.py`, `healthcheck.py`, the traces `executor.py` leaves |
| `*_proofs` | the theorems about the module of that name; `Operations_proofs` about `BotLock` and `Upkeep`, `Money_proofs` about `EntryGate`, `PaperBroker` and `Journal`, `Fees_proofs` about `FeeAudit` and `FeeUpdate` | |
| `MC*` | the instance that TLC checks | |

`PROJECT.json` maps every definition to the lines it translates.  Names follow
the code; where a definition has a sibling with a suffix (`EndOfDayAlwaysMarks`)
and a comment that says *mutant*, that is the definition with a bug a programmer
could have written, kept to show that the property it is listed with notices it.

**TradingDay.** `up` is the process; `held`, `equity`, `trades`, `riskDay`,
`startEq`, `profitLocked` are its memory; `eodMark`, `lockMark`, `baseMark`,
`snap` are the cache keys.  A tick is one of six actions, by the path it takes
through `Executor.tick` (square-off, kill switch, manage, lock-in, locked day,
trade).  Redis may also go away in the middle of a handler: the operation
raises, what came before it stays done and the rest is not.  Each place where
that leaves something behind is an action (`RolloverRaises`, `ManageRaises`,
`ReadRaises`, `ClosesRaise`, `LockInRaises`, `EntryRaises`, `SquareOffRaises`,
`EodJobRaises`, `StartRaises`, `ShutdownRaises`): a fill or a trailed stop is in
the book before `_persist` raises (`LostSave`), the baseline is in memory before
it is written (`CaptureRaises`), the counters are rolled over before yesterday's
baseline is deleted (`ResetRaises`).  `missed` counts the snapshot writes lost
since the last that succeeded.  Equity is a small integer relative to the
capital: it moves freely while positions are open and never when the book is
flat.  `Start` does what `scheduler.start` does in its order: reset, where each
delete may fail by itself, then the constructors, then the catch-up sweep.
`excuses` records why a square-off may have left something (the kill path wrote
the marker, a close was rejected, the firing was dropped or raised), so that the
properties say exactly when the book is flat.  Starts are taken with Redis
reachable (otherwise the process would run on its in-memory cache), a tick whose
ensemble is empty is a tick without an entry, and weekends are left out.

**EodRace.** `place_order` is split where it reads and where it settles; the
handlers at every access to shared state.  Orders are for whole positions and
may be raced by a close of another thread; what the broker's guards reject, what
raises and what is booked as a new position follows the code for each kind. The
sweep of the profit lock-in, which runs inside a tick before 13:30, is not among
the threads' handlers.

**TrailStop.** A pass takes the held symbols in any order (the dictionary's
order depends on when each was opened).  Each position is met by a bar and an
ATR, by the broker's last mark, or by nothing.  `Raise` is the code's exception
when an active trail meets an empty frame: the rest of the pass, and its marks,
are lost.  `EndOfDay` leaves the trail states, `LockIn` clears them, `Restart`
forgets them and keeps or loses the book.  Prices are integers below a tick, so
that rounding is visible.

**PaperBroker, Ledger.** A position has its quantity, the cost it was booked at
and the margin it locks.  An entry, an addition, a close, a flip and an (iron
condor or vertical) spread's buy-back each change the cash by the formula of
their branch.  `Ledger` knows only `account' = account - price * quantity -
fee`; the refinement maps a position's withheld money back.  The orders are
those the books are made for (`Supported`): the executor sends entries and whole
exits; additions, flips of futures and partial exits of spreads, for which the
broker has branches of their own, go beyond that; a partial exit of a share, or
a flip of one, is left out.  An amount is a small integer.

**Journal.** `Execute` is a fill and its `record_fill` together, as in `_place`
and `_close_position`.  `Restart` keeps the book and empties the journal; the
next close rebuilds the entry from the broker's position.

**BotLock.** Files are inodes, `path` says which of them the name leads to.
`acquire` is open, flock, (with `--force-lock`) unlink, write; `release` is
unlock and close, then unlink.  The operator may delete a file which the
preflight calls an orphan, at any moment.

**LiveBroker.** `net` and `flight` are Kite's, the rest is the bot's.  Every
call over the network may fail in the way the adapter shows it: `positions()` as
an empty book or a part of it, `cash()` as zero, `place_order()` as REJECTED
although Kite may have the order.  An equity is two calls (`ReadCash`, then the
positions in `Read`); a reading is true when both worked and nothing filled in
between, else it may be anything, a profit as well as a loss, and if it was the
day's first it stays in the baseline.  A tick is cut where the executor makes a
call: kill switch, lock-in check, list of signals, each entry.  Two other reads
that follow one another without a decision between them, and an order with the
read of the book before it, are one step.  The kill switch looks for the file
KILL_SWITCH (`halted`, the operator's) before it reads an equity.  A start
deletes the profit lock, unless that delete fails, and forgets the count of
trades.  The jobs run one at a time; `Fill` and `Reject` happen beside them.
Kite's positions carry no levels, so the management pass closes nothing.
Histories say when an order met another (`doubled`), why a square-off may have
left something (`excuse`) and whether a reading of the equity was false
(`misread`).

**EntryRules, EntryGate.** A strategy sees a direction, a price, a true range
and premiums; which, is a free choice, so that every combination of indicator
values is covered.  The levels, HOLD conditions and the vote follow the code;
the rounding to paise of an option's levels after they were checked
(`option_buy.py:322`, `332`) is the identity. A vote merges levels, so the
strategies of a line-up have to speak of one price: any number of those on the
underlying, or one on a derivative alone, as `config.yaml` says of its own
("incompatible numeric scales").  The gate takes any signal of a line-up with
any cash, sizes it, compares target with fees, and opens it; positions end at a
stop, a target, or in a sweep at any profit between.  A size is a share of the
configured capital (`risk.py:488`); the loss and the profit of the day are
shares of the equity the day began with (`risk.py:342`), which a process that
runs on carries over from the days before: `Capital` and `began` are two
numbers, and `CapsAssumption` compares percentages, as the constructor does.  A
target of zero is none.  A long future counts its whole price as profit, as
`_equity` does.  A position's risk is that of its signal's prices; what an order
costs beyond its price (slippage, fees) is a toll, any of `Tolls`, paid at every
entry and exit.

**MarketData.** A caller runs through `intraday_bars` step by step: routing, the
chain's first member, the nested call with the thread's flag set, cache, fetch,
stale copy.  Routing is four steps when no source is installed: the look under
the registry's lock (`Route`), the look for a verdict on Dhan (`Resolve`), the
probe (`Ping`) and the write (`Install`); the lock is not held in between, so
first callers that probe at different moments go on with different sources, and
the last write stays for the life of the process.  A frame is the start of its
last bar and the time of its fetch.  Dhan's adapter takes the time before it
asks; `history` takes it after Yahoo answered, so that a bar that closes in
between stays, with the prices of the fetch.  Sources come, go and lag; Redis
fails and recovers, and what a process took for its cache when it first asked it
keeps.

**FeeAudit.** A page is its rows: label, date in force, cells.  Parsing finds a
row by its label and takes the n-th percentage from there on, in the next rows
too if the row has too few (`Nth`); the readings are numbered by their source,
and `_verdict`'s loop makes the heads of its clusters (`Heads`), which the other
readings join.  The actions are an audit, the patch made of it, and the next day
with its pages.  The law may change a rate on the second day.

**FeeUpdate.** One rate stands for a segment's table; a half-written file is
`<<>>`.  The script's steps are actions of their own, since bots trade, crash
and are restarted between them.  The stop finds the bots by their command line
(`unseen` are those without `--paper`, which trade on paper all the same) and
leaves the others running.  `excused` is set by each step against the procedure
(running in trading hours, leaving the bots up, Redis out of reach, refusing the
restart, a repair by hand, a script killed half-way) and by a stop that missed a
bot, and the properties speak of the rest.

**Upkeep.** The fourteen steps in order, each with any status its code can
return, those that read the caches with what the caches hold.  The books check
gives a signature with its result, from which the cleanup is chosen; it may also
find no cache, and skip itself, or, Redis gone since the step before, the empty
one in memory, and pass (`unread`).  Cleanups may fail or be made for the other
segment's corruption.  After the decision the day begins: minutes in which the
tick job ticks, stalls or raises and the position's bars are there or not; the
profit lock-in locks the day whether or not its closes were taken; the heartbeat
grows old and, its key living for an hour, may be gone (`Gone`).  `HealthCheck`
reads only what the code reads (heartbeat, signals, positions); a check that
raises is a warning (`raised`).

## 3. Runs, bounds and results

All passing runs explore their complete state space, of up to one and a half
million states.

| run (`.cfg`) | question | bounds and why they are enough |
|---|---|---|
| `trading_day` (`MCTradingDay`) | are the day's flags, in memory and in Redis, consistent, and is the book flat overnight but for recorded reasons? | two symbols that may both be open (a handler can be cut between two fills, a re-entry can be in the other); two days (a flag can be a day old); two starts (a restart after anything); two levels of equity (a baseline at either, so that a loss of the cap and a gain of the target both happen); one snapshot write lost since the last that succeeded |
| `eod_race` (`MCEodRace`) | which duplicate closes do the guards absorb, and does the square-off complete? | three threads; two symbols (a sweep has a middle); one entry per symbol; cash segment or option strategies |
| `trail_stop` (`MCTrailStop`) | do stops only tighten and keep their share of R, over missing data, sweeps and restarts? | two symbols (a pass can end between them); a stop whose locked-in share rounding can take away entirely and one where it cannot; bars below, between and above entry and target; ATR zero (falls back to R) and not; a tick of four units |
| `paper_broker` (`MCPaperBroker`) | do all cash flows keep one ledger, does margin cover the worst case, does the journal agree? | two symbols of either segment; two prices below a spread's width; orders of up to three units and positions of up to two, so that entry, addition, partial and whole exit and flip all fit in four fills; restarts anywhere |
| `bot_lock` (`MCBotLock`) | when can two bots run, does every start end? | three processes (one leaves, one slips in, one finds a new file) and one file more |
| `live_broker` (`MCLiveBroker`) | what can be sent twice, what stops a day, is the account flat after the square-off? | two symbols under a cap of one; two entries (a second order can meet the first, in the same symbol or past the cap); one start after the first, with or without the lock; the operator's file comes and goes without bound |
| `live_marker_without_close` | violated, see section 6 | the same |
| `market_data` (`MCMarketData`) | what may a caller be handed, in which order are sources asked, does every request end? | two threads (one may run inside the other's request, or resolve the source beside it); a unit is a minute: bars of two, cache of one, stale copy of four, verdicts of one, a fetch of up to one, a source lagging by one bar, five minutes in all: a bar can close during a fetch, be cached, expire, be served stale and pass the cutoff, a verdict can change between two probes |
| `fee_audit` (`MCFeeAudit`) | can a spoiled page outvote honest ones, does OK mean near? | three sources (the smallest majority); one spoiled at a time; two days with a change below twice the tolerance in one rate and a large one in another; mistaken values between old and new rate, and another column's |
| `fee_update` (`MCFeeUpdate`) | does a fee update change the rate of a position, lose one, or leave the bots down? | two segments, two values of a rate; scripts, crashes and starts, with `--paper` or without, without bound |
| `upkeep` (`MCUpkeep`) | does the pre-flight let bots start on bad books, is a neglected position reported? | both segments' books in all five conditions, F&O's bot possibly running; ages up to four minutes, one over the largest limit, and an expired heartbeat |
| `entry_gate` (`MCEntryGate`) | are the levels coherent, is the size the largest allowed, what can a day lose? | two underlyings (interchangeable), two strikes; four trades under an open cap of two (a day can lose, re-enter and lose); 1% a trade and 2% a day, as configured for equity, of a capital, and days begun below and above it; a profit target or none; prices, ranges and premiums below, at and above every threshold the rules compare; a toll of 50 an order |

What the passing properties say:

* `MarkerMeansFlat`, `FlatOvernight`, `SquareOffCompletes`: the end-of-day
  marker is true, the mandate to be flat overnight holds, and the 15:15 firing
  gets there - in each case except for reasons the model writes down, and with
  every write to Redis liable to raise after the change it was to save.
* `BaselineFixedForDay`: loss cap and target are measured from one baseline per
  day, also after restarts and lost writes.  `SnapshotLag`: the saved book is
  apart from the live one by at most one symbol for each write that failed since
  the last that succeeded - with none lost and the key not deleted, it is the
  book.
* `SweepsOpenNothing`, `ExitsWereCredited`, `StopSweepsAll`, `SquareOffHappens`:
  which races the broker's guards make harmless, and that the square-off
  nevertheless completes.
* `NeverLoosened`, `LockedIn`: a stop moves in one direction only, half a tick
  of rounding aside; once trailed it keeps the promised share of the original R,
  even though a restart rebuilds R from the moved stop.  `LockedIn` is about
  positions with a trail of their own (section 6).
* `KeepsLedger`, `DefinedRisk`, `EquityIsWorthButLongFutures`: the refinement;
  margin and credit of a spread pay for its widest buy-back; the equity formula
  is the account's worth on each book without a long future.
* `JournalAgrees`: per symbol, closed trades plus the cost of the open one are
  what the orders did to the account, but for the entry fees a restart forgot.
* `TwoNeedTheft`, `OrphanHasNoBot`, `StartEnds`: two bots run at once only after
  the file was unlinked under one of them; deleting an orphan never hits a
  running bot; no start waits.
* `OneEntryPerSymbol`: on a live account a symbol is exposed twice only if an
  order met another in flight or went out onto a book that could not be read.
  `EarlyStopIsEarned`: a day is stopped early by a true loss or gain, by the
  operator's file, or after a reading of the equity was false, since a call
  failed or an order filled between the two calls.  `SquareOffSettles`: after
  square-off the account gets flat, or one of four named things went wrong.
* `NoFormingBar`, `RecentOrYoung`: what a strategy is handed is complete, and,
  with Redis, recently fetched or younger than the cutoff (in memory nothing
  expires: section 6). `DhanIsAskedFirst`, `RequestsEnd`: Yahoo and the caches
  answer a request only after Dhan was asked, or when the registry gave that
  request Yahoo on a verdict of the probe; neither another thread's re-entry
  flag nor a source another thread installs makes a request skip Dhan; and the
  recursion ends.
* `HonestMajority`, `NeverOutvoted`, `QuietMeansNear`: two honest sources
  prevail over any third, no value is patched against a larger group, and OK
  means that nothing read is further off than twice the tolerance.
* `OneRatePerPosition`, `PositionsAreClosed`, `Recoverable`,
  `StopIsFollowedByStart`: as long as the procedure is kept, and the stop has
  found every bot, a position is closed under the rate it was opened under and
  never disappears; a half-written file can be put back; bots that were stopped
  are launched.
* `GoIsEarned`, `GoMeansSane`: no start with a critical step failed or skipped,
  or on books with either known corruption - unless the books check met a Redis
  that had gone since the step before (`unread`), when it skips itself or passes
  an empty cache.  `UnmanagedIsReported`: a position that one cause has left
  unmanaged for over three minutes makes the next check fail, unless the checks
  that see that cause raise, and is never reported as OK; a stall of over an
  hour, whose heartbeat has expired, shows in the signals alone.
* `OrdersAreCoherent`, `LargestSize`: stop and target of every order that passes
  are on the right sides, and its size is the largest the caps allow.
  `OpenRiskWithinDailyCap`, `DayLossBounded`: the open stops together, at the
  signals' prices, stay within the daily percentage of the configured capital; a
  day may lose that, the same percentage of the equity it began with, the profit
  that counted as unrealised at the last entry, and a toll for each position the
  cap allows and for one entry, and no more (section 6).

Type correctness is part of the proofs (section 5). In `eod_race`, `bot_lock`,
`live_broker`, `fee_audit`, `fee_update`, `upkeep` and `entry_gate` deadlock is
not checked: threads, processes, the day or the bounded number of orders may end
there.

## 4. Fairness

* `TradingDay`: weak fairness of the `end_of_day` job while it is due, whether
  it succeeds or raises (`EodJob \/ EodJobRaises`; one that raises is an
  excuse). APScheduler runs a due job of a live process within its grace;
  nothing is promised of the clock, the operator, Redis or the market, and a
  process that dies or sleeps through the grace is an excuse the property names.
* `EodRace`: weak fairness of each thread that is inside a handler, and of the
  firing of tick and cron: the operating system schedules threads and
  APScheduler has a pool with room for them.  No fairness for the signal or for
  entries.
* `BotLock`: weak fairness of the steps of a process that is acquiring or
  releasing: they do not block (`LOCK_NB`).  None for launching, exiting or
  crashing.
* `MarketData`: weak fairness of each thread's steps, those that resolve the
  source included: the registry's lock is held for single statements only, and
  requests over HTTP have timeouts and a bounded number of retries, so a probe
  or a fetch returns or fails.
* `LiveBroker`: weak fairness of the square-off job while it is due, and of the
  exchange for each symbol: a market order is filled or rejected in the end.
* `FeeUpdate`: weak fairness of the script as a whole; being killed is a step of
  the environment.
* `FeeAudit`, `EntryGate`, `Upkeep`, `PaperBroker`, `Journal`, `TrailStop` have
  no liveness property.

## 5. Proofs

`tlapm` checks every leaf with SMT (Z3), Zenon or, for the temporal steps, LS4.
Each proof shows `Init => Inv` and `Inv /\ [Next]_vars => Inv'` for a
strengthened `Inv`, with one step per action, and concludes with PTL.  The
proofs use the named assumptions of the modules (`ConfigAssumption`,
`LockAssumption`, `BrokerAssumption` and so on, evaluated by TLC on each run):
positive caps, prices and quantities that are natural numbers, constants that
are not numbers where they stand for "no value".  Those that say more than that
are named below.

All 33 safety and action properties of the passing runs are theorems; the six
that are not are liveness.

* **TradingDay_proofs.** Every safety and action property of the run, and four
  that are only proved: `NoEntryAfterTarget` and `LockIsTodays` (the profit lock
  ends the entries of the process that set it, and no day is locked by another),
  `BaselinesAgree` (a day's baseline in memory and in the cache are one, though
  memory has it first) and `OpenCap` (the cap over exits, entries and restores).
  A cut handler is covered by lemmas on what cuts have in common (`CutBook`,
  `CutRisk`, `CutLock`, `CutShrinks`): the book loses symbols or gains those the
  gate admitted, the snapshot is one of a book on the way.  `MarkerMeansFlat`
  alone is not inductive: the invariant adds that marks are never of a later day
  (`StampsInv`), that without the kill path a marker of today is written in the
  closing phase only, and that a dead process holds nothing (`SquareOffInv`).
  `NoEntryAfterTarget` needs that a lock of this run is still in memory (the
  rollover must not clear it), and that in turn that `riskDay` cannot run ahead
  of the day.  `OpenCap` needs the same bound for saved books.
* **EodRace_proofs.** `SweepsOpenNothing`, `ExitsWereCredited` and
  `StopSweepsAll` for any number of symbols and entries.  The heart of the
  invariant is that an entry is placed on a symbol only while no sweep has it
  before it: once it is late the tick no longer enters, the cron starts late,
  and what the SIGTERM sweep lists is held until that sweep reaches it, so the
  tick does not choose it (`Roles`, `HeldTillSwept`, `NoRival`).  Hence an order
  of a sweep meets the position it was made for, or none (`Shapes`), and the
  guards of `place_order` do the rest.  `Credited` counts, beside the rows
  written, the closes a sweep has yet to write.
* **LiveBroker_proofs.** `OneEntryPerSymbol` and `EarlyStopIsEarned` for any
  watchlist, limits and number of orders.  What is in flight of a symbol that no
  order met another on is one entry of a flat symbol or the close of the unit
  held (`Single`); a baseline that is false was taken in a false reading, which
  stays on record (`FalseIsKnown`).
* **Operations_proofs**, the lock.  `TwoNeedTheft` and `OrphanHasNoBot` for any
  number of processes and files, from: a file is locked by one process only, and
  a process whose open file is not the one the name leads to had it unlinked by
  somebody.  Only proved: `PidNamesHolder`, the process id in the file is the
  holder's.
* **Operations_proofs**, pre-flight and health check.  `GoIsEarned`,
  `GoMeansSane` and `UnmanagedIsReported`, for any limit of the ages above three
  minutes.  The invariant has to say why a step that is not run is no loophole:
  a critical step is skipped only after a failure, or, the books check, for want
  of a cache, and either stays on record (`SkipsFollowFailures`); past
  `paper_state_clean`, unless a failure or an unread cache is on record, the
  books of a segment without a bot are sound, whatever the cleanups after it do
  (`SoundBooks`); and the ages that the checks read are at least as old as the
  cause that left the position alone (`AgesShow`).
* **Money_proofs**, sums.  The equity, the open risk and the open gain are sums
  over a book of any size.  A sum of the community modules is a recursive
  function on subsets that takes off an element of its own choice; that it may
  take off any other element first, and hence what an entry or a close does to
  the sum, follows from a subset of smallest size at which it would fail.  What
  the gate and the broker add up rests on these lemmas.
* **Money_proofs**, the gate.  `OrdersAreCoherent`, `LargestSize`,
  `OpenRiskWithinDailyCap` and `DayLossBounded`, for any prices, ranges,
  premiums, history and line-up.  Each strategy's levels are on the right sides
  of its price, or it holds; a merge of coherent signals on one price is
  coherent.  `GateInv` adds that no position risks more than the cap per trade
  and that there are no more of them than the cap allows, so that the caps'
  product, a percentage of the capital, bounds the open risk, and keeps beside
  the realised loss what the last entry counted as profit (`hidden`) and a toll
  for each open position.  An entry is admitted above the daily percentage of
  the equity the day began with and adds a risk within that of the capital; an
  exit at the stop moves a position's risk and its toll to the realised loss.
  The assumptions: the percentage per trade times positions is within the daily
  one (`CapsAssumption`: the constructor refuses other limits); a line-up speaks
  of one price and a toll has a bound (`GateAssumption`); and a price is far
  enough from zero that no level is rounded to nothing (`MarketAssumption`). The
  theorem on `DayLossBounded` assumes `DailyCapPct > 0`: with a cap of zero
  nothing is ever traded, and a loss "below" twice the cap is false.
* **Money_proofs**, broker and journal.  `KeepsLedger` (the refinement),
  `DefinedRisk` and `EquityIsWorthButLongFutures`, with restarts and the journal
  beside them, and `JournalAgrees`.  One lemma for every kind of fill says that
  the change of the cash and the change of what positions withhold add up to
  price times quantity and fee; the type invariant is what makes it true: only
  futures and spreads lock margin, options are held long and spreads short, a
  flipped future locks nothing.  The journal's invariant ties an open trade to
  the broker's position (side, quantity and, unless there was a partial exit,
  cost).
* **MarketData_proofs.** `NoFormingBar`, `RecentOrYoung` and `DhanIsAskedFirst`
  for any number of callers and any times.  What makes them inductive is what
  waits between two steps: a frame that was fetched and is not yet cached is
  complete and as old as a fetch may take (`FramesWait`), a cached one is
  complete and expires in time (`CacheKeeps`), and a request past its routing
  has asked Dhan or was itself given Yahoo, unless it is inside the chain, which
  is where alone the flag is up (`AllRouted`).  What the registry has installed
  by then is no part of it, since another thread may change it at any step.
* **Fees_proofs**, the update.  `OneRatePerPosition`, `PositionsAreClosed` and
  `Recoverable` for any segments and rates.  `Table` is the file, or its backup
  while the file is half written; while the procedure is kept, every position
  was opened under it, every bot runs under it except between patch and stop,
  and there is no position while the script works (`Kept`); a bot that the stop
  missed is where keeping the procedure ends. That there is none needs that a
  running bot's snapshot is missing only if it holds nothing, because that is
  what the script looks at.
* **Fees_proofs**, the audit.  `HonestMajority`, `NeverOutvoted` and
  `QuietMeansNear` for any law, number of days and mistaken values, and with any
  number of the three pages spoiled.  A parser that starts at the right row
  reads the cell of that row as long as it has enough (`ReadInRow`, by counting
  the places before it), so an honest page is read as meant whatever follows.
  The heads are exactly the readings close to no earlier head (`HeadsAre`);
  equal readings are in one cluster; so of three readings two that are equal are
  in the largest, since another as large would have to share a member with it.
  The invariant `AuditInv` only says that the rates are numbers and the last
  audit's result is that of three pages of the day.
* **TrailStop_proofs.** `NeverLoosened`, `LockedIn` and, only proved,
  `BehindBest` (a stop never passes the best price seen, so that a fill at it is
  a price there has been), for any prices, tick, lock-in fraction and ATR
  multiple.  `LockedIn` is not inductive by itself: after a restart R is the
  distance to the stop as it stands, and the floor computed from it is lower
  than the promised one.  The invariant (`Own`) adds that a stop that has been
  trailed is on a tick, so that rounding cannot move it back, that an untrailed
  one is where it was placed with R as its distance, and that the peak of the
  trail has been seen and has earned the trail's activation; then a bar that did
  not hit a trailed stop is more than the rebuilt R ahead, so the rebuilt trail
  is active at once.  The proof uses the assumption (`ExitAssumption`) that the
  share of R that is locked in is a whole number of units and worth at least
  half a tick: with a stop nearer than that, rounding may take the locked-in
  share away.

Model-checked only: all liveness (`SquareOffCompletes`, `SquareOffHappens`,
`StartEnds`, `RequestsEnd`, `SquareOffSettles`, `StopIsFollowedByStart`), which
needs fairness and with it ENABLED, beyond this prover.  Three sources are a
constant of the code, not of the model: the lemmas on clusters are for up to
three readings, since for any number they would take an induction over the loop.

## 6. Where the code and its documents disagree

The run `live_marker_without_close` shows one: Kite refuses the square-off
order, or `positions()` fails; `_end_of_day` writes the marker all the same
(`executor.py:826`), although the comment above it (`executor.py:816`) says that
a partial failure "leaves the marker absent and the next tick can retry".

The others were met while modelling.  The model has the code's behaviour; the
properties exclude or name it.

*Day and risk.* The kill switch writes the end-of-day marker (`executor.py:275`,
`746`), so a position opened later that day is skipped by the 15:15 square-off.
A start deletes the profit lock before the executor would restore it
(`executor.py:96`), and the baseline is in memory before it is saved
(`risk.py:248`). The count of trades lives in the process only. The equity
counts a long future's notional beside its margin and its profit
(`risk.py:296`); the health check does the same. The gate counts unrealised
profit against realised loss (`risk.py:452`), so a day can lose nearly twice the
cap, and what was unrealised besides. The invariant that the constructor checks
(`risk.py:102-146`) is said to keep a synchronised stop-out within the kill
threshold; it compares percentages of different bases, the configured capital
(`risk.py:488`) and the equity the day began with (`risk.py:342`), so that after
a losing day two stops at 1% of the capital are more than 2% of the equity, and
slippage and fees come on top. Positions in options are keyed by the exact
symbol: one underlying can be held at two strikes. The fee edge is not asked of
spreads and condors, nor of a target that is missing or on the wrong side; the
breakeven display assumes the flat brokerage below the turnover where the
percentage is lower.

*Threads and stops.* Tick and cron both pass the marker at 15:15; the second
cover of a short share, or close of a future, opens a position
(`executor.py:769`). The sweep leaves trail states by symbol; the next position
in the symbol is trailed with the entry price and peak of the last
(`executor.py:92`). An active trail without bars raises and ends the tick before
the other positions are looked at. `release` unlocks before it unlinks, so that
two bots can run (`cli.py:76`, `lock.py:133`).

*Broker and journal.* A restarted journal's trades lack the entry fees; the
divergence gate of a restore drops a position and keeps the cash that paid for
it. `place_order` changes the book before it saves it (`paper.py:641`): when the
save raises, the fill is in memory, in no snapshot and in no journal. An equity
short bought over to long would be booked without its cost, and a partial exit
is in no statement; the executor sends neither.

*Live account.* No order is ever FILLED when `place_order` returns, so none is
counted or journalled. Kite's positions carry no stop and no target, so none is
managed. An order that fills between `cash()` and `positions()` is in one of the
two and not in the other (`risk.py:319`).

*Data.* The registry keeps Yahoo for good if Dhan was down when it was first
asked; its lock is released during the probe (`registry.py:188`), so that of two
first callers one may be served by Yahoo while the other installs the chain, or
the reverse. Without Redis the cached bars never expire ("Cached for 60s"). "At
most one missed bar" does not hold of one-minute bars, whose copy may be two
minutes and a bar old. The opening range of ORB includes the bar that starts at
9:30.

*Audit, update, repairs.* A cluster of values is judged by its first member;
"All N rates verified" does not count the unverified ones; a tie of two sources
takes Zerodha's value, and an ambiguous rate is patched, and the bots restarted,
each time. `cleanup_equity_2026_05_04.py` run twice overwrites the corrupt books
it was to preserve; `cleanup_fno` calls itself idempotent and deletes live state
when run again; the journal cleaned twice loses its real close.
`clean_redis_session.py` says a bot re-publishes on its next tick; it does on
its next fill. The update's stop finds only bots started with `--paper`
(`eod_apply_fee_updates.py:390`), which `cli.py` does not ask for. Its "EOD
restart preserves portfolio snapshots" contradicts its step that deletes them,
and its check of open positions lets everything pass when Redis is down. The
pre-flight's books check reads an empty in-memory cache as clean, or skips
itself, if Redis goes down after `redis_running` (`premarket_preflight.py:384`).
A stall of more than an hour lets the heartbeat expire (`executor.py:216`), and
none at all is a warning (`healthcheck.py:540`). At 15:00 the health check
reports stalled signals although entries ended at 13:30 (`healthcheck.py:318`),
and it takes an audit a week old for today's.

## 7. What is not modelled, and why

* Indicators, Black-Scholes premiums, watchlist scores: floating-point
  arithmetic on series.  Where it matters the model takes any value (a
  direction, a true range, a premium, a fee).
* Rendering, notification, logging, the dashboard, the system audit, backtests:
  they change no state of the trading process.
* HTTP fetching and its retries: a choice between an answer and none.  Quotes
  and the instrument resolver of Dhan: a lookup without state of its own.
* The Kite feed writes ticks that no part of the bot reads; `dhan.py` raises.
* F&O symbol tables, expiries and lot sizes, the holiday list, configuration:
  static data, the constants of the modules.
* Partial exits of shares, options and futures, and flips of shares: no caller
  sends them.
* Slippage is in the fill prices of `PaperBroker` and in the tolls of
  `EntryGate`; a bar that opens beyond a stop fills at the stop less the toll,
  as the paper broker books it.
* The order of two concurrent writes of the same snapshot: `EodRace` has no
  snapshot, `TradingDay` no threads.
* In `LiveBroker` the jobs run one at a time; `EodRace` has their interleavings,
  on the paper broker, without the sweep of the profit lock-in.
* In `Upkeep` the checks of processes, disk, network and calendar are steps that
  may fail, without a cause.

## 8. Plan

Done: every module of section 2, and proofs of every safety and action property
the runs check.  Left, by what it would add:

1. `TradingDay` with two segments that share one Redis, for the keys that are
   not per segment.
2. `EodRace` with the snapshot, for two threads that write it.
3. For the liveness properties, the invariants and the well-founded measures
   they rest on, as theorems: that each step of a sweep or of a request brings
   it closer to its end.
4. The watchlist updater beside a trading bot, and the research job.
