-------------------------------- MODULE Upkeep --------------------------------
(***************************************************************************)
(* What watches over the bots: the pre-flight of the morning                 *)
(* (scripts/premarket_preflight.py), which decides whether they may start    *)
(* and repairs the caches if told to, and the health check of the day       *)
(* (bot/healthcheck.py), which reads what the executor leaves in the cache. *)
(*                                                                         *)
(* A step of the pre-flight gives any of the statuses its code can return;  *)
(* the two that read the caches give what the caches hold, or what an empty *)
(* cache in memory would.  In the day one segment's executor ticks once a   *)
(* minute, or stalls, or raises; Redis keeps what it was given.             *)
(***************************************************************************)
EXTENDS Integers, Sequences, FiniteSets

CONSTANTS
  MayRun,    \* the segments whose bots may be running during the pre-flight
  Quiet      \* bound on an age, in minutes: over the limit of every check

ASSUME UpkeepAssumption == MayRun \subseteq {"equity", "fno"} /\ Quiet \in Nat /\ Quiet > 3

VARIABLES
  stage,     \* preflight, day, over
  i,         \* the step of the pre-flight
  last,      \* its result so far: a status, or none
  sign,      \* the signature that comes with it
  cleaned,   \* a cleanup was tried for this step
  unread,    \* the books check found no cache, or the empty one of the process
  seen,      \* kind and status of the earlier steps that did not pass
  failed,    \* the failed steps that later ones depend on
  flags,     \* --auto-cleanup, --clean-redis
  live,      \* the segments whose bots run
  books,     \* paper:state and portfolio of each segment
  stale,     \* session keys of an earlier day are there
  phase,     \* of the day: before 9:30, to 13:30, to 15:15, later
  elapsed,   \* minutes of the phase
  mode,      \* the tick job: ticking or stalled
  position,  \* an open position: none, or the bars it has
  locked,    \* profit_lockin
  heartbeat, \* age of heartbeat:tick, which expires
  signals,   \* age of the newest signal
  cause,     \* why the open position was last not managed
  since,     \* minutes in a row that it was not, for that cause
  report     \* the last health report

preflight == <<i, last, sign, cleaned, unread, seen, failed, flags, live, books, stale>>
clock == <<phase, elapsed>>
executor == <<mode, position, locked, heartbeat, signals, cause, since>>
upkeep == <<stage, preflight, clock, executor, report>>
-----------------------------------------------------------------------------
Segments == {"equity", "fno"}
Status == {"PASS", "WARN", "FAIL", "SKIP"}
Kinds == {"absent", "sane", "old", "gap", "blown"}
NoBooks == [s \in Segments |-> "absent"]

Watched == {"heartbeat", "signals", "positions"}  \* checks that look for neglect
NoReport == [overall |-> "none", raised |-> {}]
Gone == Quiet + 1                                 \* the key has expired

Step(name, critical, needs) == [name |-> name, critical |-> critical, needs |-> needs]
Steps ==
  << Step("python_venv", FALSE, {}), Step("power_source", FALSE, {}),
     Step("disk_space", TRUE, {}), Step("logs_writable", TRUE, {}),
     Step("no_stale_processes", FALSE, {}), Step("no_orphan_locks", TRUE, {}),
     Step("config_loads", TRUE, {}), Step("redis_running", TRUE, {}),
     Step("paper_state_clean", TRUE, {"redis_running"}),
     Step("redis_session_freshness", FALSE, {"redis_running"}),
     Step("refresh_holidays", TRUE, {"redis_running"}), Step("regression_suite", TRUE, {}),
     Step("today_is_trading_day", FALSE, {"refresh_holidays"}),
     Step("tomorrow_advisory", FALSE, {"refresh_holidays"}) >>
Needed == UNION {Steps[j].needs : j \in 1 .. Len(Steps)}
Kind(step) ==
  CASE step.name = "paper_state_clean" -> "books"
    [] step.critical /\ step.name # "paper_state_clean" -> "critical"
    [] OTHER -> "other"

(* The three signatures, in the order in which they are looked for: an      *)
(* equity blown up, cash and positions that do not add up to it, a          *)
(* portfolio of an earlier day.                                             *)
Held(kind, b) == \E s \in Segments : b[s] = kind
Signature(b) ==
  CASE Held("blown", b) -> "apr30"
    [] Held("gap", b) /\ ~Held("blown", b) -> "may04"
    [] Held("old", b) /\ ~Held("gap", b) /\ ~Held("blown", b) -> "may05"
    [] OTHER -> "none"

StateClean(b) ==
  CASE Signature(b) \in {"apr30", "may04"} -> "FAIL"
    [] Signature(b) = "may05" -> "WARN"
    [] OTHER -> "PASS"

(* What a step can return.  One that raises has failed; one whose           *)
(* dependency failed is skipped.                                            *)
PowerSource == {"PASS", "WARN", "SKIP"}
PythonVenv == {"PASS", "WARN", "FAIL"}
NoStaleProcesses == {IF live = {} THEN "PASS" ELSE "WARN", "FAIL"}
DiskSpace == {"PASS", "WARN", "FAIL"}
SystemStep == {"PASS", "FAIL"}  \* the locks, the logs, the configuration, Redis
SessionFreshness == {IF stale /\ ~unread THEN "WARN" ELSE "PASS"}
RefreshHolidays == {"PASS", "WARN", "FAIL"}
RegressionSuite == {"PASS", "FAIL"}
DayAdvice == {"PASS", "WARN", "SKIP"}

Returned(name) ==
  CASE name = "power_source" -> PowerSource
    [] name = "python_venv" -> PythonVenv
    [] name = "no_stale_processes" -> NoStaleProcesses
    [] name = "disk_space" -> DiskSpace
    [] name = "redis_session_freshness" -> SessionFreshness
    [] name = "refresh_holidays" -> RefreshHolidays
    [] name = "regression_suite" -> RegressionSuite
    [] name \in {"today_is_trading_day", "tomorrow_advisory"} -> DayAdvice
    [] OTHER -> SystemStep

OutcomesQuiet(step) ==  \* mutant: a check that raises is skipped
  IF step.needs \cap failed # {} THEN {"SKIP"} ELSE Returned(step.name) \cup {"SKIP"}
Outcomes(step) ==
  IF step.needs \cap failed # {} THEN {"SKIP"} ELSE Returned(step.name) \cup {"FAIL"}

(* The books check.  It reads the caches or raises; a process that meets    *)
(* Redis gone since the step before has no cache, or an empty one in memory *)
(* for the rest of its life.                                                *)
BooksRead(b) ==
  /\ \/ last' = StateClean(b) /\ sign' = Signature(b)
     \/ last' = "FAIL" /\ sign' = "none"
  /\ UNCHANGED unread
NothingRead == last' \in {"PASS", "SKIP"} /\ sign' = "none" /\ unread' = TRUE

UpkeepTypeOK ==
  /\ stage \in {"preflight", "day", "over"}
  /\ i \in 1 .. Len(Steps) + 1 /\ last \in Status \cup {"none"}
  /\ sign \in {"none", "apr30", "may04", "may05"} /\ cleaned \in BOOLEAN /\ unread \in BOOLEAN
  /\ seen \subseteq {"books", "critical", "other"} \X Status /\ failed \subseteq Needed
  /\ flags \in [auto : BOOLEAN, clean : BOOLEAN]
  /\ live \subseteq MayRun /\ books \in [Segments -> Kinds] /\ stale \in BOOLEAN
  /\ phase \in {"pre", "entry", "hold", "late"} /\ elapsed \in 0 .. Quiet
  /\ mode \in {"ticking", "stalled"} /\ locked \in BOOLEAN
  /\ position \in {"none", "bars", "5m only", "blind"}
  /\ cause \in {"none", "stall", "raise", "blind"}
  /\ heartbeat \in 0 .. Gone /\ {signals, since} \subseteq 0 .. Quiet
  /\ report \in [overall : {"none", "OK", "DEGRADED", "FAILED"}, raised : SUBSET Watched]

UpkeepInit ==
  /\ stage = "preflight" /\ i = 1 /\ last = "none" /\ sign = "none" /\ cleaned = FALSE
  /\ unread = FALSE /\ seen = {} /\ failed = {}
  /\ flags \in [auto : BOOLEAN, clean : BOOLEAN]
  /\ live \in SUBSET MayRun /\ books \in [Segments -> Kinds]
  /\ stale \in BOOLEAN
  /\ phase = "pre" /\ elapsed = 0
  /\ mode = "ticking" /\ position = "none" /\ locked = FALSE
  /\ heartbeat = Gone /\ signals = Quiet /\ cause = "none" /\ since = 0
  /\ report = NoReport
-----------------------------------------------------------------------------
(* The pre-flight *)

RunStep ==
  /\ stage = "preflight" /\ i <= Len(Steps) /\ last = "none"
  /\ \/ /\ Steps[i].name # "paper_state_clean" \/ "redis_running" \in failed
        /\ last' \in Outcomes(Steps[i]) /\ UNCHANGED <<sign, unread>>
     \/ /\ Steps[i].name = "paper_state_clean" /\ "redis_running" \notin failed
        /\ BooksRead(books) \/ NothingRead
  /\ UNCHANGED <<stage, i, cleaned, seen, failed, flags, live, books, stale, clock, executor, report>>

(* A failure of paper_state_clean calls the script for its signature, that  *)
(* of F&O if there is none; the F&O script refuses while that bot runs, the *)
(* equity script does not.  A warning calls clean_redis_session.py.  The    *)
(* step is run again if the script succeeds, not if it was cut off.         *)
Due ==
  /\ ~cleaned
  /\ \/ flags.auto /\ last = "FAIL" /\ Steps[i].name = "paper_state_clean"
     \/ /\ flags.clean /\ last = "WARN"
        /\ \/ Steps[i].name = "redis_session_freshness"
           \/ Steps[i].name = "paper_state_clean" /\ sign = "may05"

Purge(s, kind) == [books EXCEPT ![s] = kind]

WipeSession == books' = NoBooks /\ stale' = FALSE
CleanEquity == books' = Purge("equity", "sane") /\ UNCHANGED stale
CleanFno == "fno" \notin live /\ books' = Purge("fno", "absent") /\ UNCHANGED stale

Repair ==
  CASE last = "WARN" -> WipeSession
    [] last = "FAIL" /\ sign = "may04" -> CleanEquity
    [] OTHER -> CleanFno

AssumedClean(b) ==  \* mutant: a cleanup that ran has cleaned
  last' = "PASS" /\ sign' = "none" /\ UNCHANGED unread
Again(b) ==
  \/ Steps[i].name = "paper_state_clean" /\ BooksRead(b)
  \/ Steps[i].name # "paper_state_clean" /\ last' \in {"PASS", "FAIL"} /\ UNCHANGED <<sign, unread>>

CleanUp ==
  /\ stage = "preflight" /\ i <= Len(Steps) /\ Due
  /\ cleaned' = TRUE
  /\ \/ Repair /\ (Again(books') \/ UNCHANGED <<last, sign, unread>>)
     \/ UNCHANGED <<books, stale, last, sign, unread>>
  /\ UNCHANGED <<stage, i, seen, failed, flags, live, clock, executor, report>>

NextStep ==
  /\ stage = "preflight" /\ i <= Len(Steps) /\ last # "none" /\ ~Due
  /\ seen' = IF last = "PASS" THEN seen ELSE seen \cup {<<Kind(Steps[i]), last>>}
  /\ failed' = IF last = "FAIL" THEN failed \cup ({Steps[i].name} \cap Needed) ELSE failed
  /\ i' = i + 1 /\ last' = "none" /\ sign' = "none" /\ cleaned' = FALSE
  /\ UNCHANGED <<stage, unread, flags, live, books, stale, clock, executor, report>>

(* A bot that is already running publishes its books.                       *)
BotPublishes ==
  /\ stage = "preflight"
  /\ \E s \in live, kind \in {"sane", "gap"} : books' = Purge(s, kind)
  /\ UNCHANGED <<stage, i, last, sign, cleaned, unread, seen, failed, flags, live, stale>>
  /\ UNCHANGED <<clock, executor, report>>

Shown(status) == \E kind \in {"books", "critical", "other"} : <<kind, status>> \in seen
ExitCode ==
  CASE Shown("FAIL") -> 1 [] Shown("WARN") /\ ~Shown("FAIL") -> 2 [] OTHER -> 0

(* The operator starts the bots on 0 and 2 and not on 1.                    *)
Decide ==
  /\ stage = "preflight" /\ i > Len(Steps)
  /\ stage' = IF ExitCode = 1 THEN "over" ELSE "day"
  /\ i' = 1 /\ unread' = FALSE /\ seen' = {} /\ failed' = {} /\ live' = {} /\ books' = NoBooks /\ stale' = FALSE
  /\ flags' = [auto |-> FALSE, clean |-> FALSE]
  /\ UNCHANGED <<last, sign, cleaned, clock, executor, report>>
-----------------------------------------------------------------------------
(* The day *)

InWindow == phase \in {"entry", "hold"}
Older(age) == IF age < Quiet THEN age + 1 ELSE Quiet
Managed == cause' = "none" /\ since' = 0
Unmanaged(why) == cause' = why /\ since' = IF cause = why THEN Older(since) ELSE 1

(* One minute without a tick.  The heartbeat's key lives for an hour.       *)
Silence ==
  /\ stage = "day" /\ mode = "stalled"
  /\ heartbeat' \in IF heartbeat >= Quiet THEN {heartbeat, Gone} ELSE {Older(heartbeat)}
  /\ signals' = Older(signals)
  /\ IF position = "none" THEN Managed ELSE Unmanaged("stall")
  /\ elapsed' = Older(elapsed)
  /\ UNCHANGED <<stage, preflight, phase, mode, position, locked, report>>

(* One minute with a tick.  The heartbeat comes first; an exception before  *)
(* or while the position is managed ends the tick.                          *)
TickRaises ==
  /\ stage = "day" /\ mode = "ticking" /\ InWindow
  /\ heartbeat' = 0 /\ signals' = Older(signals)
  /\ IF position = "none" THEN Managed ELSE Unmanaged("raise")
  /\ elapsed' = Older(elapsed)
  /\ UNCHANGED <<stage, preflight, phase, mode, position, locked, report>>

(* A tick in the window manages the position first, whose exit may be       *)
(* refused, as may every close of a sweep: of the profit lock-in, which     *)
(* locks all the same, and of the square-off.                               *)
ManageStep(p) == IF InWindow /\ p = "blind" THEN Unmanaged("blind") ELSE Managed
AfterClose == {position, "none"}

Trade ==     \* signals, of the symbols that have bars, and an entry
  /\ phase = "entry" /\ ~locked
  /\ signals' \in {0, Older(signals)} /\ UNCHANGED locked
  /\ position' \in IF position = "none" THEN {"none", "bars"} ELSE AfterClose
LockIn ==
  /\ phase = "entry" /\ ~locked
  /\ locked' = TRUE /\ position' \in AfterClose /\ signals' = Older(signals)
OnlyManage ==
  /\ phase # "entry" \/ locked
  /\ position' \in AfterClose /\ signals' = Older(signals) /\ UNCHANGED locked

Tick ==
  /\ stage = "day" /\ mode = "ticking"
  /\ heartbeat' = 0 /\ elapsed' = Older(elapsed)
  /\ Trade \/ LockIn \/ OnlyManage
  /\ IF position' = "none" THEN Managed ELSE ManageStep(position)
  /\ UNCHANGED <<stage, preflight, phase, mode, report>>

Environment ==
  /\ stage = "day"
  /\ \/ mode' \in {"ticking", "stalled"} /\ UNCHANGED <<clock, position>>
     \/ position # "none" /\ position' \in {"bars", "5m only", "blind"} /\ UNCHANGED <<clock, mode>>
     \/ /\ elapsed = Quiet /\ elapsed' = 0
        /\ \/ phase = "pre" /\ phase' = "entry"
           \/ phase = "entry" /\ phase' = "hold"
           \/ phase = "hold" /\ phase' = "late"
        /\ UNCHANGED <<mode, position>>
  /\ UNCHANGED <<stage, preflight, locked, heartbeat, signals, cause, since, report>>

(* The check, at 9, 11, 13 and 15.  A heartbeat or a signal of one minute   *)
(* is fresh, of more than three a failure; no heartbeat at all is a         *)
(* warning, and so is a check that raises.                                  *)
ByAge(age) == IF ~InWindow \/ age <= 1 THEN "OK" ELSE IF age <= 3 THEN "WARN" ELSE "FAIL"
TickHeartbeat == IF heartbeat = Gone THEN "WARN" ELSE ByAge(heartbeat)

PositionDataLenient ==  \* mutant: no bars at all is a warning
  IF InWindow /\ position \in {"5m only", "blind"} THEN "WARN" ELSE "OK"
PositionData ==
  CASE InWindow /\ position = "blind" -> "FAIL"
    [] InWindow /\ position = "5m only" -> "WARN"
    [] OTHER -> "OK"

Worst(S) == CASE "FAIL" \in S -> "FAILED" [] "WARN" \in S /\ "FAIL" \notin S -> "DEGRADED" [] OTHER -> "OK"

(* What the other checks return, one that raises included.                  *)
SystemStatus == {"OK", "WARN", "FAIL"}   \* process, sleep lock, Redis, configuration
FeedStatus == {"OK", "WARN", "FAIL"}     \* the caches of the morning, market data
BookStatus == {"OK", "WARN", "FAIL"}     \* log, stale signals, portfolio and risk
OverheadStatus == {"OK", "WARN", "FAIL"} \* fee schedule, disk
OtherStatus == SystemStatus \cup FeedStatus \cup BookStatus \cup OverheadStatus

Found(check, raised) ==
  CASE check \in raised -> "WARN"
    [] check = "heartbeat" /\ check \notin raised -> TickHeartbeat
    [] check = "signals" /\ check \notin raised -> ByAge(signals)
    [] OTHER -> PositionData

HealthCheck ==
  /\ stage = "day" /\ elapsed = Quiet
  /\ \E raised \in SUBSET Watched : \E others \in SUBSET OtherStatus :
       report' = [overall |-> Worst({Found(check, raised) : check \in Watched} \cup others),
                  raised |-> raised]
  /\ UNCHANGED <<stage, preflight, clock, executor>>

UpkeepNext ==
  \/ RunStep \/ CleanUp \/ NextStep \/ BotPublishes \/ Decide
  \/ Silence \/ TickRaises \/ Tick \/ Environment \/ HealthCheck

UpkeepSpec == UpkeepInit /\ [][UpkeepNext]_upkeep
-----------------------------------------------------------------------------
(* Properties *)

(* premarket_preflight.py:18-20: on "safe to start" and on "review" no      *)
(* critical step has failed or was skipped, but for the check of the books, *)
(* which is skipped by itself if the process finds no cache.                *)
GoIsEarned ==
  [][stage = "preflight" /\ (stage') = "day" =>
       /\ \A kind \in {"books", "critical"} : <<kind, "FAIL">> \notin seen
       /\ <<"critical", "SKIP">> \notin seen
       /\ <<"books", "SKIP">> \in seen => unread]_upkeep

(* premarket_preflight.py:351-501: no bot is started on books that carry    *)
(* one of the two corruptions, after a cleanup of the wrong segment too,    *)
(* unless the check found Redis gone and read an empty cache or none; a     *)
(* bot that already runs may publish a gap after the check.                 *)
GoMeansSane ==
  [][stage = "preflight" /\ (stage') = "day" /\ ~unread =>
       \A s \in Segments \ live : books[s] \notin {"gap", "blown"}]_upkeep

(* healthcheck.py:363-378: a position that one cause has left unmanaged for *)
(* more than three minutes is surfaced "before it costs you a trade": the   *)
(* next check fails if the ticks stall or raise, or the bars are still      *)
(* missing, as long as one of the checks that see the cause does not raise; *)
(* and it is never OK.  A heartbeat that has expired sees no stall.         *)
Neglected ==
  InWindow /\ position # "none" /\ since = Quiet /\ (cause = "blind" => position = "blind")
Watchers ==
  CASE cause = "stall" /\ heartbeat # Gone -> {"heartbeat", "signals"}
    [] cause = "blind" -> {"positions"}
    [] OTHER -> {"signals"}
UnmanagedIsReported ==
  [][HealthCheck /\ Neglected =>
       /\ (report'.overall) # "OK"
       /\ (report'.overall) = "FAILED" \/ Watchers \subseteq (report'.raised)]_upkeep
=============================================================================
