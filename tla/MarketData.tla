----------------------------- MODULE MarketData -----------------------------
(***************************************************************************)
(* How a caller gets its bars: bot/data.py with the sources of              *)
(* bot/data_sources/ and the cache of bot/cache.py.                         *)
(*                                                                         *)
(* intraday_bars() is re-entrant.  With Dhan configured it asks a chain     *)
(* <<dhan, yfinance>>, whose second member is intraday_bars() again; a      *)
(* thread-local flag keeps the inner call from asking the chain once more.  *)
(* Behind the chain are a 60-second cache, the retried Yahoo fetch and a    *)
(* long-lived stale copy with an age cutoff.  Ticks, cron jobs and health   *)
(* checks call it from threads of their own.                                *)
(*                                                                         *)
(* The first callers of a process resolve the source, each for itself: the  *)
(* registry's lock is held for the look at the installed source and for the *)
(* write that installs one, and not for the health probe in between.        *)
(*                                                                         *)
(* One symbol and one interval; a synthetic option asks for its underlying  *)
(* and has the same bars.  A frame is known by the start of its last bar    *)
(* and the time it was fetched.  Times are counted from the market's open.  *)
(***************************************************************************)
EXTENDS Integers

CONSTANTS
  Callers,         \* threads that ask for bars
  Interval,        \* length of a bar
  Grace,           \* what the stale copy may be older than one interval (2 min)
  BarsTTL,         \* life of a cached frame (60 s)
  StaleTTL,        \* life of the stale copy (15 min)
  HealthTTL,       \* life of Dhan's availability verdict (30 s)
  Slow,            \* longest time from a fetch to the end of its use
  MaxLag,          \* bars an upstream may lag behind
  MaxTime,         \* bound on the clock
  DhanConfigured,  \* DATA_SOURCE names Dhan and the credentials are there
  None

ASSUME DataAssumption ==
  /\ {Interval, BarsTTL, StaleTTL, HealthTTL} \subseteq Nat \ {0}
  /\ {Grace, Slow, MaxLag, MaxTime} \subseteq Nat
  /\ DhanConfigured \in BOOLEAN
  /\ None \notin [bar : Nat, at : Nat] /\ None \notin {"chain", "yfinance"}

VARIABLES
  now,       \* the clock
  kind,      \* what get_cache() found when the process started
  cacheUp,   \* Redis answers
  bars,      \* key bars2:<symbol>:<interval>
  stale,     \* key bars2:<symbol>:<interval>:stale
  dhanUp,    \* Dhan answers
  health,    \* Dhan's cached availability verdict
  active,    \* the registry's _active_source
  pc,        \* per caller: where it is in intraday_bars
  guard,     \* per caller: the thread-local re-entry flag
  given,     \* per caller: the source the registry gave this request
  asked,     \* per caller: Dhan was asked in this request
  frame,     \* per caller: what history() returned
  served     \* the answer of the step just taken

vars == <<now, kind, cacheUp, bars, stale, dhanUp, health, active,
          pc, guard, given, asked, frame, served>>
environment == <<kind, cacheUp, dhanUp>>
-----------------------------------------------------------------------------
Frame == [bar : Nat, at : Nat]
Entry == [frame : Frame, until : Nat]

TrimByStart(start, t) == IF start >= t THEN start - Interval ELSE start  \* mutant: compares the start

(* An upstream asked at some time shortly before returns bars up to the one *)
(* forming then, or lags by some.  The bar that is still forming by the     *)
(* clock is dropped: Dhan's adapter looks at the clock before it asks,      *)
(* history() after Yahoo answered, so that a bar which closes in between    *)
(* stays, with the prices of the fetch.                                     *)
Trim(start, t) == IF start + Interval > t THEN start - Interval ELSE start

LastBar(t, lag) == ((t \div Interval) - lag) * Interval
Lately == {t \in 0 .. now : now <= t + Slow}

Fetched(source) ==
  {f \in {[bar |-> Trim(LastBar(t, lag), IF source = "dhan" THEN t ELSE now), at |-> t] :
             t \in Lately, lag \in 0 .. MaxLag} :
     f.bar >= 0}

(* The in-memory fallback takes a time-to-live and ignores it.              *)
Alive(e) == e # None /\ (kind = "memory" \/ now < e.until)

Cutoff == Interval + Grace
AnyAge(f) == TRUE  \* mutant: no cutoff
YoungEnough(f) == now - f.bar <= Cutoff

DhanAvailable == DhanConfigured /\ IF now < health.until THEN health.ok ELSE dhanUp
Probed == IF DhanConfigured /\ now >= health.until
            THEN [ok |-> dhanUp, until |-> now + HealthTTL] ELSE health

(* The verdict of a probe, as the source it selects.                        *)
Chosen(ok) == IF ok THEN "chain" ELSE "yfinance"

SharedFlag(c) == \E d \in Callers : guard[d]  \* mutant: one flag for all threads
NeverReentered(c) == FALSE  \* mutant: no flag
Reentered(c) == guard[c]
-----------------------------------------------------------------------------
Labels == {"idle", "route", "resolve", "ping", "install",
           "chain", "legacy", "fetch", "store"}
Sources == {"chain", "yfinance"}
Vias == {"dhan", "cache", "fetch", "stale"}
Answers == [frame : Frame, via : Vias, asked : BOOLEAN, given : Sources \cup {None}]

TypeOK ==
  /\ now \in Nat /\ kind \in {"redis", "memory"}
  /\ cacheUp \in BOOLEAN /\ dhanUp \in BOOLEAN
  /\ bars \in Entry \cup {None} /\ stale \in Entry \cup {None}
  /\ health \in [ok : BOOLEAN, until : Nat]
  /\ active \in Sources \cup {None}
  /\ pc \in [Callers -> Labels]
  /\ guard \in [Callers -> BOOLEAN] /\ asked \in [Callers -> BOOLEAN]
  /\ given \in [Callers -> Sources \cup {None}]
  /\ frame \in [Callers -> Frame \cup {None}]
  /\ served \in Answers \cup {None}

Init ==
  /\ now = 0 /\ kind \in {"redis", "memory"}
  /\ cacheUp = TRUE /\ dhanUp \in BOOLEAN
  /\ bars = None /\ stale = None
  /\ health = [ok |-> FALSE, until |-> 0]
  /\ active = None
  /\ pc = [c \in Callers |-> "idle"]
  /\ guard = [c \in Callers |-> FALSE]
  /\ given = [c \in Callers |-> None]
  /\ asked = [c \in Callers |-> FALSE]
  /\ frame = [c \in Callers |-> None]
  /\ served = None
-----------------------------------------------------------------------------
Goto(c, label) == pc' = [pc EXCEPT ![c] = label]

(* The call returns f.  Returned into the chain, an empty frame makes the   *)
(* outer call go on by itself; anything else ends the request.              *)
Return(c, f, via) ==
  /\ guard' = [guard EXCEPT ![c] = FALSE]
  /\ frame' = [frame EXCEPT ![c] = None]
  /\ IF f = None /\ guard[c]
       THEN Goto(c, "legacy") /\ served' = None /\ UNCHANGED <<asked, given>>
       ELSE /\ Goto(c, "idle")
            /\ asked' = [asked EXCEPT ![c] = FALSE]
            /\ given' = [given EXCEPT ![c] = None]
            /\ served' = IF f = None THEN None
                         ELSE [frame |-> f, via |-> via, asked |-> asked[c], given |-> given[c]]

(* A cache access raised: the routing helper swallows it, a caller does not.*)
Raise(c) == Return(c, None, "fetch")

Ask(c) ==
  /\ pc[c] = "idle"
  /\ Goto(c, "route") /\ served' = None
  /\ UNCHANGED <<now, environment, bars, stale, health, active, guard, given, asked, frame>>

(* The registry gives the request a source: the chain is asked with the     *)
(* flag up.                                                                 *)
Give(c, source) ==
  /\ given' = [given EXCEPT ![c] = source]
  /\ guard' = [guard EXCEPT ![c] = (source = "chain")]
  /\ Goto(c, IF source = "chain" THEN "chain" ELSE "legacy")

(* get_data_source(): with the lock held, what is installed.                *)
Route(c) ==
  /\ pc[c] = "route"
  /\ CASE Reentered(c) -> Goto(c, "legacy") /\ UNCHANGED <<guard, given>>
       [] ~Reentered(c) /\ active = None -> Goto(c, "resolve") /\ UNCHANGED <<guard, given>>
       [] OTHER -> Give(c, active)
  /\ served' = None
  /\ UNCHANGED <<now, environment, bars, stale, health, active, asked, frame>>

(* Nothing was: the request looks for a verdict on Dhan of the last 30      *)
(* seconds ...                                                              *)
Resolve(c) ==
  /\ pc[c] = "resolve"
  /\ IF DhanConfigured /\ now >= health.until
       THEN Goto(c, "ping") /\ UNCHANGED given
       ELSE Goto(c, "install") /\ given' = [given EXCEPT ![c] = Chosen(DhanAvailable)]
  /\ served' = None
  /\ UNCHANGED <<now, environment, bars, stale, health, active, guard, asked, frame>>

(* ... or probes, as others may at the same time ...                        *)
Ping(c) ==
  /\ pc[c] = "ping"
  /\ health' = [ok |-> dhanUp, until |-> now + HealthTTL]
  /\ given' = [given EXCEPT ![c] = Chosen(dhanUp)]
  /\ Goto(c, "install") /\ served' = None
  /\ UNCHANGED <<now, environment, bars, stale, active, guard, asked, frame>>

(* ... and installs what it chose over whatever is there by now.            *)
Install(c) ==
  /\ pc[c] = "install"
  /\ active' = given[c]
  /\ Give(c, given[c]) /\ served' = None
  /\ UNCHANGED <<now, environment, bars, stale, health, asked, frame>>

DhanAnswers(c) ==
  /\ pc[c] = "chain" /\ DhanAvailable /\ dhanUp
  /\ \E f \in Fetched("dhan") : Return(c, f, "dhan")
  /\ health' = Probed
  /\ UNCHANGED <<now, environment, bars, stale, active>>

(* Unavailable, or without data: the chain goes on to its next member,      *)
(* which is intraday_bars() itself.                                         *)
DhanPasses(c) ==
  /\ pc[c] = "chain"
  /\ asked' = [asked EXCEPT ![c] = TRUE]
  /\ Goto(c, "route") /\ served' = None
  /\ health' = Probed
  /\ UNCHANGED <<now, environment, bars, stale, active, guard, given, frame>>

(* The response had another shape than expected: the chain is left.         *)
DhanRaises(c) ==
  /\ pc[c] = "chain" /\ DhanAvailable
  /\ asked' = [asked EXCEPT ![c] = TRUE]
  /\ guard' = [guard EXCEPT ![c] = FALSE]
  /\ Goto(c, "legacy") /\ served' = None
  /\ health' = Probed
  /\ UNCHANGED <<now, environment, bars, stale, active, given, frame>>

ReadCache(c) ==
  /\ pc[c] = "legacy"
  /\ CASE ~cacheUp -> Raise(c)
       [] cacheUp /\ Alive(bars) -> Return(c, bars.frame, "cache")
       [] OTHER -> Goto(c, "fetch") /\ served' = None /\ UNCHANGED <<guard, given, asked, frame>>
  /\ UNCHANGED <<now, environment, bars, stale, health, active>>

(* history(): four attempts, after another turn through the installed chain *)
(* when the flag is down.  All of that yields a frame or an empty one.      *)
History(c) ==
  /\ pc[c] = "fetch"
  /\ LET chained == ~guard[c] /\ active = "chain" IN
       /\ \E f \in Fetched("yfinance") \cup {None} \cup (IF chained THEN Fetched("dhan") ELSE {}) :
             frame' = [frame EXCEPT ![c] = f]
       /\ health' = IF chained THEN Probed ELSE health
       /\ asked' = IF chained THEN [asked EXCEPT ![c] = TRUE] ELSE asked
  /\ Goto(c, "store") /\ served' = None
  /\ UNCHANGED <<now, environment, bars, stale, active, guard, given>>

Store(c) ==
  /\ pc[c] = "store" /\ frame[c] # None
  /\ IF cacheUp
       THEN /\ bars' = [frame |-> frame[c], until |-> now + BarsTTL]
            /\ stale' = [frame |-> frame[c], until |-> now + StaleTTL]
            /\ Return(c, frame[c], "fetch")
       ELSE Raise(c) /\ UNCHANGED <<bars, stale>>
  /\ UNCHANGED <<now, environment, health, active>>

ServeStale(c) ==
  /\ pc[c] = "store" /\ frame[c] = None
  /\ IF cacheUp /\ Alive(stale) /\ YoungEnough(stale.frame)
       THEN Return(c, stale.frame, "stale")
       ELSE Return(c, None, "stale")
  /\ UNCHANGED <<now, environment, bars, stale, health, active>>
-----------------------------------------------------------------------------
Tick ==
  /\ now < MaxTime
  /\ \A c \in Callers : frame[c] # None => now < frame[c].at + Slow
  /\ now' = now + 1 /\ served' = None
  /\ UNCHANGED <<environment, bars, stale, health, active, pc, guard, given, asked, frame>>

DhanFlips ==
  /\ DhanConfigured
  /\ dhanUp' = ~dhanUp /\ served' = None
  /\ UNCHANGED <<now, kind, cacheUp, bars, stale, health, active, pc, guard, given, asked, frame>>

CacheFlips ==
  /\ kind = "redis"
  /\ cacheUp' = ~cacheUp /\ served' = None
  /\ UNCHANGED <<now, kind, dhanUp, bars, stale, health, active, pc, guard, given, asked, frame>>

(* A new process: without Redis it runs on a dictionary of its own.         *)
Restart ==
  /\ kind' = IF cacheUp /\ kind = "redis" THEN "redis" ELSE "memory"
  /\ cacheUp' = TRUE
  /\ \/ kind' = "redis" /\ UNCHANGED <<bars, stale>>
     \/ bars' = None /\ stale' = None
  /\ health' = [ok |-> FALSE, until |-> 0] /\ active' = None
  /\ pc' = [c \in Callers |-> "idle"]
  /\ guard' = [c \in Callers |-> FALSE]
  /\ given' = [c \in Callers |-> None]
  /\ asked' = [c \in Callers |-> FALSE]
  /\ frame' = [c \in Callers |-> None]
  /\ served' = None
  /\ UNCHANGED <<now, dhanUp>>

Step(c) ==
  \/ Route(c) \/ Resolve(c) \/ Ping(c) \/ Install(c)
  \/ DhanAnswers(c) \/ DhanPasses(c) \/ DhanRaises(c)
  \/ ReadCache(c) \/ History(c) \/ Store(c) \/ ServeStale(c)

Next ==
  \/ \E c \in Callers : Ask(c) \/ Step(c)
  \/ Tick \/ DhanFlips \/ CacheFlips \/ Restart

(* The operating system schedules a thread that is inside a request.        *)
Spec == Init /\ [][Next]_vars /\ \A c \in Callers : WF_vars(Step(c))
-----------------------------------------------------------------------------
(* Properties *)

(* No caller is handed a bar that is still forming: whichever of the four   *)
(* ways it came, and however long it waited in a cache, the last bar of a   *)
(* frame is complete (data.history and dhan_source.history drop it).        *)
NoFormingBar == served # None => served.frame.bar + Interval <= now

(* With Redis behind the cache, an answer is either recent (fetched within  *)
(* the cache's 60 seconds and what the fetch took) or its last bar is within*)
(* the cutoff of the stale copy.  What an upstream that lags hands out as   *)
(* fresh is not checked by the code and counts as recent.                   *)
RecentEnough(f) == now - f.at <= BarsTTL + Slow \/ now - f.bar <= Interval + Grace
RecentOrYoung == kind = "redis" /\ served # None => RecentEnough(served.frame)

(* Yahoo and the caches answer only a request that asked Dhan, or one that  *)
(* the registry itself gave Yahoo, on a verdict of the probe: neither the   *)
(* flag of another thread's request nor a source that another thread        *)
(* installs meanwhile makes a request skip Dhan                             *)
(* (data._maybe_route_to_alternate_source, registry.get_data_source).       *)
DhanIsAskedFirst ==
  served # None /\ served.via # "dhan" => served.asked \/ served.given = "yfinance"

(* A request ends, with bars or without: the chain that calls back into the *)
(* function that called it does not go round for ever.                      *)
RequestsEnd == \A c \in Callers : pc[c] # "idle" ~> pc[c] = "idle"
=============================================================================
