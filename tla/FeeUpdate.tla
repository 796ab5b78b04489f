------------------------------ MODULE FeeUpdate ------------------------------
(***************************************************************************)
(* The script that applies the fee audit and restarts the bots              *)
(* (scripts/eod_apply_fee_updates.py), and the three that repair the books  *)
(* (scripts/clean*.py), beside the bots that go on trading, crash and       *)
(* restart.                                                                 *)
(*                                                                         *)
(* A bot loads the rates when it starts; the script rewrites the file that  *)
(* holds them, so a position may be opened under one table and closed under *)
(* another.  One rate stands for the table of a segment.  What the audit    *)
(* makes of its sources is in FeeAudit; here it may ask for any change.   *)
(***************************************************************************)
EXTENDS FiniteSets

CONSTANTS
  Segments,  \* equity and fno
  Values,    \* values of a rate
  FirstRate, \* the rate in force at first
  None       \* no rate: no position, no bot

ASSUME FeeAssumption ==
  /\ "equity" \in Segments
  /\ FirstRate \in Values /\ None \notin Values

VARIABLES
  file,      \* the rates in bot/fees.py; <<>> while the file is half written
  backup,    \* the copy of it made before a write that has not ended
  up,        \* segments with a running bot
  unseen,    \* running bots whose command line does not say --paper
  loaded,    \* the rate a running bot loaded when it started
  held,      \* the rate under which a segment's open position was opened
  snap,      \* paper:state: saved today, on an earlier day, or not there
  account,   \* cash of the equity bot: even, short by 1000, or reset by a script
  phase,     \* before 9, 9 to 16, after 16
  pc,        \* where the update script is
  opts,      \* its options, and whether it reaches Redis
  aside,     \* what is put aside of the journal of 2026-05-04
  excused    \* history: a step against the procedure, or a stop that missed a bot

script == <<pc, opts>>
rates == <<file, backup>>
books == <<held, snap, account>>
bots == <<up, unseen, loaded>>
vars == <<script, rates, books, bots, phase, aside, excused>>
-----------------------------------------------------------------------------
Options == [stay : BOOLEAN, redis : BOOLEAN]
NoOptions == [stay |-> FALSE, redis |-> TRUE]

TypeOK ==
  /\ file \in [Segments -> Values] \cup {<<>>}
  /\ backup \in [Segments -> Values] \cup {<<>>}
  /\ up \subseteq Segments /\ unseen \subseteq up
  /\ loaded \in [Segments -> Values \cup {None}]
  /\ held \in [Segments -> Values \cup {None}]
  /\ snap \in [Segments -> {"today", "old", "gone"}]
  /\ account \in {"even", "lost", "reset"}
  /\ phase \in {"morning", "market", "evening"}
  /\ pc \in {"idle", "checked", "saved", "patched", "stopped", "cleaned", "wiped"}
  /\ opts \in Options
  /\ aside \in {"nothing", "corrupt", "clean"}
  /\ \A s \in Segments : (loaded[s] = None) <=> (s \notin up)
  /\ \A s \in Segments \ up : snap[s] = "gone" => held[s] = None
  /\ excused \in BOOLEAN

Init ==
  /\ file = [s \in Segments |-> FirstRate] /\ backup = <<>>
  /\ up = {} /\ unseen = {} /\ loaded = [s \in Segments |-> None]
  /\ pc = "idle" /\ opts = NoOptions
  /\ held = [s \in Segments |-> None]
  /\ snap = [s \in Segments |-> "gone"]
  /\ account = "even" /\ phase = "market"
  /\ aside = "nothing" /\ excused = FALSE
-----------------------------------------------------------------------------
(* The bots *)

(* A bot reads the rates and restores a snapshot of the same day.           *)
Restored(S) == [s \in Segments |-> IF s \in S /\ snap[s] # "today" THEN None ELSE held[s]]
Account(S) == IF "equity" \in S /\ snap["equity"] # "today" THEN "even" ELSE account

StartAll(S) ==
  /\ file # <<>>
  /\ up' = up \cup S
  /\ loaded' = [s \in Segments |-> IF s \in S THEN file[s] ELSE loaded[s]]
  /\ held' = Restored(S)
  /\ snap' = [s \in Segments |-> IF s \in S /\ snap[s] = "old" THEN "gone" ELSE snap[s]]
  /\ account' = Account(S)

(* The option --paper changes nothing for the bot: without it, it trades on *)
(* paper as well.                                                           *)
Start(s) ==
  /\ s \notin up
  /\ StartAll({s})
  /\ unseen' \in {unseen, unseen \cup {s}}
  /\ UNCHANGED <<script, rates, phase, aside, excused>>

(* A crash leaves what the snapshot holds.                                  *)
Crash(s) ==
  /\ s \in up
  /\ up' = up \ {s} /\ unseen' = unseen \ {s} /\ loaded' = [loaded EXCEPT ![s] = None]
  /\ held' = IF snap[s] = "gone" THEN [held EXCEPT ![s] = None] ELSE held
  /\ account' = IF s = "equity" /\ snap[s] = "gone" THEN "even" ELSE account
  /\ UNCHANGED <<script, rates, snap, phase, aside, excused>>

(* Every fill saves the snapshot, without the marker of the cleanup.        *)
Open(s) ==
  /\ s \in up /\ phase = "market" /\ held[s] = None
  /\ held' = [held EXCEPT ![s] = loaded[s]]
  /\ snap' = [snap EXCEPT ![s] = "today"]
  /\ account' = IF s = "equity" /\ account = "reset" THEN "even" ELSE account
  /\ UNCHANGED <<script, rates, bots, phase, aside, excused>>

Close(s) ==
  /\ s \in up /\ held[s] # None
  /\ held' = [held EXCEPT ![s] = None]
  /\ snap' = [snap EXCEPT ![s] = "today"]
  /\ IF s = "equity" THEN account' \in {"even", "lost"} ELSE account' = account
  /\ UNCHANGED <<script, rates, bots, phase, aside, excused>>

(* Running bots square off before 16:00.  The script takes less than the    *)
(* quarter of an hour between 9:00 and the first entry, its questions any   *)
(* time.                                                                    *)
ClockTurns ==
  /\ pc \in {"idle", "patched"}
  /\ \/ /\ phase = "morning" /\ phase' = "market" /\ snap' = snap
     \/ /\ phase = "market" /\ phase' = "evening" /\ snap' = snap
        /\ \A s \in up : held[s] = None
     \/ /\ phase = "evening" /\ phase' = "morning"
        /\ snap' = [s \in Segments |-> IF snap[s] = "today" THEN "old" ELSE snap[s]]
  /\ excused' = (excused \/ pc = "patched")
  /\ UNCHANGED <<script, rates, bots, held, account, aside>>
-----------------------------------------------------------------------------
(* The update script *)

(* The hours of trading, unless forced, and open positions, unless the bots *)
(* are to stay.  A Redis that cannot be reached is an empty cache of the    *)
(* script's own.                                                            *)
EquityOpen(redis) == redis /\ snap["equity"] # "gone" /\ held["equity"] # None  \* mutant: equity only
SeenOpen(redis) == redis /\ \E s \in Segments : snap[s] # "gone" /\ held[s] # None

Begin ==
  /\ pc = "idle" /\ file # <<>>
  /\ \E o \in Options :
       /\ ~o.stay => ~SeenOpen(o.redis)
       /\ opts' = o
       /\ excused' = (excused \/ phase = "market" \/ o.stay \/ ~o.redis)
  /\ pc' = "checked"
  /\ UNCHANGED <<rates, books, bots, phase, aside>>

NothingToPatch ==
  /\ pc = "checked"
  /\ pc' = "idle" /\ opts' = NoOptions
  /\ UNCHANGED <<rates, books, bots, phase, aside, excused>>

(* The copy, then the file, which is written in place.                      *)
NoCopy == backup  \* mutant: the copy is not made
Copy == file

BackUp ==
  /\ pc = "checked"
  /\ backup' = Copy
  /\ pc' = "saved"
  /\ UNCHANGED <<opts, file, books, bots, phase, aside, excused>>

Write ==
  /\ pc = "saved"
  /\ file' \in [Segments -> Values] /\ backup' = <<>>
  /\ pc' = "patched"
  /\ UNCHANGED <<opts, books, bots, phase, aside, excused>>

(* --no-restart, or an answer other than y to one of the two questions.     *)
Decline ==
  /\ pc = "patched"
  /\ pc' = "idle" /\ opts' = NoOptions
  /\ excused' = TRUE
  /\ UNCHANGED <<rates, books, bots, phase, aside>>

(* The bots that ps shows with --paper.  SIGTERM closes their positions; one*)
(* still there after 30 s is killed.  A bot without --paper goes on.        *)
Victims == up \ unseen

StopBots ==
  /\ pc = "patched" /\ ~opts.stay
  /\ \E swept \in SUBSET {s \in Victims : held[s] # None} :
       /\ held' = [s \in Segments |->
            IF s \in swept \/ (s \in Victims /\ snap[s] = "gone") THEN None ELSE held[s]]
       /\ snap' = [s \in Segments |-> IF s \in swept THEN "today" ELSE snap[s]]
       /\ account' \in IF "equity" \in swept THEN {"even", "lost"}
                       ELSE IF "equity" \in Victims /\ snap["equity"] = "gone" THEN {"even"} ELSE {account}
  /\ up' = up \ Victims
  /\ loaded' = [s \in Segments |-> IF s \in Victims THEN None ELSE loaded[s]]
  /\ pc' = "stopped"
  /\ excused' = (excused \/ Victims # up)
  /\ UNCHANGED <<opts, rates, unseen, phase, aside>>

(* cleanup_equity_2026_05_04.py: the journal is moved over the copy that    *)
(* was put aside, and four of its lines written back.                       *)
CleanEquity ==
  /\ aside' = IF aside = "nothing" THEN "corrupt" ELSE "clean"
  /\ account' = IF "equity" \in up THEN account ELSE "reset"
  /\ held' = IF "equity" \in up THEN held ELSE [held EXCEPT !["equity"] = None]
  /\ snap' = [snap EXCEPT !["equity"] = IF "equity" \in up THEN "gone" ELSE "today"]

(* Cash far below the capital: a loss, or the price of an open position.    *)
Suspicious ==
  /\ opts.redis /\ snap["equity"] # "gone"
  /\ account = "lost" \/ (account # "reset" /\ held["equity"] # None)

CleanIfSuspicious ==
  /\ pc = "stopped"
  /\ IF Suspicious THEN CleanEquity ELSE UNCHANGED <<books, aside>>
  /\ pc' = "cleaned"
  /\ UNCHANGED <<opts, rates, bots, phase, excused>>

(* clean_redis_session.py deletes the snapshots; a running bot keeps its    *)
(* positions until it stops.                                                *)
Wiped(S) == [s \in Segments |-> IF s \in S THEN "gone" ELSE snap[s]]

WipeSession ==
  /\ snap' = Wiped(Segments)
  /\ held' = [s \in Segments |-> IF s \in up THEN held[s] ELSE None]
  /\ account' = IF "equity" \in up THEN account ELSE "even"

AfterWipeOrAbort(done) == IF done THEN "wiped" ELSE "idle"  \* mutant: a failure ends the script
AfterWipe(done) == "wiped"

Wipe ==
  /\ pc = "cleaned"
  /\ \E done \in {FALSE, opts.redis} :
       /\ IF done THEN WipeSession ELSE UNCHANGED books
       /\ pc' = AfterWipe(done)
  /\ UNCHANGED <<opts, rates, bots, phase, aside, excused>>

(* A segment whose bot somebody started meanwhile is refused by its lock.   *)
Launch ==
  /\ pc = "wiped"
  /\ StartAll(Segments \ up)
  /\ pc' = "idle" /\ opts' = NoOptions
  /\ UNCHANGED <<rates, unseen, phase, aside, excused>>

(* The script is killed: during the write the file is left half written,    *)
(* and later the rates are new and the bots old, or stopped.                *)
Interrupt ==
  /\ pc # "idle"
  /\ \/ file' = file /\ backup' = <<>>
     \/ pc = "saved" /\ file' = <<>> /\ backup' = backup
  /\ excused' = (excused \/ pc \notin {"checked", "saved"})
  /\ pc' = "idle" /\ opts' = NoOptions
  /\ UNCHANGED <<books, bots, phase, aside>>

PutBack ==
  /\ file = <<>> /\ pc = "idle"
  /\ file' = backup /\ backup' = <<>>
  /\ UNCHANGED <<script, books, bots, phase, aside, excused>>

(* The scripts run by hand; without --force they refuse while a bot runs,   *)
(* the F&O cleanup in any case.                                             *)
PurgeFno ==
  /\ up \cap {"fno"} = {}
  /\ held' = [s \in Segments |-> IF s = "fno" THEN None ELSE held[s]]
  /\ snap' = Wiped(Segments \cap {"fno"})
  /\ UNCHANGED <<account, aside>>

ByHand ==
  /\ pc = "idle"
  /\ \/ CleanEquity
     \/ WipeSession /\ UNCHANGED aside
     \/ PurgeFno
  /\ excused' = TRUE
  /\ UNCHANGED <<script, rates, bots, phase>>

Script ==
  \/ NothingToPatch \/ BackUp \/ Write \/ Decline \/ StopBots
  \/ CleanIfSuspicious \/ Wipe \/ Launch

Next ==
  \/ Begin \/ Script \/ Interrupt \/ PutBack \/ ByHand \/ ClockTurns
  \/ \E s \in Segments : Start(s) \/ Crash(s) \/ Open(s) \/ Close(s)

(* The script runs to its end.                                              *)
Spec == Init /\ [][Next]_vars /\ WF_vars(Script)
-----------------------------------------------------------------------------
(* Properties *)

(* eod_apply_fee_updates.py:126-128, "any pending exit fee uses a single    *)
(* consistent rate": a bot closes a position under the rate it was opened   *)
(* under, whatever crashes and restarts came between, unless a step against *)
(* the procedure came first, or the script's stop missed a bot that was     *)
(* started without --paper and runs on under the old rates.                 *)
OneRatePerPosition == excused \/ \A s \in up : held[s] \in {None, loaded[s]}

(* No maintenance step makes a position disappear: it goes when a running   *)
(* bot closes it or a restart finds it to be of an earlier day.             *)
PositionsAreClosed ==
  [][\A s \in Segments : (held[s] # None /\ held'[s] = None) =>
        s \in up \/ (s \in up') \/ (excused')]_vars

(* A half-written rates file can be put back: the copy is a whole table.    *)
Recoverable == file = <<>> => backup \in [Segments -> Values]

(* Bots that the script has stopped it also launches, unless it is killed.  *)
StopIsFollowedByStart == pc = "stopped" ~> (up = Segments \/ excused)
=============================================================================
