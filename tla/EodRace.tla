-------------------------------- MODULE EodRace --------------------------------
(***************************************************************************)
(* The threads of one bot process around the square-off: the per-minute    *)
(* tick, the end_of_day cron and the SIGTERM handler interleave the steps  *)
(* of Executor._end_of_day, Executor._manage_open_positions and            *)
(* Executor._place on one PaperBroker (bot/executor.py,                    *)
(* bot/broker/paper.py, bot/scheduler.py).                                 *)
(*                                                                         *)
(* place_order is two steps: it looks the position up, and later settles   *)
(* against what it saw.  Every order is for a whole position.              *)
(***************************************************************************)
EXTENDS Integers, FiniteSets

CONSTANTS
    Symbols,        \* tradeable symbols
    Segments,       \* the kinds each segment trades; a process runs one
    MaxEntries      \* bound: entries filled on one symbol

Kinds == {"equity", "futures", "option", "spread"}

ASSUME RaceAssumption ==
    /\ IsFiniteSet(Symbols) /\ Symbols # {}
    /\ Segments \subseteq SUBSET Kinds
    /\ MaxEntries \in Nat

Threads == {"tick", "cron", "stop"}

VARIABLES
    kind,       \* what each symbol is (an iron condor behaves as a spread)
    pos,        \* PaperBroker._positions
    late,       \* the clock has passed square_off
    marker,     \* eod_done:<segment> carries today's date
    pc,         \* where each thread is
    todo,       \* positions the thread still has to visit
    ord,        \* the order the thread is placing
    seen,       \* the position place_order found for it
    filled,     \* symbols whose square-off order of this sweep was filled
    entries,    \* history: entries filled on each symbol
    credits,    \* history: closes settled on each symbol
    exits,      \* history: exit rows journaled for each symbol
    managed,    \* history: symbols closed by an order of the management pass
    early,      \* history: the marker was set before the square-off time
    overtaken,  \* history: an entry was filled after the signal arrived
    raised      \* history: threads whose handler ended in an exception

vars == <<kind, pos, late, marker, pc, todo, ord, seen, filled, entries,
          credits, exits, managed, early, overtaken, raised>>
local == <<todo, ord, seen, filled>>
history == <<entries, credits, exits, managed, early, overtaken, raised>>

\* A position: signed size, instrument kind, and who opened it.
Flat == [qty |-> 0, kind |-> "equity", by |-> "entry"]
Open(s) == pos[s].qty # 0
Held == {s \in Symbols : Open(s)}
Listed == {[sym |-> s, at |-> pos[s]] : s \in Held}

NoOrder == [sym |-> CHOOSE s \in Symbols : TRUE, dir |-> 1, n |-> 0,
            kind |-> "equity", why |-> "none"]

\* The sides a position of each kind may be entered on.
Sides == [equity |-> {1, -1}, futures |-> {1, -1}, option |-> {1}, spread |-> {-1}]

Positions == [qty : Int, kind : Kinds, by : {"entry", "close"}]
Listings == [sym : Symbols, at : Positions]
Orders == [sym : Symbols, dir : {1, -1}, n : Nat, kind : Kinds,
           why : {"none", "exit", "sweep", "entry"}]

Places == {"idle", "manage", "kill", "enter", "order", "settle", "guard",
           "book", "list", "sweep", "journal", "mark", "over"}

TypeOK ==
    /\ kind \in [Symbols -> Kinds]
    /\ pos \in [Symbols -> Positions]
    /\ late \in BOOLEAN /\ marker \in BOOLEAN
    /\ pc \in [Threads -> Places]
    /\ todo \in [Threads -> SUBSET Listings]
    /\ ord \in [Threads -> Orders]
    /\ seen \in [Threads -> Positions]
    /\ filled \in [Threads -> SUBSET Symbols]
    /\ entries \in [Symbols -> Nat]
    /\ credits \in [Symbols -> Nat] /\ exits \in [Symbols -> Nat]
    /\ managed \subseteq Symbols
    /\ early \in BOOLEAN /\ overtaken \in BOOLEAN /\ raised \subseteq Threads

Init ==
    /\ \E segment \in Segments : kind \in [Symbols -> segment]
    /\ pos = [s \in Symbols |-> Flat]
    /\ late = FALSE /\ marker = FALSE
    /\ pc = [t \in Threads |-> "idle"]
    /\ todo = [t \in Threads |-> {}]
    /\ ord = [t \in Threads |-> NoOrder]
    /\ seen = [t \in Threads |-> Flat]
    /\ filled = [t \in Threads |-> {}]
    /\ entries = [s \in Symbols |-> 0]
    /\ credits = [s \in Symbols |-> 0]
    /\ exits = [s \in Symbols |-> 0]
    /\ managed = {} /\ early = FALSE /\ overtaken = FALSE /\ raised = {}

\* SIGTERM has arrived.  Its handler runs on the thread of the scheduler's
\* loop, so no further job is started; jobs already running go on.
Signalled == pc["stop"] # "idle"

Goto(t, l) == pc' = [pc EXCEPT ![t] = l]

\* Where a thread is after its handler returned or raised.
Finished(t) == IF t = "tick" THEN "idle" ELSE "over"

-------------------------------------------------------------------------------
(* PaperBroker.place_order.                                                *)

\* The kind the order is treated as: an existing position's own, unless that
\* is equity.
Treated(o, was) ==
    IF was.qty # 0 /\ was.kind # "equity" THEN was.kind ELSE o.kind

\* Mutants: without the square-off clause of the over-sell guard, and without
\* any look at what a missing position means.
RejectedOversold(o, was) ==
    Treated(o, was) = "equity" /\ o.dir = -1 /\ was.qty > 0 /\ o.n > was.qty
RejectedUnguarded(o, was) ==
    LET k == Treated(o, was) IN
    \/ k = "equity" /\ o.dir = -1 /\ was.qty > 0 /\ o.n > was.qty
    \/ was.qty = 0 /\ k = "option" /\ o.dir = -1
    \/ was.qty = 0 /\ k = "spread" /\ o.dir = 1

Rejected(o, was) ==
    LET k == Treated(o, was) IN
    \/ k = "equity" /\ o.dir = -1 /\ o.why = "sweep" /\ was.qty = 0
    \/ k = "equity" /\ o.dir = -1 /\ was.qty > 0 /\ o.n > was.qty
    \/ was.qty = 0 /\ k = "option" /\ o.dir = -1
    \/ was.qty = 0 /\ k = "spread" /\ o.dir = 1

\* An opening order may also lack the cash, except an equity short.
NeedsCash(o, was) == was.qty = 0 /\ ~(Treated(o, was) = "equity" /\ o.dir = -1)

\* The loop an order belongs to goes on.
Resume(o) == CASE o.why = "exit"  -> "manage"
               [] o.why = "sweep" -> "sweep"
               [] OTHER           -> "enter"

\* The order goes out against the position found now.
Lookup(t) ==
    /\ pc[t] = "order"
    /\ LET o == ord[t] was == pos[o.sym] IN
          \/ /\ ~Rejected(o, was)
             /\ seen' = [seen EXCEPT ![t] = was]
             /\ Goto(t, "settle")
             /\ UNCHANGED ord
          \/ /\ Rejected(o, was) \/ NeedsCash(o, was)
             /\ ord' = [ord EXCEPT ![t] = NoOrder]
             /\ Goto(t, Resume(o))
             /\ UNCHANGED seen
    /\ UNCHANGED <<kind, pos, late, marker, todo, filled, history>>

\* What the settled order leaves at its symbol.  A close of a position that
\* is gone meanwhile credits the cash and raises (KeyError in dict.pop); an
\* addition reaches the book only if the position found is still there.
Settled(o, was) ==
    LET new == was.qty + o.dir * o.n
        fresh == [qty |-> new, kind |-> Treated(o, was),
                  by |-> IF o.why = "entry" THEN "entry" ELSE "close"]
    IN  IF was.qty = 0 \/ was.qty * new < 0 THEN fresh
        ELSE IF new = 0 THEN Flat
        ELSE IF pos[o.sym] = was THEN [qty |-> new, kind |-> was.kind, by |-> "close"]
        ELSE pos[o.sym]

Closes(o, was) == was.qty # 0 /\ was.qty * (was.qty + o.dir * o.n) <= 0
Raises(o, was) == was.qty + o.dir * o.n = 0 /\ was.qty # 0 /\ ~Open(o.sym)

Settle(t) ==
    /\ pc[t] = "settle"
    /\ LET o == ord[t] was == seen[t] s == o.sym IN
          /\ pos' = [pos EXCEPT ![s] = Settled(o, was)]
          /\ entries' = [entries EXCEPT ![s] = IF o.why = "entry" THEN @ + 1 ELSE @]
          /\ credits' = [credits EXCEPT ![s] = IF Closes(o, was) THEN @ + 1 ELSE @]
          /\ exits' = [exits EXCEPT ![s] =
                IF o.why = "exit" /\ Closes(o, was) /\ ~Raises(o, was) THEN @ + 1 ELSE @]
          /\ managed' = IF o.why = "exit" THEN managed \cup {s} ELSE managed
          /\ overtaken' = (overtaken \/ (o.why = "entry" /\ Signalled))
          /\ IF Raises(o, was)
             THEN /\ Goto(t, Finished(t))
                  /\ raised' = raised \cup {t}
                  /\ filled' = [filled EXCEPT ![t] = {}]
                  /\ todo' = [todo EXCEPT ![t] = {}]
             ELSE /\ Goto(t, Resume(o))
                  /\ filled' = [filled EXCEPT ![t] =
                        IF o.why = "sweep" THEN @ \cup {s} ELSE @]
                  /\ UNCHANGED <<raised, todo>>
    /\ ord' = [ord EXCEPT ![t] = NoOrder]
    /\ seen' = [seen EXCEPT ![t] = Flat]
    /\ UNCHANGED <<kind, late, marker, early>>

-------------------------------------------------------------------------------
(* Executor._end_of_day.                                                   *)

\* Only the handler of SIGTERM ignores the marker.
MarksAlways(t) == TRUE  \* mutant: the defensive sweep uses the marker too
Marks(t) == t # "stop"

Guard(t) ==
    /\ pc[t] = "guard"
    /\ Goto(t, IF Marks(t) /\ marker THEN Finished(t) ELSE "book")
    /\ UNCHANGED <<kind, pos, late, marker, local, history>>

\* Read the positions; a flat book only sets the marker.  Fetching marks
\* over the network comes between this read and the next.
ReadBook(t) ==
    /\ pc[t] = "book"
    /\ Goto(t, IF Held # {} THEN "list" ELSE IF Marks(t) THEN "mark" ELSE Finished(t))
    /\ UNCHANGED <<kind, pos, late, marker, local, history>>

\* square_off_all lists the positions it will close.
ListSweep(t) ==
    /\ pc[t] = "list"
    /\ todo' = [todo EXCEPT ![t] = Listed]
    /\ Goto(t, "sweep")
    /\ UNCHANGED <<kind, pos, late, marker, ord, seen, filled, history>>

\* The order that takes a listed position to zero.
Opposite(p, k, why) ==
    [sym |-> p.sym, dir |-> IF p.at.qty > 0 THEN -1 ELSE 1,
     n |-> IF p.at.qty > 0 THEN p.at.qty ELSE -p.at.qty, kind |-> k, why |-> why]

Sweep(t) ==
    /\ pc[t] = "sweep"
    /\ IF todo[t] = {}
       THEN Goto(t, "journal") /\ UNCHANGED <<todo, ord>>
       ELSE \E p \in todo[t] :
               /\ todo' = [todo EXCEPT ![t] = @ \ {p}]
               /\ ord' = [ord EXCEPT ![t] = Opposite(p, p.at.kind, "sweep")]
               /\ Goto(t, "order")
    /\ UNCHANGED <<kind, pos, late, marker, seen, filled, history>>

\* Every filled order of the sweep becomes an exit row.
JournalSweep(t) ==
    /\ pc[t] = "journal"
    /\ exits' = [s \in Symbols |-> IF s \in filled[t] THEN exits[s] + 1 ELSE exits[s]]
    /\ filled' = [filled EXCEPT ![t] = {}]
    /\ Goto(t, IF Marks(t) THEN "mark" ELSE Finished(t))
    /\ UNCHANGED <<kind, pos, late, marker, todo, ord, seen, entries, credits,
                   managed, early, overtaken, raised>>

\* Mutant: the marker is forgotten.
MarkForgotten(t) ==
    /\ pc[t] = "mark"
    /\ Goto(t, Finished(t))
    /\ UNCHANGED <<kind, pos, late, marker, local, history>>

Mark(t) ==
    /\ pc[t] = "mark"
    /\ marker' = TRUE
    /\ early' = (early \/ ~late)
    /\ Goto(t, Finished(t))
    /\ UNCHANGED <<kind, pos, late, local, entries, credits, exits, managed,
                   overtaken, raised>>

-------------------------------------------------------------------------------
(* The handlers.                                                           *)

\* A tick before the square-off time lists the book, or goes on to entries.
TickManages ==
    /\ pc["tick"] = "idle" /\ ~late /\ ~Signalled
    /\ todo' = [todo EXCEPT !["tick"] = Listed]
    /\ Goto("tick", IF Held # {} THEN "manage" ELSE "enter")
    /\ UNCHANGED <<kind, pos, late, marker, ord, seen, filled, history>>

\* _manage_open_positions: a position whose stop or target is hit is closed
\* by an order that carries no kind and is not a square-off.
Manage ==
    /\ pc["tick"] = "manage"
    /\ IF todo["tick"] = {}
       THEN Goto("tick", "kill") /\ UNCHANGED <<todo, ord>>
       ELSE \E p \in todo["tick"] :
               /\ todo' = [todo EXCEPT !["tick"] = @ \ {p}]
               /\ \/ UNCHANGED <<pc, ord>>
                  \/ /\ ord' = [ord EXCEPT !["tick"] = Opposite(p, "equity", "exit")]
                     /\ Goto("tick", "order")
    /\ UNCHANGED <<kind, pos, late, marker, seen, filled, history>>

\* The daily-loss kill switch after the pass, and the entry window.
KillCheck ==
    /\ pc["tick"] = "kill"
    /\ \E l \in {"idle", "guard", "enter"} : (l = "enter" => ~late)
                                            /\ Goto("tick", l)
    /\ UNCHANGED <<kind, pos, late, marker, local, history>>

\* Entries, one signal after another, on symbols the tick does not hold.
TickEnters ==
    /\ pc["tick"] = "enter"
    /\ \/ /\ \E s \in Symbols \ Held, d \in {1, -1} :
                /\ d \in Sides[kind[s]] /\ entries[s] < MaxEntries
                /\ ord' = [ord EXCEPT !["tick"] =
                      [sym |-> s, dir |-> d, n |-> 1, kind |-> kind[s], why |-> "entry"]]
          /\ Goto("tick", "order")
       \/ Goto("tick", "idle") /\ UNCHANGED ord
    /\ UNCHANGED <<kind, pos, late, marker, todo, seen, filled, history>>

\* At or after square_off.
TickSquaresOff ==
    /\ pc["tick"] = "idle" /\ late /\ ~Signalled
    /\ Goto("tick", "guard")
    /\ UNCHANGED <<kind, pos, late, marker, local, history>>

CronFires ==
    /\ pc["cron"] = "idle" /\ late /\ ~Signalled
    /\ Goto("cron", "guard")
    /\ UNCHANGED <<kind, pos, late, marker, local, history>>

SignalArrives ==
    /\ pc["stop"] = "idle"
    /\ Goto("stop", "guard")
    /\ UNCHANGED <<kind, pos, late, marker, local, history>>

\* The entry window closes long before square_off (13:30 and 15:15), so no
\* entry is in flight then; a management pass may be.
ClockPassesSquareOff ==
    /\ ~late /\ late' = TRUE
    /\ ~(pc["tick"] \in {"order", "settle"} /\ ord["tick"].why = "entry")
    /\ pc["tick"] # "enter"
    /\ UNCHANGED <<kind, pos, marker, pc, local, history>>

EndOfDay(t) ==
    Guard(t) \/ ReadBook(t) \/ ListSweep(t) \/ Sweep(t) \/ JournalSweep(t) \/ Mark(t)

PlaceOrder(t) == Lookup(t) \/ Settle(t)

Runs(t) == EndOfDay(t) \/ PlaceOrder(t)

Next ==
    \/ TickManages \/ Manage \/ KillCheck \/ TickEnters \/ TickSquaresOff
    \/ CronFires \/ SignalArrives \/ ClockPassesSquareOff
    \/ \E t \in Threads : Runs(t)

Spec == Init /\ [][Next]_vars

\* The operating system runs every thread, the scheduler fires due jobs.
FairSpec ==
    /\ Spec
    /\ WF_vars(Runs("tick") \/ Manage \/ KillCheck \/ TickEnters \/ TickSquaresOff)
    /\ WF_vars(Runs("cron") \/ CronFires)
    /\ WF_vars(Runs("stop"))

-------------------------------------------------------------------------------
(* Properties.                                                             *)

\* The symbols on which a duplicate close is harmless: the broker rejects an
\* orphan square-off of a long share, a long option or a short spread.
Guarded(s) == kind[s] \in {"option", "spread"} \/ (kind[s] = "equity" /\ pos[s].qty < 0)

Phantom(s) == Open(s) /\ pos[s].by = "close"

\* Square-offs that race each other never open a position on a long share,
\* an option or a spread: only a close of the management pass, or a cover of
\* a short share, or futures can (PaperBroker's over-sell guard).
SweepsOpenNothing ==
    \A s \in Symbols : Phantom(s) /\ s \notin managed => ~Guarded(s)

\* The journal has no exit row without a close that the broker credited, on
\* options and spreads, whichever handlers race (_end_of_day journals after
\* its whole sweep).
ExitsWereCredited ==
    \A s \in Symbols : kind[s] \in {"option", "spread"} /\ s \notin managed
                          => exits[s] <= credits[s]

Quiet == \A t \in Threads : pc[t] \in {"idle", "over"}
Leftover == \E s \in Symbols : Open(s) /\ pos[s].by = "entry"

\* The SIGTERM sweep closes everything, unless an entry was being placed
\* meanwhile or the sweep itself lost a race for a close and raised.
StopSweepsAll ==
    Signalled /\ Quiet /\ ~overtaken /\ "stop" \notin raised => ~Leftover

\* Once the square-off time has passed, the marker is set and nothing that
\* was entered stays open, unless the process is told to stop or a mid-session
\* kill had set the marker before.
SquareOffHappens == late ~> (Signalled \/ early \/ (marker /\ ~Leftover))
===============================================================================
