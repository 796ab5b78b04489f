---------------------------- MODULE EodRace_proofs ----------------------------
(***************************************************************************)
(* For any number of symbols and entries: sweeps that race each other open *)
(* nothing on options, spreads and long shares, and the journal shows no   *)
(* exit of theirs that the broker did not credit.                          *)
(*                                                                         *)
(* The strengthening: an entry is placed on a symbol only while no sweep   *)
(* has it on its list (only the SIGTERM sweep runs beside entries, and     *)
(* what it lists stays open until it is swept), so an order of a sweep     *)
(* meets the position it was made for, or none.  The SIGTERM sweep clears  *)
(* the book: an entry's position is to be listed, listed, or being closed. *)
(***************************************************************************)
EXTENDS EodRace, TLAPS

Ordering(t) == pc[t] \in {"order", "settle"}
Sweeping(t) == pc[t] = "sweep" \/ (Ordering(t) /\ ord[t].why = "sweep")

\* A sweep still has the symbol before it.
Pending(t, s) ==
    /\ Sweeping(t)
    /\ (\E p \in todo[t] : p.sym = s) \/ (Ordering(t) /\ ord[t].sym = s)

\* The tick between its management pass and its last entry.
InPass ==
    \/ pc["tick"] \in {"manage", "kill", "enter"}
    \/ Ordering("tick") /\ ord["tick"].why # "sweep"
Entering(s) == Ordering("tick") /\ ord["tick"].why = "entry" /\ ord["tick"].sym = s

Roles ==
    /\ pc["cron"] # "idle" => late
    /\ late => pc["tick"] # "enter" /\ \A s \in Symbols : ~Entering(s)
    /\ \A t \in Threads : t # "tick" => pc[t] \notin {"manage", "kill", "enter"}
    /\ \A t \in Threads : Ordering(t) => ord[t].why # "none"
    /\ \A t \in Threads : Ordering(t) /\ t # "tick" => ord[t].why = "sweep"

\* A sweep lists a symbol once.
OneListing ==
    \A t \in Threads : Sweeping(t) =>
        /\ \A p, q \in todo[t] : p.sym = q.sym => p = q
        /\ Ordering(t) => \A p \in todo[t] : p.sym # ord[t].sym

HeldTillSwept ==
    InPass /\ ~late => \A s \in Symbols \ managed : Pending("stop", s) => Open(s)

NoRival ==
    \A s \in Symbols \ managed : Entering(s) => ~Open(s) /\ ~Pending("stop", s)

\* Options are bought, spreads are sold.
Limited(s) == kind[s] \in {"option", "spread"}
Way(s) == IF kind[s] = "option" THEN 1 ELSE -1
Entered(s) == [qty |-> Way(s), kind |-> kind[s], by |-> "entry"]

\* What place_order is told about a symbol, and what it found.
EntryOrder(o, s) == o.why = "entry" => o.n = 1 /\ o.kind = kind[s] /\ o.dir \in Sides[kind[s]]

LimitedShape(s) ==
    /\ pos[s] \in {Flat, Entered(s)}
    /\ \A t \in Threads : Sweeping(t) => \A p \in todo[t] : p.sym = s => p.at = Entered(s)
    /\ \A t \in Threads : Ordering(t) /\ ord[t].sym = s =>
          /\ EntryOrder(ord[t], s)
          /\ ord[t].why = "sweep" => /\ ord[t].n = 1 /\ ord[t].kind = kind[s]
                                     /\ ord[t].dir = -Way(s)
          /\ pc[t] = "settle" => /\ ord[t].why = "entry" => seen[t] = Flat
                                 /\ ord[t].why = "sweep" => seen[t] = Entered(s)

\* A short share is an entry's; what sells it short is an entry.
Shares(p) == p.kind = "equity" /\ (p.qty < 0 => p.qty = -1 /\ p.by = "entry")
ShareShape(s) ==
    /\ Shares(pos[s])
    /\ \A t \in Threads : Sweeping(t) => \A p \in todo[t] : p.sym = s =>
          /\ Shares(p.at) /\ p.at.qty # 0
          /\ p.at.qty > 0 => pos[s].qty >= 0
    /\ \A t \in Threads : Ordering(t) /\ ord[t].sym = s =>
          /\ EntryOrder(ord[t], s)
          /\ ord[t].why = "sweep" =>
                /\ ord[t].kind = "equity" /\ ord[t].n # 0
                /\ ord[t].dir = 1 => ord[t].n = 1
                /\ ord[t].dir = -1 => pos[s].qty >= 0
          /\ pc[t] = "settle" =>
                /\ Shares(seen[t])
                /\ ord[t].why = "entry" => seen[t].qty = 0
                /\ ord[t].why = "sweep" /\ ord[t].dir = -1 => seen[t].qty >= ord[t].n

Shapes ==
    \A s \in Symbols \ managed :
        /\ Limited(s) => LimitedShape(s)
        /\ kind[s] = "equity" => ShareShape(s)

Told(t, s) == IF s \in filled[t] THEN 1 ELSE 0
Credited ==
    \A s \in Symbols \ managed : Limited(s) =>
        exits[s] + Told("tick", s) + Told("cron", s) + Told("stop", s) <= credits[s]

IInv == TypeOK /\ Roles /\ OneListing /\ HeldTillSwept /\ NoRival /\ Shapes /\ Credited

-------------------------------------------------------------------------------
LEMMA ListedType == TypeOK => Listed \in SUBSET Listings
BY DEF TypeOK, Listed, Listings, Held

LEMMA OppositeType ==
    ASSUME NEW p \in Listings, NEW k \in Kinds, NEW why \in {"exit", "sweep"}
    PROVE  Opposite(p, k, why) \in Orders
BY DEF Opposite, Listings, Orders, Positions

LEMMA NoOrderType == NoOrder \in Orders
<1>1. (CHOOSE s \in Symbols : TRUE) \in Symbols
  BY RaceAssumption
<1>2. QED
  BY <1>1 DEF NoOrder, Orders, Kinds

LEMMA FlatType == Flat \in Positions
BY DEF Flat, Positions, Kinds

LEMMA SettledType ==
    ASSUME TypeOK, NEW o \in Orders, NEW was \in Positions
    PROVE  Settled(o, was) \in Positions
<1> DEFINE new == was.qty + o.dir * o.n
           fresh == [qty |-> new, kind |-> Treated(o, was),
                     by |-> IF o.why = "entry" THEN "entry" ELSE "close"]
           kept == [qty |-> new, kind |-> was.kind, by |-> "close"]
<1>1. o.dir \in {1, -1} /\ o.n \in Nat /\ o.sym \in Symbols /\ o.kind \in Kinds
  BY DEF Orders
<1>2. was.qty \in Int /\ was.kind \in Kinds
  BY DEF Positions
<1>3. new \in Int
  BY <1>1, <1>2
<1>4. Treated(o, was) \in Kinds
  BY <1>1, <1>2 DEF Treated
<1> HIDE DEF new
<1>5. fresh \in Positions
  BY <1>3, <1>4 DEF Positions
<1>6. kept \in Positions
  BY <1>3 DEF Positions
<1>7. pos[o.sym] \in Positions
  BY <1>1 DEF TypeOK
<1> HIDE DEF fresh, kept
<1>8. Settled(o, was) \in {fresh, Flat, kept, pos[o.sym]}
  BY DEF Settled, fresh, kept, new
<1>9. QED
  BY <1>5, <1>6, <1>7, <1>8, FlatType

LEMMA TypeInit == Init => TypeOK
<1> SUFFICES ASSUME Init PROVE TypeOK
  OBVIOUS
<1>1. kind \in [Symbols -> Kinds]
  BY RaceAssumption DEF Init
<1>2. pos \in [Symbols -> Positions] /\ seen \in [Threads -> Positions]
  BY FlatType DEF Init
<1>3. ord \in [Threads -> Orders]
  BY NoOrderType DEF Init
<1>4. entries \in [Symbols -> Nat]
  BY RaceAssumption DEF Init
<1>5. pc \in [Threads -> Places]
  BY DEF Init, Places
<1>6. QED
  BY <1>1, <1>2, <1>3, <1>4, <1>5 DEF Init, TypeOK

LEMMA GotoType ==
    ASSUME TypeOK, NEW t \in Threads, NEW l \in Places, Goto(t, l)
    PROVE  pc' \in [Threads -> Places]
BY DEF TypeOK, Goto

LEMMA TypeEndOfDay ==
    ASSUME TypeOK, NEW t \in Threads, EndOfDay(t)
    PROVE  TypeOK'
<1> USE DEF local, history
<1>1. Finished(t) \in Places
  BY DEF Finished, Places
<1>2. CASE Guard(t)
  <2>1. pc' \in [Threads -> Places]
    BY <1>1, <1>2, GotoType DEF Guard, Places
  <2>2. QED
    BY <1>2, <2>1 DEF Guard, TypeOK
<1>3. CASE ReadBook(t)
  <2>1. pc' \in [Threads -> Places]
    BY <1>1, <1>3, GotoType DEF ReadBook, Places
  <2>2. QED
    BY <1>3, <2>1 DEF ReadBook, TypeOK
<1>4. CASE ListSweep(t)
  <2>1. pc' \in [Threads -> Places]
    BY <1>4, GotoType DEF ListSweep, Places
  <2>2. todo' \in [Threads -> SUBSET Listings]
    BY <1>4, ListedType DEF ListSweep, TypeOK
  <2>3. QED
    BY <1>4, <2>1, <2>2 DEF ListSweep, TypeOK
<1>5. CASE Sweep(t)
  <2>1. CASE todo[t] = {}
    <3>1. pc' \in [Threads -> Places]
      BY <1>5, <2>1, GotoType DEF Sweep, Places
    <3>2. QED
      BY <1>5, <2>1, <3>1 DEF Sweep, TypeOK
  <2>2. CASE todo[t] # {}
    <3>1. PICK p \in todo[t] :
             /\ todo' = [todo EXCEPT ![t] = @ \ {p}]
             /\ ord' = [ord EXCEPT ![t] = Opposite(p, p.at.kind, "sweep")]
             /\ Goto(t, "order")
      BY <1>5, <2>2 DEF Sweep
    <3>2. p \in Listings /\ p.at.kind \in Kinds
      BY DEF TypeOK, Listings, Positions
    <3>3. Opposite(p, p.at.kind, "sweep") \in Orders
      BY <3>2, OppositeType
    <3>4. pc' \in [Threads -> Places]
      BY <3>1, GotoType DEF Places
    <3>5. todo' \in [Threads -> SUBSET Listings]
      BY <3>1 DEF TypeOK
    <3>6. ord' \in [Threads -> Orders]
      BY <3>1, <3>3 DEF TypeOK
    <3>7. QED
      BY <1>5, <3>4, <3>5, <3>6 DEF Sweep, TypeOK
  <2>3. QED
    BY <2>1, <2>2
<1>6. CASE JournalSweep(t)
  <2>1. pc' \in [Threads -> Places]
    BY <1>1, <1>6, GotoType DEF JournalSweep, Places
  <2>2. exits' \in [Symbols -> Nat] /\ filled' \in [Threads -> SUBSET Symbols]
    BY <1>6 DEF JournalSweep, TypeOK
  <2>3. QED
    BY <1>6, <2>1, <2>2 DEF JournalSweep, TypeOK
<1>7. CASE Mark(t)
  <2>1. pc' \in [Threads -> Places]
    BY <1>1, <1>7, GotoType DEF Mark, Places
  <2>2. early' \in BOOLEAN /\ marker' \in BOOLEAN
    BY <1>7, Zenon DEF Mark, TypeOK
  <2>3. QED
    BY <1>7, <2>1, <2>2 DEF Mark, TypeOK
<1>8. QED
  BY <1>2, <1>3, <1>4, <1>5, <1>6, <1>7 DEF EndOfDay

LEMMA TypePlaceOrder ==
    ASSUME TypeOK, NEW t \in Threads, PlaceOrder(t)
    PROVE  TypeOK'
<1> USE DEF local, history
<1> DEFINE o == ord[t]
<1>1. o \in Orders /\ o.sym \in Symbols
  BY DEF TypeOK, Orders
<1>2. Resume(o) \in Places
  BY DEF Resume, Places
<1>3. CASE Lookup(t)
  <2> DEFINE was == pos[o.sym]
  <2>1. was \in Positions
    BY <1>1 DEF TypeOK
  <2>2. CASE /\ seen' = [seen EXCEPT ![t] = was]
             /\ Goto(t, "settle")
             /\ UNCHANGED ord
    <3>1. pc' \in [Threads -> Places]
      BY <2>2, GotoType DEF Places
    <3>2. QED
      BY <1>3, <2>1, <2>2, <3>1 DEF Lookup, TypeOK
  <2>3. CASE /\ ord' = [ord EXCEPT ![t] = NoOrder]
             /\ Goto(t, Resume(o))
             /\ UNCHANGED seen
    <3>1. pc' \in [Threads -> Places]
      BY <1>2, <2>3, GotoType
    <3>2. QED
      BY <1>3, <2>3, <3>1, NoOrderType DEF Lookup, TypeOK
  <2>4. QED
    BY <1>3, <2>2, <2>3 DEF Lookup
<1>4. CASE Settle(t)
  <2> DEFINE was == seen[t]
  <2>1. was \in Positions
    BY DEF TypeOK
  <2>2. pos' \in [Symbols -> Positions]
    BY <1>1, <1>4, <2>1, SettledType DEF Settle, TypeOK
  <2>3. /\ entries' \in [Symbols -> Nat]
        /\ credits' \in [Symbols -> Nat]
        /\ exits' \in [Symbols -> Nat]
    BY <1>1, <1>4 DEF Settle, TypeOK
  <2>4. overtaken' \in BOOLEAN
    BY <1>4, Zenon DEF Settle, TypeOK
  <2>5. managed' \subseteq Symbols /\ raised' \subseteq Threads
    BY <1>1, <1>4 DEF Settle, TypeOK
  <2>6. pc' \in [Threads -> Places]
    BY <1>2, <1>4, GotoType DEF Settle, Finished, Places
  <2>7. filled' \in [Threads -> SUBSET Symbols] /\ todo' \in [Threads -> SUBSET Listings]
    BY <1>1, <1>4 DEF Settle, TypeOK
  <2>8. ord' \in [Threads -> Orders] /\ seen' \in [Threads -> Positions]
    BY <1>4, NoOrderType, FlatType DEF Settle, TypeOK
  <2>9. UNCHANGED <<kind, late, marker, early>>
    BY <1>4 DEF Settle
  <2>10. QED
    BY <2>2, <2>3, <2>4, <2>5, <2>6, <2>7, <2>8, <2>9 DEF TypeOK
<1>5. QED
  BY <1>3, <1>4 DEF PlaceOrder

LEMMA TypeHandlers ==
    ASSUME TypeOK,
           TickManages \/ Manage \/ KillCheck \/ TickEnters \/ TickSquaresOff
           \/ CronFires \/ SignalArrives \/ ClockPassesSquareOff
    PROVE  TypeOK'
<1> USE DEF local, history, Threads
<1>1. CASE TickManages
  <2>1. pc' \in [Threads -> Places]
    BY <1>1, GotoType DEF TickManages, Places
  <2>2. QED
    BY <1>1, <2>1, ListedType DEF TickManages, TypeOK
<1>2. CASE Manage
  <2>1. CASE todo["tick"] = {}
    <3>1. pc' \in [Threads -> Places]
      BY <1>2, <2>1, GotoType DEF Manage, Places
    <3>2. QED
      BY <1>2, <2>1, <3>1 DEF Manage, TypeOK
  <2>2. CASE todo["tick"] # {}
    <3>1. PICK p \in todo["tick"] :
             /\ todo' = [todo EXCEPT !["tick"] = @ \ {p}]
             /\ \/ UNCHANGED <<pc, ord>>
                \/ /\ ord' = [ord EXCEPT !["tick"] = Opposite(p, "equity", "exit")]
                   /\ Goto("tick", "order")
      BY <1>2, <2>2 DEF Manage
    <3>2. Opposite(p, "equity", "exit") \in Orders
      BY OppositeType DEF TypeOK, Kinds
    <3>3. todo' \in [Threads -> SUBSET Listings]
      BY <3>1 DEF TypeOK
    <3>4. ord' \in [Threads -> Orders]
      BY <3>1, <3>2 DEF TypeOK
    <3>5. pc' \in [Threads -> Places]
      BY <3>1, GotoType DEF Places, TypeOK
    <3>6. QED
      BY <1>2, <3>3, <3>4, <3>5 DEF Manage, TypeOK
  <2>3. QED
    BY <2>1, <2>2
<1>3. CASE KillCheck
  <2>1. pc' \in [Threads -> Places]
    BY <1>3, GotoType DEF KillCheck, Places
  <2>2. QED
    BY <1>3, <2>1 DEF KillCheck, TypeOK
<1>4. CASE TickEnters
  <2>1. CASE Goto("tick", "idle") /\ UNCHANGED ord
    <3>1. pc' \in [Threads -> Places]
      BY <2>1, GotoType DEF Places
    <3>2. QED
      BY <1>4, <2>1, <3>1 DEF TickEnters, TypeOK
  <2>2. CASE /\ \E s \in Symbols \ Held, d \in {1, -1} :
                   /\ d \in Sides[kind[s]] /\ entries[s] < MaxEntries
                   /\ ord' = [ord EXCEPT !["tick"] =
                         [sym |-> s, dir |-> d, n |-> 1, kind |-> kind[s], why |-> "entry"]]
             /\ Goto("tick", "order")
    <3>1. pc' \in [Threads -> Places]
      BY <2>2, GotoType DEF Places
    <3>2. ord' \in [Threads -> Orders]
      BY <2>2 DEF TypeOK, Orders
    <3>3. QED
      BY <1>4, <3>1, <3>2 DEF TickEnters, TypeOK
  <2>3. QED
    BY <1>4, <2>1, <2>2 DEF TickEnters
<1>5. CASE TickSquaresOff \/ CronFires \/ SignalArrives
  <2>1. pc' \in [Threads -> Places]
    BY <1>5, GotoType DEF TickSquaresOff, CronFires, SignalArrives, Places
  <2>2. QED
    BY <1>5, <2>1 DEF TickSquaresOff, CronFires, SignalArrives, TypeOK
<1>6. CASE ClockPassesSquareOff
  BY <1>6 DEF ClockPassesSquareOff, TypeOK
<1>7. QED
  BY <1>1, <1>2, <1>3, <1>4, <1>5, <1>6

LEMMA TypeStep == TypeOK /\ [Next]_vars => TypeOK'
<1> SUFFICES ASSUME TypeOK, [Next]_vars PROVE TypeOK'
  OBVIOUS
<1>1. CASE UNCHANGED vars
  BY <1>1 DEF vars, TypeOK
<1>2. CASE \E t \in Threads : Runs(t)
  BY <1>2, TypeEndOfDay, TypePlaceOrder DEF Runs
<1>3. QED
  BY <1>1, <1>2, TypeHandlers DEF Next

\* Every state of the three threads is well typed.
THEOREM TypeCorrect == Spec => []TypeOK
BY TypeInit, TypeStep, PTL DEF Spec

-------------------------------------------------------------------------------
LEMMA InvInit == Init => IInv
<1> SUFFICES ASSUME Init PROVE IInv
  OBVIOUS
<1>1. TypeOK
  BY TypeInit
<1>2. Roles /\ OneListing /\ HeldTillSwept /\ NoRival
  BY DEF Init, Roles, OneListing, HeldTillSwept, NoRival, Ordering, Sweeping,
         Pending, InPass, Entering, Threads
<1>3. Shapes
  BY DEF Init, Shapes, LimitedShape, ShareShape, Ordering, Sweeping, Flat, Shares
<1>4. Credited
  BY DEF Init, Credited, Told, Threads
<1>5. QED
  BY <1>1, <1>2, <1>3, <1>4 DEF IInv

\* What every step of an order does to its thread and leaves of the others.
LEMMA OrderFacts ==
    ASSUME TypeOK, Roles, NEW t \in Threads, PlaceOrder(t)
    PROVE  /\ ord[t].sym \in Symbols /\ ord[t].why \in {"exit", "sweep", "entry"}
           /\ t # "tick" => ord[t].why = "sweep"
           /\ ord[t].why = "entry" => t = "tick" /\ ~late
           /\ late' = late /\ kind' = kind
           /\ \A u \in Threads : u # t =>
                 pc'[u] = pc[u] /\ ord'[u] = ord[u] /\ todo'[u] = todo[u] /\ seen'[u] = seen[u]
                 /\ filled'[u] = filled[u]
           /\ \/ pc[t] = "order" /\ pc'[t] = "settle" /\ ord'[t] = ord[t]
              \/ pc'[t] = Resume(ord[t])
              \/ pc'[t] = Finished(t)
           /\ todo'[t] \in {todo[t], {}}
           /\ Resume(ord[t]) \in {"manage", "sweep", "enter"} /\ Finished(t) \in {"idle", "over"}
           /\ Resume(ord[t]) = "sweep" <=> ord[t].why = "sweep"
           /\ pc[t] \in {"order", "settle"}
<1> USE DEF Lookup, Settle, PlaceOrder, Ordering
<1>1. pc[t] \in {"order", "settle"}
  OBVIOUS
<1>2. ord[t].sym \in Symbols /\ ord[t].why \in {"exit", "sweep", "entry"}
  BY <1>1 DEF TypeOK, Roles, Orders
<1>3. t # "tick" => ord[t].why = "sweep"
  BY <1>1 DEF Roles
<1>4. ord[t].why = "entry" => t = "tick" /\ ~late
  BY <1>1, <1>2, <1>3 DEF Roles, Entering
<1>5. late' = late /\ kind' = kind
  OBVIOUS
<1>6. \A u \in Threads : u # t =>
         pc'[u] = pc[u] /\ ord'[u] = ord[u] /\ todo'[u] = todo[u] /\ seen'[u] = seen[u]
         /\ filled'[u] = filled[u]
  BY DEF TypeOK, Goto
<1>7. \/ pc[t] = "order" /\ pc'[t] = "settle" /\ ord'[t] = ord[t]
      \/ pc'[t] = Resume(ord[t])
      \/ pc'[t] = Finished(t)
  BY DEF TypeOK, Goto
<1>8. todo'[t] \in {todo[t], {}}
  BY DEF TypeOK
<1>9. /\ Resume(ord[t]) \in {"manage", "sweep", "enter"} /\ Finished(t) \in {"idle", "over"}
      /\ Resume(ord[t]) = "sweep" <=> ord[t].why = "sweep"
  BY <1>2 DEF Resume, Finished
<1>10. QED
  BY <1>1, <1>2, <1>3, <1>4, <1>5, <1>6, <1>7, <1>8, <1>9

LEMMA RolesStep == TypeOK /\ Roles /\ Next => Roles'
<1> SUFFICES ASSUME TypeOK, Roles, Next PROVE Roles'
  OBVIOUS
<1> USE DEF Threads, local, history, Goto, Ordering, Entering
<1>1. ASSUME NEW t \in Threads, Guard(t) \/ ReadBook(t) \/ Mark(t) PROVE Roles'
  BY <1>1 DEF Guard, ReadBook, Mark, Finished, TypeOK, Roles
<1>2. ASSUME NEW t \in Threads, ListSweep(t) \/ JournalSweep(t) PROVE Roles'
  BY <1>2 DEF ListSweep, JournalSweep, Finished, TypeOK, Roles
<1>3. ASSUME NEW t \in Threads, Sweep(t) PROVE Roles'
  BY <1>3 DEF Sweep, Opposite, TypeOK, Roles
<1>4. ASSUME NEW t \in Threads, PlaceOrder(t) PROVE Roles'
  <2>1. pc'["cron"] # "idle" => late'
    BY <1>4, OrderFacts DEF Roles
  <2>2. late' => pc'["tick"] # "enter" /\ \A s \in Symbols : ~Entering(s)'
    BY <1>4, OrderFacts DEF Roles, Resume
  <2>3. \A u \in Threads : u # "tick" => pc'[u] \notin {"manage", "kill", "enter"}
    BY <1>4, OrderFacts DEF Roles
  <2>4. \A u \in Threads : Ordering(u)' => ord'[u].why # "none"
    BY <1>4, OrderFacts DEF Roles
  <2>5. \A u \in Threads : Ordering(u)' /\ u # "tick" => ord'[u].why = "sweep"
    BY <1>4, OrderFacts DEF Roles
  <2>6. QED
    BY <2>1, <2>2, <2>3, <2>4, <2>5 DEF Roles
<1>6. CASE TickManages \/ KillCheck \/ TickSquaresOff \/ CronFires \/ SignalArrives
  BY <1>6 DEF TickManages, KillCheck, TickSquaresOff, CronFires, SignalArrives, TypeOK, Roles
<1>7. CASE Manage
  BY <1>7 DEF Manage, Opposite, TypeOK, Roles
<1>8. CASE TickEnters
  BY <1>8 DEF TickEnters, TypeOK, Roles
<1>9. CASE ClockPassesSquareOff
  BY <1>9 DEF ClockPassesSquareOff, TypeOK, Roles
<1>10. QED
  BY <1>1, <1>2, <1>3, <1>4, <1>6, <1>7, <1>8, <1>9 DEF Next, Runs, EndOfDay

LEMMA OneListingStep == TypeOK /\ Roles /\ OneListing /\ Next => OneListing'
<1> SUFFICES ASSUME TypeOK, Roles, OneListing, Next PROVE OneListing'
  OBVIOUS
<1> USE DEF Threads, local, history, Goto, Ordering, Sweeping
<1>1. ASSUME NEW t \in Threads, Guard(t) \/ ReadBook(t) \/ Mark(t) \/ JournalSweep(t)
      PROVE  OneListing'
  BY <1>1 DEF Guard, ReadBook, Mark, JournalSweep, Finished, TypeOK, OneListing
<1>2. ASSUME NEW t \in Threads, ListSweep(t) PROVE OneListing'
  BY <1>2 DEF ListSweep, Listed, TypeOK, OneListing
<1>3. ASSUME NEW t \in Threads, Sweep(t) PROVE OneListing'
  BY <1>3 DEF Sweep, Opposite, TypeOK, OneListing
<1>4. ASSUME NEW t \in Threads, PlaceOrder(t) PROVE OneListing'
  BY <1>4, OrderFacts DEF OneListing
<1>6. CASE TickManages \/ KillCheck \/ TickSquaresOff \/ CronFires \/ SignalArrives
  BY <1>6 DEF TickManages, KillCheck, TickSquaresOff, CronFires, SignalArrives,
              TypeOK, OneListing
<1>7. CASE Manage
  BY <1>7 DEF Manage, Opposite, TypeOK, OneListing
<1>8. CASE TickEnters
  BY <1>8 DEF TickEnters, TypeOK, OneListing
<1>9. CASE ClockPassesSquareOff
  BY <1>9 DEF ClockPassesSquareOff, OneListing
<1>10. QED
  BY <1>1, <1>2, <1>3, <1>4, <1>6, <1>7, <1>8, <1>9 DEF Next, Runs, EndOfDay

\* An order touches the book at its own symbol.
LEMMA OrderTouches ==
    ASSUME TypeOK, NEW t \in Threads, PlaceOrder(t)
    PROVE  /\ managed \subseteq managed'
           /\ \A s \in Symbols : pos'[s] # pos[s] => s = ord[t].sym /\ pc[t] = "settle"
           /\ pc[t] = "settle" /\ ord[t].why = "exit" => ord[t].sym \in managed'
<1>1. CASE Lookup(t)
  BY <1>1 DEF Lookup, history
<1>2. CASE Settle(t)
  <2>1. pos' = [pos EXCEPT ![ord[t].sym] = Settled(ord[t], seen[t])]
    BY <1>2 DEF Settle
  <2>2. managed' = IF ord[t].why = "exit" THEN managed \cup {ord[t].sym} ELSE managed
    BY <1>2 DEF Settle
  <2>3. pc[t] = "settle"
    BY <1>2 DEF Settle
  <2>4. QED
    BY <2>1, <2>2, <2>3 DEF TypeOK
<1>3. QED
  BY <1>1, <1>2 DEF PlaceOrder

\* Only a listing makes a symbol pending.
LEMMA OrderPending ==
    ASSUME TypeOK, Roles, OneListing, NEW t \in Threads, PlaceOrder(t),
           NEW u \in Threads, NEW s \in Symbols, Pending(u, s)'
    PROVE  /\ Pending(u, s)
           /\ u = t /\ pc[t] = "settle" => s # ord[t].sym
<1> USE DEF Pending, Sweeping, Ordering
<1>1. CASE u # t
  BY <1>1, OrderFacts
<1>2. CASE u = t
  <2>1. CASE pc[t] = "order" /\ pc'[t] = "settle" /\ ord'[t] = ord[t]
    BY <1>2, <2>1, OrderFacts
  <2>2. CASE pc'[t] \in {Resume(ord[t]), Finished(t)}
    <3>1. pc'[t] = "sweep" /\ ord[t].why = "sweep"
      BY <1>2, <2>2, OrderFacts
    <3>2. PICK p \in todo'[t] : p.sym = s
      BY <1>2, <3>1
    <3>3. p \in todo[t]
      BY <3>2, OrderFacts
    <3>4. \A q \in todo[t] : q.sym # ord[t].sym
      BY <3>1, OrderFacts DEF OneListing
    <3>5. QED
      BY <1>2, <3>1, <3>2, <3>3, <3>4, OrderFacts
  <2>3. QED
    BY <2>1, <2>2, OrderFacts
<1>3. QED
  BY <1>1, <1>2

LEMMA HeldTillSweptStep ==
    TypeOK /\ Roles /\ OneListing /\ HeldTillSwept /\ NoRival /\ Next => HeldTillSwept'
<1> SUFFICES ASSUME TypeOK, Roles, OneListing, HeldTillSwept, NoRival, Next,
                    (InPass /\ ~late)',
                    NEW s \in Symbols, s \notin managed', Pending("stop", s)'
             PROVE  Open(s)'
  BY DEF HeldTillSwept, TypeOK
<1> USE DEF Threads, local, history, Goto, Ordering, Sweeping, Pending, InPass, Open
<1>1. ASSUME NEW t \in Threads, Guard(t) \/ ReadBook(t) \/ Mark(t) \/ JournalSweep(t)
      PROVE  Open(s)'
  BY <1>1 DEF Guard, ReadBook, Mark, JournalSweep, Finished, TypeOK, HeldTillSwept
<1>2. ASSUME NEW t \in Threads, ListSweep(t) PROVE Open(s)'
  BY <1>2 DEF ListSweep, Listed, Held, TypeOK, HeldTillSwept
<1>3. ASSUME NEW t \in Threads, Sweep(t) PROVE Open(s)'
  BY <1>3 DEF Sweep, Opposite, TypeOK, HeldTillSwept
<1>4. ASSUME NEW t \in Threads, PlaceOrder(t) PROVE Open(s)'
  <2>1. t # "cron"
    BY <1>4, OrderFacts DEF Roles
  <2>2. s \notin managed /\ Pending("stop", s) /\ ~late
    BY <1>4, OrderTouches, OrderFacts, OrderPending
  <2>3. InPass
    BY <1>4, <2>1, OrderFacts
  <2>4. Open(s)
    BY <2>2, <2>3 DEF HeldTillSwept
  <2>5. pos'[s] = pos[s]
    <3>1. SUFFICES ASSUME pc[t] = "settle", s = ord[t].sym PROVE FALSE
      BY <1>4, OrderTouches
    <3>2. t = "tick"
      BY <1>4, <2>1, <3>1, OrderPending
    <3>3. ord[t].why = "entry"
      BY <1>4, <3>1, <3>2, <2>3, OrderFacts, OrderTouches
    <3>4. QED
      BY <2>2, <2>4, <3>1, <3>2, <3>3 DEF NoRival, Entering
  <2>6. QED
    BY <2>4, <2>5
<1>6. CASE TickManages \/ KillCheck \/ TickSquaresOff \/ CronFires \/ SignalArrives
  BY <1>6 DEF TickManages, KillCheck, TickSquaresOff, CronFires, SignalArrives, Signalled,
              TypeOK, HeldTillSwept
<1>7. CASE Manage
  BY <1>7 DEF Manage, Opposite, TypeOK, HeldTillSwept
<1>8. CASE TickEnters
  BY <1>8 DEF TickEnters, TypeOK, HeldTillSwept
<1>9. CASE ClockPassesSquareOff
  BY <1>9 DEF ClockPassesSquareOff
<1>10. QED
  BY <1>1, <1>2, <1>3, <1>4, <1>6, <1>7, <1>8, <1>9 DEF Next, Runs, EndOfDay

LEMMA NoRivalStep ==
    TypeOK /\ Roles /\ OneListing /\ HeldTillSwept /\ NoRival /\ Next => NoRival'
<1> SUFFICES ASSUME TypeOK, Roles, OneListing, HeldTillSwept, NoRival, Next,
                    NEW s \in Symbols, s \notin managed', Entering(s)'
             PROVE  ~Open(s)' /\ ~Pending("stop", s)'
  BY DEF NoRival, TypeOK
<1> USE DEF Threads, local, history, Goto, Ordering, Sweeping, Pending, Entering, Open
<1>1. ASSUME NEW t \in Threads, Guard(t) \/ ReadBook(t) \/ Mark(t) \/ JournalSweep(t)
      PROVE  ~Open(s)' /\ ~Pending("stop", s)'
  BY <1>1 DEF Guard, ReadBook, Mark, JournalSweep, Finished, TypeOK, NoRival
<1>2. ASSUME NEW t \in Threads, ListSweep(t) PROVE ~Open(s)' /\ ~Pending("stop", s)'
  BY <1>2 DEF ListSweep, Listed, Held, TypeOK, NoRival
<1>3. ASSUME NEW t \in Threads, Sweep(t) PROVE ~Open(s)' /\ ~Pending("stop", s)'
  BY <1>3 DEF Sweep, Opposite, TypeOK, NoRival
<1>4. ASSUME NEW t \in Threads, PlaceOrder(t) PROVE ~Open(s)' /\ ~Pending("stop", s)'
  <2>1. s \notin managed
    BY <1>4, OrderTouches
  <2>2. Entering(s)
    BY <1>4, OrderFacts
  <2>3. ~Open(s) /\ ~Pending("stop", s)
    BY <2>1, <2>2 DEF NoRival
  <2>4. ~Pending("stop", s)'
    BY <1>4, <2>3, OrderPending
  <2>5. pos'[s] = pos[s]
    <3>1. SUFFICES ASSUME pc[t] = "settle", s = ord[t].sym PROVE FALSE
      BY <1>4, OrderTouches
    <3>2. t # "cron"
      BY <1>4, <2>2, OrderFacts DEF Roles
    <3>3. t # "stop"
      BY <1>4, <2>3, <3>1, OrderFacts
    <3>4. QED
      BY <1>4, <3>1, <3>2, <3>3, OrderFacts
  <2>6. QED
    BY <2>3, <2>4, <2>5
<1>6. CASE TickManages \/ KillCheck \/ TickSquaresOff \/ CronFires \/ SignalArrives
  BY <1>6 DEF TickManages, KillCheck, TickSquaresOff, CronFires, SignalArrives,
              TypeOK, NoRival
<1>7. CASE Manage
  BY <1>7 DEF Manage, Opposite, TypeOK, NoRival
<1>8. CASE TickEnters
  BY <1>8 DEF TickEnters, TypeOK, Roles, NoRival, HeldTillSwept, InPass, Held
<1>9. CASE ClockPassesSquareOff
  BY <1>9 DEF ClockPassesSquareOff, NoRival
<1>10. QED
  BY <1>1, <1>2, <1>3, <1>4, <1>6, <1>7, <1>8, <1>9 DEF Next, Runs, EndOfDay

LEMMA LimitedSettles ==
    ASSUME TypeOK, Roles, NEW t \in Threads, Settle(t), NEW s \in Symbols \ managed',
           s = ord[t].sym, Limited(s), LimitedShape(s)
    PROVE  pos'[s] \in {Flat, Entered(s)}
<1> DEFINE o == ord[t]
           was == seen[t]
<1>1. pos'[s] = Settled(o, was)
  BY DEF Settle, TypeOK
<1>2. pc[t] = "settle" /\ o.why \in {"sweep", "entry"}
  BY OrderFacts, OrderTouches DEF PlaceOrder, Settle
<1>3. Way(s) \in {1, -1}
  BY DEF Way
<1>4. CASE o.why = "entry"
  <2>1. was.qty = 0 /\ o.n = 1 /\ o.kind = kind[s] /\ o.dir = Way(s)
    BY <1>2, <1>4 DEF LimitedShape, EntryOrder, Ordering, Limited, Sides, Way, Flat
  <2>2. was.qty + o.dir * o.n = Way(s) /\ Treated(o, was) = kind[s]
    BY <1>3, <2>1 DEF Treated
  <2>3. QED
    BY <1>1, <1>4, <2>1, <2>2 DEF Settled, Entered
<1>5. CASE o.why = "sweep"
  <2>1. was = Entered(s) /\ o.n = 1 /\ o.dir = -Way(s)
    BY <1>2, <1>5 DEF LimitedShape, Ordering
  <2>2. was.qty = Way(s) /\ was.qty + o.dir * o.n = 0
    BY <1>3, <2>1 DEF Entered
  <2>3. QED
    BY <1>1, <1>3, <2>2 DEF Settled
<1>6. QED
  BY <1>2, <1>4, <1>5

LEMMA LimitedShapeStep ==
    ASSUME TypeOK, Roles, NoRival, Next,
           NEW s \in Symbols \ managed', Limited(s), LimitedShape(s)
    PROVE  LimitedShape(s)'
<1> USE DEF Threads, local, history, Goto, Ordering, Sweeping
<1>1. ASSUME NEW t \in Threads, Guard(t) \/ ReadBook(t) \/ Mark(t) \/ JournalSweep(t)
      PROVE  LimitedShape(s)'
  BY <1>1 DEF Guard, ReadBook, Mark, JournalSweep, Finished, TypeOK, LimitedShape, EntryOrder,
              Entered, Way
<1>2. ASSUME NEW t \in Threads, ListSweep(t) PROVE LimitedShape(s)'
  <2>1. \A p \in Listed : p.sym = s => p.at = Entered(s)
    BY DEF Listed, Held, Open, LimitedShape, Flat
  <2>2. QED
    BY <1>2, <2>1 DEF ListSweep, TypeOK, LimitedShape, EntryOrder, Entered, Way
<1>3. ASSUME NEW t \in Threads, Sweep(t) PROVE LimitedShape(s)'
  <2>1. ASSUME NEW p \in todo[t], p.sym = s, pc[t] = "sweep"
        PROVE  Opposite(p, p.at.kind, "sweep") =
                 [sym |-> s, dir |-> -Way(s), n |-> 1, kind |-> kind[s], why |-> "sweep"]
    <3>1. p.at = Entered(s)
      BY <2>1 DEF LimitedShape
    <3>2. QED
      BY <2>1, <3>1 DEF Opposite, Entered, Way
  <2>2. QED
    BY <1>3, <2>1 DEF Sweep, Opposite, TypeOK, LimitedShape, EntryOrder, Entered, Way
<1>4. ASSUME NEW t \in Threads, Lookup(t) PROVE LimitedShape(s)'
  <2>1. CASE ord[t].sym # s \/ pc'[t] # "settle"
    BY <1>4, <2>1, OrderFacts
       DEF PlaceOrder, Lookup, TypeOK, LimitedShape, EntryOrder, Entered, Way
  <2>2. CASE ord[t].sym = s /\ pc'[t] = "settle"
    <3>1. seen'[t] = pos[s] /\ ~Rejected(ord[t], pos[s]) /\ ord' = ord
      BY <1>4, <2>2, OrderFacts DEF PlaceOrder, Lookup, TypeOK
    <3>2. ord[t].why = "entry" => pos[s] = Flat
      BY <1>4, <2>2, OrderFacts, OrderTouches
         DEF PlaceOrder, Lookup, NoRival, Entering, Open, LimitedShape, Entered, Way
    <3>3. ord[t].why = "sweep" => pos[s] = Entered(s)
      BY <1>4, <2>2, <3>1
         DEF Lookup, LimitedShape, Rejected, Treated, Flat, Limited, Way
    <3>4. QED
      BY <1>4, <2>2, <3>1, <3>2, <3>3, OrderFacts
         DEF PlaceOrder, Lookup, TypeOK, LimitedShape, EntryOrder, Entered, Way
  <2>3. QED
    BY <2>1, <2>2
<1>5. ASSUME NEW t \in Threads, Settle(t) PROVE LimitedShape(s)'
  <2>1. pos'[s] \in {Flat, Entered(s)}
    BY <1>5, LimitedSettles, OrderTouches DEF PlaceOrder, LimitedShape
  <2>2. pc'[t] \notin {"order", "settle"}
    BY <1>5, OrderFacts DEF PlaceOrder, Settle
  <2>3. QED
    BY <1>5, <2>1, <2>2, OrderFacts
       DEF PlaceOrder, LimitedShape, EntryOrder, Entered, Way
<1>6. CASE TickManages \/ KillCheck \/ TickSquaresOff \/ CronFires \/ SignalArrives
  BY <1>6 DEF TickManages, KillCheck, TickSquaresOff, CronFires, SignalArrives,
              TypeOK, LimitedShape, EntryOrder, Entered, Way
<1>7. CASE Manage
  BY <1>7 DEF Manage, Opposite, TypeOK, LimitedShape, EntryOrder, Entered, Way
<1>8. CASE TickEnters
  BY <1>8 DEF TickEnters, TypeOK, LimitedShape, EntryOrder, Entered, Way
<1>9. CASE ClockPassesSquareOff
  BY <1>9 DEF ClockPassesSquareOff, LimitedShape, EntryOrder, Entered, Way
<1>10. QED
  BY <1>1, <1>2, <1>3, <1>4, <1>5, <1>6, <1>7, <1>8, <1>9
     DEF Next, Runs, EndOfDay, PlaceOrder

LEMMA SharesSettle ==
    ASSUME TypeOK, Roles, NEW t \in Threads, Settle(t), NEW s \in Symbols \ managed',
           s = ord[t].sym, kind[s] = "equity", ShareShape(s)
    PROVE  /\ Shares(pos'[s])
           /\ pos'[s].qty >= 0 \/ pos'[s] = pos[s] \/ ord[t].why = "entry"
<1> DEFINE o == ord[t]
           was == seen[t]
<1>1. pos'[s] = Settled(o, was)
  BY DEF Settle, TypeOK
<1>2. pc[t] = "settle" /\ o.why \in {"sweep", "entry"}
  BY OrderFacts, OrderTouches DEF PlaceOrder, Settle
<1>3. /\ o.dir \in {1, -1} /\ o.n \in Nat /\ was.qty \in Int /\ pos[s] \in Positions
      /\ was \in Positions
  BY DEF TypeOK, Orders, Positions
<1>4. Shares(was) /\ was.kind = "equity" /\ Shares(pos[s])
  BY <1>2 DEF ShareShape, Shares, Ordering
<1>5. CASE o.why = "entry"
  <2>1. was.qty = 0 /\ o.n = 1 /\ o.kind = "equity"
    BY <1>2, <1>5 DEF ShareShape, EntryOrder, Ordering
  <2>2. was.qty + o.dir * o.n \in {1, -1} /\ Treated(o, was) = "equity"
    BY <1>3, <2>1 DEF Treated
  <2>3. QED
    BY <1>1, <1>5, <2>1, <2>2 DEF Settled, Shares
<1>6. CASE o.why = "sweep"
  <2>1. o.kind = "equity" /\ o.n # 0 /\ (o.dir = 1 => o.n = 1)
        /\ (o.dir = -1 => was.qty >= o.n)
    BY <1>2, <1>6 DEF ShareShape, Ordering
  <2>2. was.qty >= -1
    BY <1>3, <1>4 DEF Shares
  <2> DEFINE new == was.qty + o.dir * o.n
  <2>3. new \in Int /\ new >= 0 /\ Treated(o, was) = "equity"
    BY <1>3, <1>4, <2>1, <2>2 DEF Treated
  <2>4. ~(was.qty * new < 0)
    <3>1. CASE o.dir = 1
      <4>1. was.qty >= 0 \/ new = 0
        BY <1>3, <2>1, <2>2, <3>1
      <4>2. QED
        BY <1>3, <2>3, <4>1
    <3>2. CASE o.dir = -1
      <4>1. was.qty >= 0
        BY <1>3, <2>1, <3>2
      <4>2. QED
        BY <1>3, <2>3, <4>1
    <3>3. QED
      BY <1>3, <3>1, <3>2
  <2> HIDE DEF new
  <2>5. pos'[s] \in {[qty |-> new, kind |-> "equity", by |-> "close"], Flat, pos[s]}
    BY <1>1, <1>4, <1>6, <2>3, <2>4 DEF Settled, new
  <2>6. QED
    BY <1>3, <1>4, <2>3, <2>5 DEF Shares, Flat, Positions
<1>7. QED
  BY <1>2, <1>5, <1>6

LEMMA ShareShapeStep ==
    ASSUME TypeOK, Roles, OneListing, NoRival, Next,
           NEW s \in Symbols \ managed', kind[s] = "equity", ShareShape(s)
    PROVE  ShareShape(s)'
<1> USE DEF Threads, local, history, Goto, Ordering, Sweeping
<1>1. ASSUME NEW t \in Threads, Guard(t) \/ ReadBook(t) \/ Mark(t) \/ JournalSweep(t)
      PROVE  ShareShape(s)'
  BY <1>1 DEF Guard, ReadBook, Mark, JournalSweep, Finished, TypeOK, ShareShape, EntryOrder
<1>2. ASSUME NEW t \in Threads, ListSweep(t) PROVE ShareShape(s)'
  <2>1. \A p \in Listed : p.sym = s => p.at = pos[s] /\ p.at.qty # 0
    BY DEF Listed, Held, Open
  <2>2. pos[s].qty \in Int
    BY DEF TypeOK, Positions
  <2>3. QED
    BY <1>2, <2>1, <2>2 DEF ListSweep, TypeOK, ShareShape, EntryOrder
<1>3. ASSUME NEW t \in Threads, Sweep(t) PROVE ShareShape(s)'
  <2>1. ASSUME NEW p \in todo[t], p.sym = s, pc[t] = "sweep",
               NEW o, o = Opposite(p, p.at.kind, "sweep")
        PROVE  /\ o.sym = s /\ o.why = "sweep" /\ o.kind = "equity" /\ o.n # 0
               /\ o.dir = 1 => o.n = 1
               /\ o.dir = -1 => pos[s].qty >= 0
    <3>1. Shares(p.at) /\ p.at.qty # 0 /\ (p.at.qty > 0 => pos[s].qty >= 0)
      BY <2>1 DEF ShareShape
    <3>2. p.at.qty \in Int
      BY DEF TypeOK, Listings, Positions
    <3>3. QED
      BY <2>1, <3>1, <3>2 DEF Opposite, Shares
  <2>2. CASE todo[t] = {}
    BY <1>3, <2>2 DEF Sweep, TypeOK, ShareShape, EntryOrder
  <2>3. CASE todo[t] # {}
    <3>1. PICK p \in todo[t] :
             /\ todo' = [todo EXCEPT ![t] = @ \ {p}]
             /\ ord' = [ord EXCEPT ![t] = Opposite(p, p.at.kind, "sweep")]
             /\ Goto(t, "order")
      BY <1>3, <2>3 DEF Sweep
    <3>2. pc[t] = "sweep" /\ UNCHANGED <<kind, pos, seen, managed>>
      BY <1>3 DEF Sweep
    <3>3. Opposite(p, p.at.kind, "sweep").sym = p.sym
      BY DEF Opposite
    <3>4. Opposite(p, p.at.kind, "sweep").why = "sweep"
      BY DEF Opposite
    <3>5. QED
      BY <2>1, <3>1, <3>2, <3>3, <3>4 DEF TypeOK, ShareShape, EntryOrder
  <2>4. QED
    BY <2>2, <2>3
<1>4. ASSUME NEW t \in Threads, Lookup(t) PROVE ShareShape(s)'
  <2>1. CASE ord[t].sym # s \/ pc'[t] # "settle"
    BY <1>4, <2>1, OrderFacts DEF PlaceOrder, Lookup, TypeOK, ShareShape, EntryOrder
  <2>2. CASE ord[t].sym = s /\ pc'[t] = "settle"
    <3>1. seen'[t] = pos[s] /\ ~Rejected(ord[t], pos[s]) /\ ord' = ord
      BY <1>4, <2>2, OrderFacts DEF PlaceOrder, Lookup, TypeOK
    <3>2. ord[t].why = "entry" => pos[s].qty = 0
      BY <1>4, <2>2, OrderFacts, OrderTouches DEF PlaceOrder, Lookup, NoRival, Entering, Open
    <3>3. ord[t].why = "sweep" /\ ord[t].dir = -1 => pos[s].qty >= ord[t].n
      <4>1. SUFFICES ASSUME ord[t].why = "sweep", ord[t].dir = -1
                     PROVE  pos[s].qty >= ord[t].n
        OBVIOUS
      <4>2. pos[s].qty >= 0 /\ ord[t].kind = "equity" /\ pos[s].kind = "equity"
        BY <1>4, <2>2, <4>1 DEF Lookup, ShareShape, Shares
      <4>3. pos[s].qty \in Int /\ ord[t].n \in Nat
        BY DEF TypeOK, Positions, Orders
      <4>4. QED
        BY <3>1, <4>1, <4>2, <4>3 DEF Rejected, Treated
    <3>4. QED
      BY <1>4, <2>2, <3>1, <3>2, <3>3, OrderFacts
         DEF PlaceOrder, Lookup, TypeOK, ShareShape, EntryOrder
  <2>3. QED
    BY <2>1, <2>2
<1>5. ASSUME NEW t \in Threads, Settle(t) PROVE ShareShape(s)'
  <2>1. pc'[t] \notin {"order", "settle"}
    BY <1>5, OrderFacts DEF PlaceOrder, Settle
  <2>2. CASE pos'[s] = pos[s]
    BY <1>5, <2>1, <2>2, OrderFacts DEF PlaceOrder, ShareShape, EntryOrder
  <2>3. CASE pos'[s] # pos[s]
    <3>1. s = ord[t].sym
      BY <1>5, <2>3, OrderTouches DEF PlaceOrder
    <3>2. Shares(pos'[s]) /\ (pos'[s].qty >= 0 \/ ord[t].why = "entry")
      BY <1>5, <2>3, <3>1, SharesSettle
    <3>3. CASE pos'[s].qty >= 0
      BY <1>5, <2>1, <3>2, <3>3, OrderFacts DEF PlaceOrder, ShareShape, EntryOrder
    <3>4. CASE ord[t].why = "entry"
      <4>1. t = "tick" /\ ~late /\ Entering(s)
        BY <1>5, <3>1, <3>4, OrderFacts DEF PlaceOrder, Entering, Settle
      <4>2. pc["cron"] = "idle" /\ ~Pending("stop", s)
        BY <1>5, <4>1, OrderTouches DEF PlaceOrder, Roles, NoRival
      <4>3. pc'["tick"] = "enter" \/ pc'["tick"] = "idle"
        BY <1>5, <3>4, <4>1, OrderFacts DEF PlaceOrder, Resume, Settle, Finished
      <4>4. \A u \in Threads : Sweeping(u)' => ~ \E p \in todo'[u] : p.sym = s
        BY <1>5, <4>1, <4>2, <4>3, OrderFacts DEF PlaceOrder, Pending
      <4>5. \A u \in Threads : Ordering(u)' => u = "stop" /\ ord'[u].sym # s
        BY <1>5, <4>1, <4>2, <4>3, OrderFacts DEF PlaceOrder, Pending, Roles
      <4>6. QED
        BY <3>2, <4>4, <4>5 DEF ShareShape
    <3>5. QED
      BY <3>2, <3>3, <3>4
  <2>4. QED
    BY <2>2, <2>3
<1>6. CASE TickManages \/ KillCheck \/ TickSquaresOff \/ CronFires \/ SignalArrives
  BY <1>6 DEF TickManages, KillCheck, TickSquaresOff, CronFires, SignalArrives,
              TypeOK, ShareShape, EntryOrder
<1>7. CASE Manage
  BY <1>7 DEF Manage, Opposite, TypeOK, ShareShape, EntryOrder
<1>8. CASE TickEnters
  BY <1>8 DEF TickEnters, TypeOK, ShareShape, EntryOrder
<1>9. CASE ClockPassesSquareOff
  BY <1>9 DEF ClockPassesSquareOff, ShareShape, EntryOrder
<1>10. QED
  BY <1>1, <1>2, <1>3, <1>4, <1>5, <1>6, <1>7, <1>8, <1>9
     DEF Next, Runs, EndOfDay, PlaceOrder

LEMMA ShapesStep == TypeOK /\ Roles /\ OneListing /\ NoRival /\ Shapes /\ Next => Shapes'
<1> SUFFICES ASSUME TypeOK, Roles, OneListing, NoRival, Shapes, Next
             PROVE  Shapes'
  OBVIOUS
<1>1. kind' = kind /\ managed \subseteq managed'
  BY DEF Next, Runs, EndOfDay, PlaceOrder, Guard, ReadBook, ListSweep, Sweep, JournalSweep,
         Mark, Lookup, Settle, TickManages, Manage, KillCheck, TickEnters, TickSquaresOff,
         CronFires, SignalArrives, ClockPassesSquareOff, history
<1>2. ASSUME NEW s \in Symbols \ managed', Limited(s)' PROVE LimitedShape(s)'
  BY <1>1, <1>2, LimitedShapeStep DEF Shapes, Limited
<1>3. ASSUME NEW s \in Symbols \ managed', kind'[s] = "equity" PROVE ShareShape(s)'
  BY <1>1, <1>3, ShareShapeStep DEF Shapes
<1>4. QED
  BY <1>2, <1>3 DEF Shapes

LEMMA CreditedStep ==
    TypeOK /\ Roles /\ OneListing /\ NoRival /\ Shapes /\ Credited /\ Next => Credited'
<1> SUFFICES ASSUME TypeOK, Roles, OneListing, NoRival, Shapes, Credited, Next,
                    NEW s \in Symbols, s \notin managed', Limited(s)'
             PROVE  exits'[s] + Told("tick", s)' + Told("cron", s)' + Told("stop", s)'
                      <= credits'[s]
  BY DEF Credited, TypeOK
<1> DEFINE Sum == exits[s] + Told("tick", s) + Told("cron", s) + Told("stop", s)
<1>1. exits[s] \in Nat /\ credits[s] \in Nat /\ \A t \in Threads : Told(t, s) \in {0, 1}
  BY DEF TypeOK, Told
<1>2. ASSUME kind' = kind, managed' = managed, exits' = exits, credits' = credits,
             filled' = filled
      PROVE  Sum' <= credits'[s]
  BY <1>2 DEF Credited, Told, Limited
<1>3. ASSUME NEW t \in Threads, JournalSweep(t) PROVE Sum' <= credits'[s]
  <2>1. Sum <= credits[s]
    BY <1>3 DEF JournalSweep, Credited, Limited
  <2>2. exits'[s] = exits[s] + Told(t, s) /\ credits' = credits
    BY <1>1, <1>3 DEF JournalSweep, Told, TypeOK
  <2>3. Told(t, s)' = 0 /\ \A u \in Threads : u # t => Told(u, s)' = Told(u, s)
    BY <1>3 DEF JournalSweep, Told, TypeOK
  <2>4. QED
    BY <1>1, <2>1, <2>2, <2>3 DEF Threads
<1>4. ASSUME NEW t \in Threads, Settle(t) PROVE Sum' <= credits'[s]
  <2>1. Sum <= credits[s] /\ Limited(s) /\ LimitedShape(s)
    BY <1>4, OrderTouches DEF PlaceOrder, Settle, Credited, Limited, Shapes
  <2>2. \A u \in Threads : u # t => Told(u, s)' = Told(u, s)
    BY <1>4 DEF Settle, Told, TypeOK
  <2>3. CASE s # ord[t].sym
    <3>1. exits'[s] = exits[s] /\ credits'[s] = credits[s]
      BY <1>4, <2>3 DEF Settle, TypeOK
    <3>2. Told(t, s)' <= Told(t, s)
      BY <1>4, <2>3 DEF Settle, Told, TypeOK
    <3>3. Told(t, s)' \in {0, 1}
      BY DEF Told
    <3>4. QED
      BY <1>1, <2>1, <2>2, <3>1, <3>2, <3>3 DEF Threads
  <2>4. CASE s = ord[t].sym
    <3>1. pc[t] = "settle" /\ ord[t].why \in {"sweep", "entry"}
      BY <1>4, <2>4, OrderFacts, OrderTouches DEF PlaceOrder, Settle
    <3>2. exits'[s] = exits[s]
      BY <1>4, <2>4, <3>1 DEF Settle, TypeOK
    <3>3. CASE ord[t].why = "entry"
      <4>1. credits'[s] >= credits[s] /\ credits'[s] \in Nat
        BY <1>1, <1>4, <2>4 DEF Settle, TypeOK
      <4>2. Told(t, s)' <= Told(t, s) /\ Told(t, s)' \in {0, 1}
        BY <1>4, <3>3 DEF Settle, Told, TypeOK
      <4>3. QED
        BY <1>1, <2>1, <2>2, <3>2, <4>1, <4>2 DEF Threads
    <3>4. CASE ord[t].why = "sweep"
      <4>1. seen[t] = Entered(s) /\ ord[t].n = 1 /\ ord[t].dir = -Way(s)
        BY <2>1, <2>4, <3>1, <3>4 DEF LimitedShape, Ordering
      <4>2. Closes(ord[t], seen[t])
        BY <4>1 DEF Closes, Entered, Way
      <4>3. credits'[s] = credits[s] + 1
        BY <1>4, <2>4, <4>2 DEF Settle, TypeOK
      <4>4. Told(t, s)' \in {0, 1}
        BY DEF Told
      <4>5. QED
        BY <1>1, <2>1, <2>2, <3>2, <4>3, <4>4 DEF Threads
    <3>5. QED
      BY <3>1, <3>3, <3>4
  <2>5. QED
    BY <2>3, <2>4
<1>5. CASE \/ \E t \in Threads : Guard(t) \/ ReadBook(t) \/ ListSweep(t) \/ Sweep(t) \/ Mark(t)
                                 \/ Lookup(t)
           \/ TickManages \/ Manage \/ KillCheck \/ TickEnters \/ TickSquaresOff
           \/ CronFires \/ SignalArrives \/ ClockPassesSquareOff
  <2>1. kind' = kind /\ managed' = managed /\ exits' = exits /\ credits' = credits
        /\ filled' = filled
    BY <1>5 DEF Guard, ReadBook, ListSweep, Sweep, Mark, Lookup, TickManages, Manage,
                KillCheck, TickEnters, TickSquaresOff, CronFires, SignalArrives,
                ClockPassesSquareOff, history, local
  <2>2. QED
    BY <1>2, <2>1
<1>6. QED
  BY <1>3, <1>4, <1>5 DEF Next, Runs, EndOfDay, PlaceOrder

LEMMA InvStep == IInv /\ [Next]_vars => IInv'
<1> SUFFICES ASSUME IInv, [Next]_vars PROVE IInv'
  OBVIOUS
<1>1. CASE Next
  BY <1>1, TypeStep, RolesStep, OneListingStep, HeldTillSweptStep, NoRivalStep, ShapesStep,
     CreditedStep DEF IInv
<1>2. CASE UNCHANGED vars
  BY <1>2 DEF vars, IInv, TypeOK, Roles, OneListing, HeldTillSwept, NoRival, Shapes, Credited,
              Ordering, Sweeping, Pending, InPass, Entering, Open, Limited, Way, Entered,
              EntryOrder, LimitedShape, ShareShape, Told
<1>3. QED
  BY <1>1, <1>2

THEOREM Invariance == Spec => []IInv
BY InvInit, InvStep, PTL DEF Spec

-------------------------------------------------------------------------------
\* Of all the races between the tick, the cron and the SIGTERM handler none
\* lets a square-off open an option, a spread or a short share
\* (PaperBroker's over-sell guard, broker/paper.py).
THEOREM NoPhantoms == Spec => []SweepsOpenNothing
<1>1. IInv => SweepsOpenNothing
  <2>1. SUFFICES ASSUME IInv, NEW s \in Symbols \ managed, Phantom(s)
                 PROVE  ~Guarded(s)
    BY DEF SweepsOpenNothing
  <2>2. CASE Limited(s)
    <3>1. pos[s] \in {Flat, Entered(s)}
      BY <2>1, <2>2 DEF IInv, Shapes, LimitedShape
    <3>2. QED
      BY <2>1, <3>1 DEF Phantom, Open, Flat, Entered
  <2>3. CASE kind[s] = "equity"
    <3>1. Shares(pos[s])
      BY <2>1, <2>3 DEF IInv, Shapes, ShareShape
    <3>2. QED
      BY <2>1, <2>3, <3>1 DEF Phantom, Guarded, Shares
  <2>4. QED
    BY <2>2, <2>3 DEF Limited, Guarded
<1>2. QED
  BY <1>1, Invariance, PTL

\* Whatever sweeps race, and raise, the journal has no exit row of an option
\* or a spread without a close that the broker credited.
THEOREM RowsAreCredited == Spec => []ExitsWereCredited
<1>1. IInv => ExitsWereCredited
  <2>1. SUFFICES ASSUME IInv, NEW s \in Symbols, Limited(s), s \notin managed
                 PROVE  exits[s] <= credits[s]
    BY DEF ExitsWereCredited, Limited
  <2>2. exits[s] \in Nat /\ credits[s] \in Nat /\ \A t \in Threads : Told(t, s) \in {0, 1}
    BY <2>1 DEF IInv, TypeOK, Told
  <2>3. exits[s] + Told("tick", s) + Told("cron", s) + Told("stop", s) <= credits[s]
    BY <2>1 DEF IInv, Credited
  <2>4. QED
    BY <2>2, <2>3 DEF Threads
<1>2. QED
  BY <1>1, Invariance, PTL

-------------------------------------------------------------------------------
(* The SIGTERM sweep: what an entry opened before the signal is on its     *)
(* way to be listed, listed as it is, or the order under way closes it.    *)

OpenEntry(s) == Open(s) /\ pos[s].by = "entry"
Destined(s) ==
    \/ pc["stop"] \in {"guard", "book", "list"}
    \/ Sweeping("stop") /\ \E p \in todo["stop"] : p.sym = s /\ p.at = pos[s]
    \/ /\ Ordering("stop")
       /\ ord["stop"] = Opposite([sym |-> s, at |-> pos[s]], pos[s].kind, "sweep")
       /\ pc["stop"] = "settle" => seen["stop"] = pos[s]

SweptAll ==
    Signalled /\ ~overtaken /\ "stop" \notin raised =>
        \A s \in Symbols : OpenEntry(s) => Destined(s)

\* Only an entry leaves an entry's position that was not there before.
LEMMA EntriesByEntries ==
    ASSUME TypeOK, NEW t \in Threads, Settle(t), NEW s \in Symbols, OpenEntry(s)'
    PROVE  pos'[s] = pos[s] \/ ord[t].why = "entry"
<1>1. SUFFICES ASSUME s = ord[t].sym PROVE pos'[s] = pos[s] \/ ord[t].why = "entry"
  BY OrderTouches DEF PlaceOrder
<1>2. pos'[s] = Settled(ord[t], seen[t])
  BY <1>1 DEF Settle, TypeOK
<1>3. QED
  BY <1>1, <1>2 DEF Settled, OpenEntry, Open, Flat

LEMMA SweptAllStep == TypeOK /\ Roles /\ SweptAll /\ Next => SweptAll'
<1> SUFFICES ASSUME TypeOK, Roles, SweptAll, Next,
                    (Signalled /\ ~overtaken /\ "stop" \notin raised)',
                    NEW s \in Symbols, OpenEntry(s)'
             PROVE  Destined(s)'
  BY DEF SweptAll
<1> USE DEF Threads, local, history, Goto, Ordering, Sweeping, Signalled, Destined, OpenEntry,
            Open
<1>1. ASSUME NEW t \in Threads, Guard(t) \/ ReadBook(t) \/ Mark(t) \/ JournalSweep(t)
      PROVE  Destined(s)'
  BY <1>1 DEF Guard, ReadBook, Mark, JournalSweep, Finished, Marks, Held, TypeOK, SweptAll
<1>2. ASSUME NEW t \in Threads, ListSweep(t) PROVE Destined(s)'
  BY <1>2 DEF ListSweep, Listed, Held, TypeOK, SweptAll
<1>3. ASSUME NEW t \in Threads, Sweep(t) PROVE Destined(s)'
  <2>1. CASE t # "stop"
    BY <1>3, <2>1 DEF Sweep, TypeOK, SweptAll
  <2>2. CASE t = "stop" /\ todo[t] = {}
    BY <1>3, <2>2 DEF Sweep, TypeOK, SweptAll
  <2>3. CASE t = "stop" /\ todo[t] # {}
    <3>1. PICK p \in todo[t] :
             /\ todo' = [todo EXCEPT ![t] = @ \ {p}]
             /\ ord' = [ord EXCEPT ![t] = Opposite(p, p.at.kind, "sweep")]
             /\ Goto(t, "order")
      BY <1>3, <2>3 DEF Sweep
    <3>2. pc[t] = "sweep" /\ UNCHANGED <<pos, overtaken, raised>>
      BY <1>3 DEF Sweep
    <3>3. PICK q \in todo[t] : q.sym = s /\ q.at = pos[s]
      BY <2>3, <3>2 DEF SweptAll
    <3>4. CASE q # p
      BY <2>3, <3>1, <3>2, <3>3, <3>4 DEF TypeOK, Opposite
    <3>5. CASE q = p
      <4>1. Opposite(p, p.at.kind, "sweep") =
              Opposite([sym |-> s, at |-> pos[s]], pos[s].kind, "sweep")
        BY <3>3, <3>5 DEF Opposite
      <4>2. QED
        BY <2>3, <3>1, <3>2, <4>1 DEF TypeOK
    <3>6. QED
      BY <3>4, <3>5
  <2>4. QED
    BY <2>1, <2>2, <2>3
<1>4. ASSUME NEW t \in Threads, Lookup(t) PROVE Destined(s)'
  <2>1. OpenEntry(s) /\ Destined(s) /\ pos' = pos
    BY <1>4, OrderFacts DEF Lookup, SweptAll, PlaceOrder
  <2>2. CASE t # "stop"
    BY <1>4, <2>1, <2>2, OrderFacts DEF PlaceOrder
  <2>3. CASE t = "stop" /\ \E p \in todo[t] : p.sym = s /\ p.at = pos[s]
    <3>1. ord[t].why = "sweep" /\ Resume(ord[t]) = "sweep" /\ todo' = todo
      BY <1>4, <2>3, OrderFacts DEF PlaceOrder, Lookup
    <3>2. (pc'[t] = "settle" /\ ord' = ord) \/ pc'[t] = "sweep"
      BY <1>4, <3>1 DEF Lookup, TypeOK
    <3>3. QED
      BY <2>1, <2>3, <3>1, <3>2
  <2>4. CASE t = "stop" /\ ord[t] = Opposite([sym |-> s, at |-> pos[s]], pos[s].kind, "sweep")
    <3> DEFINE o == ord[t]
    <3>1. pos[s].qty \in Int /\ pos[s].qty # 0
      BY <2>1 DEF TypeOK, Positions
    <3>2. o.sym = s /\ o.kind = pos[s].kind
          /\ (o.n = pos[s].qty \/ o.dir = 1)
      <4>1. CASE pos[s].qty > 0
        BY <2>4, <4>1 DEF Opposite
      <4>2. CASE ~(pos[s].qty > 0)
        BY <2>4, <4>2 DEF Opposite
      <4>3. QED
        BY <4>1, <4>2
    <3>3. ~Rejected(o, pos[s]) /\ ~NeedsCash(o, pos[s])
      BY <3>2, <3>1 DEF Rejected, NeedsCash
    <3>4. seen' = [seen EXCEPT ![t] = pos[s]] /\ Goto(t, "settle") /\ UNCHANGED ord
      BY <1>4, <3>2, <3>3 DEF Lookup
    <3>5. QED
      BY <2>1, <2>4, <3>4 DEF TypeOK
  <2>5. QED
    BY <1>4, <2>1, <2>2, <2>3, <2>4 DEF Lookup
<1>5. ASSUME NEW t \in Threads, Settle(t) PROVE Destined(s)'
  <2>1. pc["stop"] # "idle" /\ ~overtaken /\ "stop" \notin raised /\ ord[t].why # "entry"
    <3>1. pc["stop"] # "idle"
      BY <1>5, OrderFacts DEF PlaceOrder, Settle, TypeOK
    <3>2. QED
      BY <1>5, <3>1 DEF Settle
  <2>2. pos'[s] = pos[s]
    BY <1>5, <2>1, EntriesByEntries
  <2>3. Destined(s)
    BY <2>1, <2>2 DEF SweptAll
  <2>4. CASE t # "stop"
    BY <1>5, <2>2, <2>3, <2>4, OrderFacts DEF PlaceOrder
  <2>5. CASE t = "stop"
    <3>1. pc[t] = "settle" /\ ord[t].why = "sweep"
      BY <1>5, <2>5, OrderFacts DEF PlaceOrder, Settle
    <3>2. ~Raises(ord[t], seen[t]) /\ pc'[t] = "sweep" /\ todo' = todo
      <4>1. ~Raises(ord[t], seen[t])
        BY <1>5, <2>5 DEF Settle
      <4>2. Goto(t, Resume(ord[t])) /\ todo' = todo
        BY <1>5, <4>1 DEF Settle
      <4>3. QED
        BY <3>1, <4>1, <4>2 DEF Resume, TypeOK
    <3>3. CASE \E p \in todo[t] : p.sym = s /\ p.at = pos[s]
      BY <2>2, <2>5, <3>2, <3>3
    <3>4. CASE /\ ord[t] = Opposite([sym |-> s, at |-> pos[s]], pos[s].kind, "sweep")
               /\ seen[t] = pos[s]
      <4>1. pos[s].qty \in Int
        BY DEF TypeOK, Positions
      <4>2. ord[t].sym = s /\ pos[s].qty + ord[t].dir * ord[t].n = 0
        <5>1. CASE pos[s].qty > 0
          BY <3>4, <4>1, <5>1 DEF Opposite
        <5>2. CASE ~(pos[s].qty > 0)
          BY <3>4, <4>1, <5>2 DEF Opposite
        <5>3. QED
          BY <5>1, <5>2
      <4>3. pos'[s] = Flat
        BY <1>5, <3>4, <4>2, <4>1 DEF Settle, Settled, TypeOK
      <4>4. QED
        BY <4>3 DEF Flat
    <3>5. QED
      BY <2>3, <2>5, <3>1, <3>3, <3>4
  <2>6. QED
    BY <2>4, <2>5
<1>6. CASE TickManages \/ KillCheck \/ TickSquaresOff \/ CronFires \/ SignalArrives
  BY <1>6 DEF TickManages, KillCheck, TickSquaresOff, CronFires, SignalArrives,
              TypeOK, SweptAll
<1>7. CASE Manage
  BY <1>7 DEF Manage, TypeOK, SweptAll
<1>8. CASE TickEnters
  BY <1>8 DEF TickEnters, TypeOK, SweptAll
<1>9. CASE ClockPassesSquareOff
  BY <1>9 DEF ClockPassesSquareOff, SweptAll
<1>10. QED
  BY <1>1, <1>2, <1>3, <1>4, <1>5, <1>6, <1>7, <1>8, <1>9
     DEF Next, Runs, EndOfDay, PlaceOrder

\* The SIGTERM handler leaves no position of an entry open, but one that was
\* filled after the signal or whose close another thread took from the sweep.
THEOREM StopClears == Spec => []StopSweepsAll
<1>1. Init => SweptAll
  BY DEF Init, SweptAll, Signalled, Threads
<1>2. TypeOK /\ Roles /\ SweptAll /\ [Next]_vars => SweptAll'
  <2>1. ASSUME SweptAll, UNCHANGED vars PROVE SweptAll'
    BY <2>1 DEF vars, SweptAll, Signalled, OpenEntry, Open, Destined, Ordering, Sweeping
  <2>2. QED
    BY <2>1, SweptAllStep
<1>3. SweptAll => StopSweepsAll
  BY DEF SweptAll, StopSweepsAll, Quiet, Leftover, OpenEntry, Destined, Sweeping, Ordering,
         Signalled, Threads
<1>4. IInv => TypeOK /\ Roles
  BY DEF IInv
<1>5. QED
  BY <1>1, <1>2, <1>3, <1>4, Invariance, PTL DEF Spec
===============================================================================
