-------------------------------- MODULE Journal --------------------------------
(***************************************************************************)
(* The trade journal (bot/journal.py) beside the paper broker's books: the *)
(* executor hands every fill, with the symbol's position before and after  *)
(* it, to record_fill, which pairs fills into round trips; the net P&L of  *)
(* the closed ones is the day's statement.                                 *)
(*                                                                         *)
(* The open trades live in memory only.  A restart that keeps the book     *)
(* (the session reset could not delete it, the broker restores it) starts  *)
(* with an empty journal over held positions.                              *)
(*                                                                         *)
(* An open trade keeps its cost, entry_price * qty, like a position.       *)
(***************************************************************************)
EXTENDS PaperBroker

VARIABLES
    opened,     \* TradeJournal._open; side 0: no entry
    net,        \* the net P&L of each symbol's TRADE_CLOSED events
    parted,     \* history: the symbols that saw a partial exit
    unbooked    \* history: entry fees of trades the journal has no record of

journal == <<opened, net, parted, unbooked>>

None == [side |-> 0, qty |-> 0, cost |-> 0, fees |-> 0]

JTypeOK ==
    /\ opened \in [Symbols -> [side : {1, 0, -1}, qty : Nat, cost : Nat, fees : Nat]]
    /\ net \in [Symbols -> Int]
    /\ parted \subseteq Symbols
    /\ unbooked \in [Symbols -> Nat]

JInit ==
    /\ Init
    /\ opened = [s \in Symbols |-> None]
    /\ net = [s \in Symbols |-> 0]
    /\ parted = {}
    /\ unbooked = [s \in Symbols |-> 0]

Sign(q) == IF q > 0 THEN 1 ELSE -1

\* The entry of a position of q units.
OpenTrade(q, fill, fee) ==
    [side |-> Sign(q), qty |-> Magnitude(q), cost |-> fill * Magnitude(q), fees |-> fee]

\* A position without an entry is rebuilt from the broker's, without fees.
Known(s) ==
    IF opened[s] # None THEN opened[s]
    ELSE [side |-> Sign(pos[s].qty), qty |-> Magnitude(pos[s].qty),
          cost |-> pos[s].basis, fees |-> 0]

\* Mutant: the fees of the entry are left out of the round trip.
NetOfExitOnly(o, fill, fee) == o.side * (fill * o.qty - o.cost) - fee

Net(o, fill, fee) == o.side * (fill * o.qty - o.cost) - (o.fees + fee)

RecordOpen(s, after, fill, fee) ==
    /\ opened' = [opened EXCEPT ![s] = OpenTrade(after, fill, fee)]
    /\ UNCHANGED <<net, parted, unbooked>>

\* A close; a flip opens the other side, its fees already booked.
RecordClose(s, after, fill, fee) ==
    /\ net' = [net EXCEPT ![s] = @ + Net(Known(s), fill, fee)]
    /\ opened' = [opened EXCEPT ![s] = IF after = 0 THEN None ELSE OpenTrade(after, fill, 0)]
    /\ UNCHANGED <<parted, unbooked>>

Grown(o, n, fill, fee) ==
    [side |-> o.side, qty |-> o.qty + n, cost |-> o.cost + fill * n, fees |-> o.fees + fee]

Cut(o, n) ==
    [side |-> o.side, qty |-> o.qty - n,
     cost |-> (o.cost \div o.qty) * (o.qty - n), fees |-> o.fees]

\* More of the same, or less: a partial exit lowers the entry's quantity and
\* nothing else.  Without an entry nothing is recorded.
RecordAdd(s, d, n, fill, fee) ==
    LET o == opened[s] same == d = Sign(pos[s].qty) IN
    /\ opened' = [opened EXCEPT ![s] =
           IF o = None THEN None
           ELSE IF same THEN Grown(o, n, fill, fee) ELSE Cut(o, n)]
    /\ unbooked' = [unbooked EXCEPT ![s] = @ + IF same /\ o = None THEN fee ELSE 0]
    /\ parted' = IF same THEN parted ELSE parted \cup {s}
    /\ UNCHANGED net

RecordFill(s, d, n, fill, fee) ==
    LET before == pos[s].qty after == before + d * n IN
    \/ before = 0 /\ RecordOpen(s, after, fill, fee)
    \/ before # 0 /\ before * after <= 0 /\ RecordClose(s, after, fill, fee)
    \/ before * after > 0 /\ RecordAdd(s, d, n, fill, fee)

Execute(s) ==
    \E d \in {1, -1}, n \in 1..MaxQty, fill \in Prices, fee \in Fees :
        Fill(s, d, n, fill, fee) /\ RecordFill(s, d, n, fill, fee)

Restart ==
    /\ opened' = [s \in Symbols |-> None]
    /\ unbooked' = [s \in Symbols |-> unbooked[s] + opened[s].fees]
    /\ marks' = [s \in Symbols |-> 0]
    /\ UNCHANGED <<kind, cash, pos, flow, fills, net, parted>>

JNext ==
    \/ \E s \in Symbols : Execute(s)
    \/ UpdateMarks /\ UNCHANGED journal
    \/ Restart

JSpec == JInit /\ [][JNext]_<<vars, journal>>

-------------------------------------------------------------------------------
(* Properties.                                                             *)

\* An open trade is the position it is of.
Tracks(s) ==
    LET o == opened[s] IN
    o # None => /\ o.side * o.qty = pos[s].qty /\ o.qty > 0 /\ pos[s].qty # 0
                /\ s \notin parted => o.cost = pos[s].basis

\* What an open trade has cost so far.
Spent(s) ==
    IF pos[s].qty = 0 THEN 0 ELSE Known(s).side * Known(s).cost + Known(s).fees

\* The statement and the cash tell the same story: a symbol's closed trades,
\* and what its open one has cost, are what its orders did to the account -
\* but for the entry fees a restart forgot, by which the statement is too
\* good.  A partial exit is no round trip, and such a symbol is left out.
JournalAgrees ==
    \A s \in Symbols :
        /\ Tracks(s)
        /\ s \notin parted => net[s] - Spent(s) = Account(s) + unbooked[s]
===============================================================================
