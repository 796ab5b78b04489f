--------------------------------- MODULE Ledger ---------------------------------
(***************************************************************************)
(* What a broker's books promise, whatever the instrument: every fill of   *)
(* n units (negative when sold) moves the symbol's account by what was     *)
(* paid or received for them, less the fees, and nothing else moves it.    *)
(***************************************************************************)
EXTENDS Integers

CONSTANTS Symbols, Sizes, Prices, Fees

VARIABLES
    qty,        \* units held of each symbol
    account     \* money each symbol's trades have brought in, on balance

Init ==
    /\ qty = [s \in Symbols |-> 0]
    /\ account = [s \in Symbols |-> 0]

Trade(s, n, price, fee) ==
    /\ qty' = [qty EXCEPT ![s] = @ + n]
    /\ account' = [account EXCEPT ![s] = @ - n * price - fee]

Next == \E s \in Symbols, n \in Sizes, price \in Prices, fee \in Fees :
            Trade(s, n, price, fee)

Spec == Init /\ [][Next]_<<qty, account>>
===============================================================================
