---------------------------- MODULE Money_proofs ----------------------------
(***************************************************************************)
(* The money: the gate before an order, the paper broker and its journal,  *)
(* for any market, strategies, caps, symbols, capital, prices, fees and    *)
(* margins, and restarts over a kept book.                                 *)
(*                                                                         *)
(* The gate (EntryGate): every signal offered has its levels on the right  *)
(* sides, the size is the largest the caps allow, and neither the book nor *)
(* the day loses more than the caps and the tolls allow.  The broker and   *)
(* the journal: the books are well typed, every spread is covered, the     *)
(* five cash-flow models implement one Ledger, the risk manager's equity   *)
(* is the net worth, and the journal's statement agrees with the cash.     *)
(*                                                                         *)
(* The second part rests on lemmas about one order and one position: what  *)
(* an entry, a close, a flip and an addition take from the cash is,        *)
(* together with what the new position withholds, the price of the units   *)
(* traded.  A journalled fill is a fill, and a restart leaves the book as  *)
(* it is.                                                                  *)
(***************************************************************************)
EXTENDS Journal, EntryGate, FiniteSetTheorems, TLAPS

-------------------------------------------------------------------------------
(* Sums over a finite set.                                                 *)
(*                                                                         *)
(* A sum of the community modules is the value at S of a function on the   *)
(* subsets of S, which takes off one element at a time.                    *)

Pick(T) == CHOOSE x \in T : TRUE

Adds(F, S, g) ==
    g = [T \in SUBSET S |-> IF T = {} THEN 0 ELSE F[Pick(T)] + g[T \ {Pick(T)}]]

Total(F, S) == (CHOOSE g : Adds(F, S, g))[S]

\* A set of subsets of a finite set has a smallest member.
LEMMA SmallestSubset ==
    ASSUME NEW S, IsFiniteSet(S), NEW Bad \in SUBSET (SUBSET S), Bad # {}
    PROVE  \E T \in Bad : \A U \in Bad : ~(U \subseteq T /\ U # T)
<1>1. IsWellFoundedOn(StrictSubsetOrdering(S), SUBSET S)
  BY FS_StrictSubsetOrderingWellFounded, FS_FiniteSubsetsOfFinite, Zenon
<1>2. PICK T \in Bad : \A U \in Bad : <<U, T>> \notin StrictSubsetOrdering(S)
  BY <1>1, WFMin, Zenon
<1>3. ASSUME NEW U \in Bad, U \subseteq T, U # T
      PROVE  FALSE
  <2>1. <<U, T>> \in StrictSubsetOrdering(S)
    BY <1>3 DEF StrictSubsetOrdering
  <2>2. QED
    BY <1>2, <2>1
<1>4. QED
  BY <1>3

\* A set of numbers has a least one.
LEMMA SmallestNumber ==
    ASSUME NEW Bad \in SUBSET Nat, Bad # {}
    PROVE  \E n \in Bad : \A m \in Bad : ~(m < n)
<1>1. PICK n \in Bad : \A m \in Bad : <<m, n>> \notin OpToRel(<, Nat)
  BY WFMin, NatLessThanWellFounded, Zenon
<1>2. \A m \in Bad : m < n => <<m, n>> \in OpToRel(<, Nat)
  BY DEF OpToRel
<1>3. QED
  BY <1>1, <1>2

LEMMA PickIsMember == \A T : T # {} => Pick(T) \in T
BY DEF Pick

\* The function that the sum is taken from exists.
LEMMA SumExists ==
    ASSUME NEW S, IsFiniteSet(S), NEW F
    PROVE  \E g : Adds(F, S, g)
<1> DEFINE Small(n) == {T \in SUBSET S : Cardinality(T) <= n}
           Partly(n, g) ==
               g = [T \in Small(n) |-> IF T = {} THEN 0 ELSE F[Pick(T)] + g[T \ {Pick(T)}]]
           Bad == {n \in Nat : ~\E g : Partly(n, g)}
<1>1. \A T \in SUBSET S : IsFiniteSet(T) /\ Cardinality(T) \in Nat /\ Cardinality(T) <= Cardinality(S)
  BY FS_Subset, FS_CardinalityType
<1>2. ASSUME Bad # {}
      PROVE  FALSE
  <2>1. PICK n \in Bad : \A m \in Bad : ~(m < n)
    BY <1>2, SmallestNumber
  <2>2. CASE n = 0
    <3>1. \A T \in Small(0) : T = {}
      BY <1>1, FS_EmptySet
    <3>2. Partly(0, [T \in Small(0) |-> 0])
      BY <3>1
    <3>3. QED
      BY <2>1, <2>2, <3>2
  <2>3. CASE n # 0
    <3>1. n - 1 \in Nat /\ n - 1 \notin Bad
      <4>1. n - 1 \in Nat /\ n - 1 < n
        BY <2>1, <2>3
      <4> HIDE DEF Bad
      <4>2. QED
        BY <2>1, <4>1
    <3>2. PICK g : Partly(n - 1, g)
      BY <3>1
    <3> DEFINE h == [T \in Small(n) |-> IF T = {} THEN 0 ELSE F[Pick(T)] + g[T \ {Pick(T)}]]
    <3>3. ASSUME NEW T \in Small(n), T # {}
          PROVE  T \ {Pick(T)} \in Small(n - 1) /\ T \ {Pick(T)} \in Small(n)
      <4>1. Pick(T) \in T
        BY <3>3, PickIsMember
      <4>2. Cardinality(T \ {Pick(T)}) = Cardinality(T) - 1
        BY <1>1, <4>1, FS_RemoveElement
      <4>3. QED
        BY <1>1, <2>1, <4>2
    <3>4. \A T \in Small(n - 1) : T \in Small(n) /\ h[T] = g[T]
      <4>1. \A T \in Small(n - 1) : T \in Small(n)
        BY <1>1, <2>1, <3>1
      <4>2. \A T \in Small(n - 1) : g[T] = IF T = {} THEN 0 ELSE F[Pick(T)] + g[T \ {Pick(T)}]
        BY <3>2, Zenon
      <4>3. QED
        BY <4>1, <4>2
    <3>5. Partly(n, h)
      BY <3>3, <3>4
    <3>6. QED
      BY <2>1, <3>5
  <2>4. QED
    BY <2>2, <2>3
<1>3. PICK g : Partly(Cardinality(S), g)
  BY <1>1, <1>2
<1>4. Small(Cardinality(S)) = SUBSET S
  BY <1>1
<1>5. QED
  BY <1>3, <1>4 DEF Adds

\* Its value at one subset, and the subset without the picked element.
LEMMA SumUnfolds ==
    ASSUME NEW S, NEW F, NEW g, Adds(F, S, g), NEW T \in SUBSET S
    PROVE  /\ T = {} => g[T] = 0
           /\ T # {} => /\ g[T] = F[Pick(T)] + g[T \ {Pick(T)}]
                        /\ Pick(T) \in T /\ T \ {Pick(T)} \in SUBSET S
<1>1. g[T] = IF T = {} THEN 0 ELSE F[Pick(T)] + g[T \ {Pick(T)}]
  BY Zenon DEF Adds
<1>2. QED
  BY <1>1, PickIsMember

LEMMA SumEmpty ==
    ASSUME NEW S, NEW F, NEW g, Adds(F, S, g)
    PROVE  g[{}] = 0
<1>1. {} \in SUBSET S
  OBVIOUS
<1>2. QED
  BY <1>1, SumUnfolds

LEMMA SumType ==
    ASSUME NEW S, IsFiniteSet(S), NEW F \in [S -> Int], NEW g, Adds(F, S, g)
    PROVE  \A T \in SUBSET S : g[T] \in Int
<1> DEFINE Bad == {T \in SUBSET S : g[T] \notin Int}
<1>1. ASSUME Bad # {}
      PROVE  FALSE
  <2>1. PICK T \in Bad : \A U \in Bad : ~(U \subseteq T /\ U # T)
    <3>1. Bad \in SUBSET (SUBSET S)
      OBVIOUS
    <3> HIDE DEF Bad
    <3>2. QED
      BY <3>1, <1>1, SmallestSubset
  <2>2. T # {} /\ Pick(T) \in T /\ g[T] = F[Pick(T)] + g[T \ {Pick(T)}] /\ T \ {Pick(T)} \in SUBSET S
    BY <2>1, SumUnfolds
  <2>3. g[T \ {Pick(T)}] \in Int
    BY <2>1, <2>2
  <2>4. QED
    BY <2>1, <2>2, <2>3
<1>2. QED
  BY <1>1

\* The order in which elements are taken off does not matter.
LEMMA SumTakesOff ==
    ASSUME NEW S, IsFiniteSet(S), NEW F \in [S -> Int], NEW g, Adds(F, S, g)
    PROVE  \A T \in SUBSET S : \A x \in T : g[T] = F[x] + g[T \ {x}]
<1> DEFINE Bad == {T \in SUBSET S : \E x \in T : g[T] # F[x] + g[T \ {x}]}
<1>1. ASSUME Bad # {}
      PROVE  FALSE
  <2>1. PICK T \in Bad : \A U \in Bad : ~(U \subseteq T /\ U # T)
    <3>1. Bad \in SUBSET (SUBSET S)
      OBVIOUS
    <3> HIDE DEF Bad
    <3>2. QED
      BY <3>1, <1>1, SmallestSubset
  <2>2. PICK x \in T : g[T] # F[x] + g[T \ {x}]
    BY <2>1
  <2> DEFINE p == Pick(T)
  <2>3. p \in T /\ g[T] = F[p] + g[T \ {p}]
    BY <2>1, <2>2, SumUnfolds
  <2>4. x # p
    BY <2>2, <2>3
  <2> HIDE DEF p
  <2>5. /\ T \in SUBSET S /\ T \ {p} \in SUBSET S /\ T \ {x} \in SUBSET S
        /\ T \ {p} \notin Bad /\ T \ {x} \notin Bad
    BY <2>1, <2>3
  <2>6. x \in T \ {p} /\ p \in T \ {x} /\ (T \ {p}) \ {x} = (T \ {x}) \ {p}
    BY <2>2, <2>3, <2>4
  <2>7. g[T \ {p}] = F[x] + g[(T \ {p}) \ {x}] /\ g[T \ {x}] = F[p] + g[(T \ {p}) \ {x}]
    BY <2>5, <2>6
  <2>8. g[(T \ {p}) \ {x}] \in Int /\ F[x] \in Int /\ F[p] \in Int
    BY <2>2, <2>3, <2>5, SumType
  <2>9. QED
    BY <2>2, <2>3, <2>7, <2>8
<1>2. QED
  BY <1>1

\* Two sums agree on a set where their terms do.
LEMMA SumsAgree ==
    ASSUME NEW S, IsFiniteSet(S), NEW F, NEW f, Adds(F, S, f),
           NEW R, NEW G, NEW g, Adds(G, R, g), NEW M \in SUBSET (S \cap R),
           \A x \in M : F[x] = G[x]
    PROVE  f[M] = g[M]
<1> DEFINE Bad == {T \in SUBSET M : f[T] # g[T]}
<1>1. IsFiniteSet(M)
  BY FS_Subset
<1>2. ASSUME Bad # {}
      PROVE  FALSE
  <2>1. PICK T \in Bad : \A U \in Bad : ~(U \subseteq T /\ U # T)
    <3>1. Bad \in SUBSET (SUBSET M)
      OBVIOUS
    <3> HIDE DEF Bad
    <3>2. QED
      BY <3>1, <1>1, <1>2, SmallestSubset
  <2>2. T \in SUBSET S /\ T \in SUBSET R /\ T \in SUBSET M /\ f[T] # g[T]
    BY <2>1
  <2>3. T # {} /\ Pick(T) \in T
    <3>1. f[{}] = 0
      BY SumEmpty
    <3>2. g[{}] = 0
      BY SumEmpty
    <3>3. QED
      BY <2>2, <3>1, <3>2, PickIsMember
  <2>4. f[T] = F[Pick(T)] + f[T \ {Pick(T)}] /\ g[T] = G[Pick(T)] + g[T \ {Pick(T)}]
    <3>1. f[T] = F[Pick(T)] + f[T \ {Pick(T)}]
      BY <2>2, <2>3, SumUnfolds
    <3>2. g[T] = G[Pick(T)] + g[T \ {Pick(T)}]
      BY <2>2, <2>3, SumUnfolds
    <3>3. QED
      BY <3>1, <3>2
  <2>5. f[T \ {Pick(T)}] = g[T \ {Pick(T)}]
    BY <2>1, <2>2, <2>3
  <2>6. QED
    BY <2>2, <2>3, <2>4, <2>5
<1>3. QED
  BY <1>2

\* The sum of the sums.
LEMMA SumsAdd ==
    ASSUME NEW S, IsFiniteSet(S),
           NEW F \in [S -> Int], NEW f, Adds(F, S, f),
           NEW G \in [S -> Int], NEW g, Adds(G, S, g),
           NEW H \in [S -> Int], NEW h, Adds(H, S, h),
           \A x \in S : H[x] = F[x] + G[x]
    PROVE  h[S] = f[S] + g[S]
<1> DEFINE Bad == {T \in SUBSET S : h[T] # f[T] + g[T]}
<1>1. ASSUME Bad # {}
      PROVE  FALSE
  <2>1. PICK T \in Bad : \A U \in Bad : ~(U \subseteq T /\ U # T)
    <3>1. Bad \in SUBSET (SUBSET S)
      OBVIOUS
    <3> HIDE DEF Bad
    <3>2. QED
      BY <3>1, <1>1, SmallestSubset
  <2>2. T \in SUBSET S /\ h[T] # f[T] + g[T]
    BY <2>1
  <2>3. T # {}
    <3>1. f[{}] = 0
      BY SumEmpty
    <3>2. g[{}] = 0
      BY SumEmpty
    <3>3. h[{}] = 0
      BY SumEmpty
    <3>4. QED
      BY <2>2, <3>1, <3>2, <3>3
  <2>4. PICK p \in T : p = Pick(T) /\ T \ {p} \in SUBSET S
    BY <2>2, <2>3, PickIsMember
  <2>5. f[T] = F[p] + f[T \ {p}] /\ g[T] = G[p] + g[T \ {p}] /\ h[T] = H[p] + h[T \ {p}]
    <3>1. f[T] = F[p] + f[T \ {p}]
      BY <2>2, <2>3, <2>4, SumUnfolds
    <3>2. g[T] = G[p] + g[T \ {p}]
      BY <2>2, <2>3, <2>4, SumUnfolds
    <3>3. h[T] = H[p] + h[T \ {p}]
      BY <2>2, <2>3, <2>4, SumUnfolds
    <3>4. QED
      BY <3>1, <3>2, <3>3
  <2>6. h[T \ {p}] = f[T \ {p}] + g[T \ {p}]
    BY <2>1, <2>2, <2>4
  <2>7. f[T \ {p}] \in Int /\ g[T \ {p}] \in Int /\ F[p] \in Int /\ G[p] \in Int
        /\ H[p] = F[p] + G[p]
    BY <2>2, <2>4, SumType
  <2>8. QED
    BY <2>2, <2>5, <2>6, <2>7
<1>2. QED
  BY <1>1

-------------------------------------------------------------------------------
(* Totals.                                                                 *)

LEMMA TotalIs ==
    ASSUME NEW S, IsFiniteSet(S), NEW F
    PROVE  \E g : Adds(F, S, g) /\ Total(F, S) = g[S]
<1> DEFINE g == CHOOSE f : Adds(F, S, f)
<1>1. Adds(F, S, g)
  BY SumExists
<1>2. QED
  BY <1>1 DEF Total

LEMMA TotalType ==
    ASSUME NEW S, IsFiniteSet(S), NEW F \in [S -> Int]
    PROVE  Total(F, S) \in Int
BY TotalIs, SumType

LEMMA TotalsAdd ==
    ASSUME NEW S, IsFiniteSet(S),
           NEW F \in [S -> Int], NEW G \in [S -> Int], NEW H \in [S -> Int],
           \A x \in S : H[x] = F[x] + G[x]
    PROVE  Total(H, S) = Total(F, S) + Total(G, S)
<1>1. PICK f : Adds(F, S, f) /\ Total(F, S) = f[S]
  BY TotalIs
<1>2. PICK g : Adds(G, S, g) /\ Total(G, S) = g[S]
  BY TotalIs
<1>3. PICK h : Adds(H, S, h) /\ Total(H, S) = h[S]
  BY TotalIs
<1>4. QED
  BY <1>1, <1>2, <1>3, SumsAdd

LEMMA TotalOfNothing ==
    ASSUME NEW S, IsFiniteSet(S), NEW F, F = [x \in S |-> 0]
    PROVE  Total(F, S) = 0
<1>1. F \in [S -> Int] /\ \A x \in S : F[x] = F[x] + F[x]
  OBVIOUS
<1>2. Total(F, S) \in Int /\ Total(F, S) = Total(F, S) + Total(F, S)
  BY <1>1, TotalType, TotalsAdd
<1>3. PICK z \in Int : z = Total(F, S)
  BY <1>2
<1>4. z = z + z
  BY <1>2, <1>3
<1>5. z = 0
  BY <1>4
<1>6. QED
  BY <1>3, <1>5

\* A total changes by what one of its terms does.
LEMMA TotalMoves ==
    ASSUME NEW S, IsFiniteSet(S), NEW F \in [S -> Int], NEW G \in [S -> Int],
           NEW x \in S, \A y \in S \ {x} : G[y] = F[y]
    PROVE  Total(G, S) - Total(F, S) = G[x] - F[x]
<1>1. PICK f : Adds(F, S, f) /\ Total(F, S) = f[S]
  BY TotalIs
<1>2. PICK g : Adds(G, S, g) /\ Total(G, S) = g[S]
  BY TotalIs
<1>3. f[S] = F[x] + f[S \ {x}] /\ g[S] = G[x] + g[S \ {x}]
  BY <1>1, <1>2, SumTakesOff
<1>4. f[S \ {x}] = g[S \ {x}]
  <2>1. S \ {x} \in SUBSET (S \cap S)
    OBVIOUS
  <2>2. QED
    BY <1>1, <1>2, <2>1, SumsAgree
<1>5. f[S \ {x}] \in Int /\ F[x] \in Int /\ G[x] \in Int
  BY <1>1, SumType
<1>6. QED
  BY <1>1, <1>2, <1>3, <1>4, <1>5

-------------------------------------------------------------------------------
(* Numbers.                                                                *)

\* What a quotient is.
LEMMA Quotient ==
    ASSUME NEW a \in Int, NEW b \in Nat \ {0}
    PROVE  /\ a \div b \in Int
           /\ (a \div b) * b <= a /\ a < (a \div b) * b + b
OBVIOUS

LEMMA QuotientOfNaturals ==
    ASSUME NEW a \in Nat, NEW b \in Nat \ {0}
    PROVE  a \div b \in Nat
OBVIOUS

\* A product of naturals is a natural.
LEMMA Products == \A a, b \in Nat : a * b \in Nat
OBVIOUS

\* Products keep the order.
LEMMA ProductsGrow == \A a, b \in Int : \A c \in Nat : a <= b => a * c <= b * c
OBVIOUS

\* A multiple past another by no more than the unit is the next one.
LEMMA NextMultiple ==
    ASSUME NEW k \in Nat, NEW unit \in Nat \ {0}, NEW more \in 1..unit,
           (k * unit + more) % unit = 0
    PROVE  more = unit
OBVIOUS

LEMMA Multiple ==
    ASSUME NEW k \in Nat, NEW unit \in Nat \ {0}
    PROVE  (k * unit) % unit = 0
OBVIOUS

HasExtremes(T) ==
  /\ \E x \in T : \A y \in T : x >= y
  /\ \E x \in T : \A y \in T : x <= y

\* A finite set of numbers has a largest and a least one.
LEMMA Extremes ==
    ASSUME NEW S, IsFiniteSet(S), \A x \in S : x \in Int, S # {}
    PROVE  /\ Max(S) \in S /\ \A x \in S : x <= Max(S)
           /\ Min(S) \in S /\ \A x \in S : Min(S) <= x
<1> DEFINE Bad == {T \in SUBSET S : T # {} /\ ~HasExtremes(T)}
<1>1. ASSUME Bad # {}
      PROVE  FALSE
  <2>1. PICK T \in Bad : \A U \in Bad : ~(U \subseteq T /\ U # T)
    <3>1. Bad \in SUBSET (SUBSET S)
      OBVIOUS
    <3> HIDE DEF Bad
    <3>2. QED
      BY <3>1, <1>1, SmallestSubset
  <2>2. PICK p \in T : p \in Int
    BY <2>1
  <2> DEFINE R == T \ {p}
  <2>3. CASE R = {}
    <3>1. \A y \in T : p >= y /\ p <= y
      BY <2>2, <2>3
    <3>2. QED
      BY <2>1, <2>2, <3>1 DEF HasExtremes
  <2>4. CASE R # {}
    <3>1. R \in SUBSET S /\ R \subseteq T /\ R # T
      BY <2>1, <2>2
    <3>2. HasExtremes(R)
      BY <2>1, <2>4, <3>1
    <3>3. PICK hi \in R : \A y \in R : hi >= y
      BY <3>2 DEF HasExtremes
    <3>4. PICK lo \in R : \A y \in R : lo <= y
      BY <3>2 DEF HasExtremes
    <3>5. \A y \in T : y = p \/ y \in R
      OBVIOUS
    <3>6. hi \in Int /\ lo \in Int /\ hi \in T /\ lo \in T /\ \A y \in R : y \in Int
      BY <2>1
    <3> HIDE DEF R
    <3>7. \E x \in T : \A y \in T : x >= y
      <4>1. CASE p >= hi
        BY <2>2, <3>3, <3>5, <3>6, <4>1
      <4>2. CASE hi >= p
        BY <2>2, <3>3, <3>5, <3>6, <4>2
      <4>3. QED
        BY <2>2, <3>6, <4>1, <4>2
    <3>8. \E x \in T : \A y \in T : x <= y
      <4>1. CASE p <= lo
        BY <2>2, <3>4, <3>5, <3>6, <4>1
      <4>2. CASE lo <= p
        BY <2>2, <3>4, <3>5, <3>6, <4>2
      <4>3. QED
        BY <2>2, <3>6, <4>1, <4>2
    <3>9. QED
      BY <2>1, <3>7, <3>8 DEF HasExtremes
  <2>5. QED
    BY <2>3, <2>4
<1>2. HasExtremes(S)
  BY <1>1
<1>3. Max(S) \in S /\ \A x \in S : Max(S) >= x
  BY <1>2, Zenon DEF Max, HasExtremes
<1>4. Min(S) \in S /\ \A x \in S : Min(S) <= x
  BY <1>2, Zenon DEF Min, HasExtremes
<1>5. QED
  BY <1>3, <1>4

\* A pair is finite.
LEMMA Pairs == \A x, y : IsFiniteSet({x, y})
<1> SUFFICES ASSUME NEW x, NEW y
             PROVE  IsFiniteSet({x, y})
  OBVIOUS
<1>1. IsFiniteSet({x})
  BY FS_Singleton
<1>2. IsFiniteSet({x} \cup {y})
  BY <1>1, FS_AddElement
<1>3. {x, y} = {x} \cup {y}
  OBVIOUS
<1>4. QED
  BY <1>2, <1>3, Zenon

-------------------------------------------------------------------------------
(* Signals.                                                                *)

AllKinds == {"cash", "future", "option", "spread", "condor"}

\* A signal that is no hold: its target beyond the price, its stop, if it has
\* one, on the other side.
Coherent(s) ==
    /\ s.kind \in AllKinds /\ s.price \in Nat \ {0} /\ s.tp \in Int
    /\ s.sl \in Int \/ s.sl = NoLevel
    /\ s.side \in {"BUY", "SELL"}
    /\ s.side = "BUY" => s.price < s.tp /\ (s.sl # NoLevel => s.sl < s.price)
    /\ s.side = "SELL" => s.tp < s.price /\ (s.sl # NoLevel => s.price < s.sl)
    /\ s.kind \in {"cash", "future"} => s.price = Spot

\* What a strategy gives, before any merging.
Proposed(s) == s = Hold \/ (Coherent(s) /\ s.sl \in Int /\ s.tp # 0)

OnSpot(s) == s = Hold \/ s.price = Spot

\* A strategy on the underlying is at its price.
LEMMA RideIsCoherent ==
    ASSUME NEW side \in {"BUY", "SELL", "HOLD"}, NEW sort \in {"cash", "future"}, NEW atr \in Ranges
    PROVE  Proposed(Ride(side, sort, atr)) /\ OnSpot(Ride(side, sort, atr))
<1> DEFINE s == Ride(side, sort, atr)
           a == IF atr > 0 THEN atr ELSE Spot \div 200
<1> USE MarketAssumption DEF MarketAssumption
<1>1. a \in Nat /\ a > 0 /\ TpMult * a # Spot
  OBVIOUS
<1> HIDE DEF a
<1>2. SlMult * a \in Nat /\ SlMult * a > 0 /\ TpMult * a \in Nat /\ TpMult * a > 0
  BY <1>1
<1>3. CASE side = "HOLD"
  BY <1>3 DEF Ride, Proposed, OnSpot
<1>4. CASE side = "BUY"
  <2>1. s = [side |-> "BUY", kind |-> sort, price |-> Spot,
             sl |-> Spot - SlMult * a, tp |-> Spot + TpMult * a]
    BY <1>4 DEF Ride, AtrLevels, a
  <2> HIDE DEF s
  <2>2. QED
    BY <1>2, <2>1 DEF s, Proposed, Coherent, OnSpot, AllKinds
<1>5. CASE side = "SELL"
  <2>1. s = [side |-> "SELL", kind |-> sort, price |-> Spot,
             sl |-> Spot + SlMult * a, tp |-> Spot - TpMult * a]
    BY <1>5 DEF Ride, AtrLevels, a
  <2> HIDE DEF s
  <2>2. QED
    BY <1>1, <1>2, <2>1 DEF s, Proposed, Coherent, OnSpot, AllKinds
<1>6. QED
  BY <1>3, <1>4, <1>5

\* A bought option has its levels checked.
LEMMA LongOptionIsCoherent ==
    ASSUME NEW q \in Quotes
    PROVE  Proposed(LongOption(q))
<1> DEFINE floor == (q.now * FloorPct) \div 100
           sl == Max({q.stop, floor})
<1>1. q.now \in Nat /\ q.stop \in Nat /\ q.target \in Nat
  BY MarketAssumption DEF MarketAssumption, Quotes
<1>2. floor \in Int
  <2>1. q.now * FloorPct \in Int
    BY <1>1, MarketAssumption DEF MarketAssumption
  <2>2. QED
    BY <2>1
<1> HIDE DEF floor
<1>3. sl \in Int
  <2> DEFINE S == {q.stop, floor}
  <2>1. S # {} /\ \A x \in S : x \in Int
    BY <1>1, <1>2
  <2>2. IsFiniteSet(S)
    BY Pairs, Zenon
  <2> HIDE DEF S
  <2>3. Max(S) \in S
    BY <2>1, <2>2, Extremes
  <2>4. QED
    BY <2>1, <2>3 DEF S
<1>4. LongOption(q) = IF q.now > 0 /\ sl < q.now /\ q.now < q.target
      THEN [side |-> "BUY", kind |-> "option", price |-> q.now, sl |-> sl, tp |-> q.target]
      ELSE Hold
  BY Zenon DEF LongOption, sl, floor
<1> HIDE DEF sl
<1>5. QED
  BY <1>1, <1>3, <1>4 DEF Proposed, Coherent, AllKinds

\* A spread sold too, and its target is not nothing.
LEMMA ShortSpreadIsCoherent ==
    ASSUME NEW sort \in {"spread", "condor"}, NEW credit \in Credits
    PROVE  Proposed(ShortSpread(sort, credit))
<1> DEFINE tp == (credit * (100 - LockPct)) \div 100
           sl == credit + ((Wing - credit) * StopPct) \div 100
<1> USE MarketAssumption DEF MarketAssumption
<1>1. credit \in Nat /\ tp \in Int /\ sl \in Int
  <2>1. credit * (100 - LockPct) \in Int /\ (Wing - credit) * StopPct \in Int
    OBVIOUS
  <2>2. QED
    BY <2>1
<1>2. credit > 0 => tp # 0
  OBVIOUS
<1>3. ShortSpread(sort, credit) =
        IF credit > 0 /\ Wing - credit > 0 /\ tp < credit /\ credit < sl
        THEN [side |-> "SELL", kind |-> sort, price |-> credit, sl |-> sl, tp |-> tp]
        ELSE Hold
  BY Zenon DEF ShortSpread
<1> HIDE DEF tp, sl
<1>4. QED
  BY <1>1, <1>2, <1>3 DEF Proposed, Coherent, AllKinds

\* The sides a rule may take.
LEMMA TrendTakesASide ==
    ASSUME NEW bars, NEW v
    PROVE  Trend(bars, v) \in {"BUY", "SELL", "HOLD"}
BY Zenon DEF Trend

LEMMA OrbIsCoherent ==
    ASSUME NEW bars, NEW v, NEW atr \in Ranges
    PROVE  Proposed(Orb(bars, v, atr)) /\ OnSpot(Orb(bars, v, atr))
<1> DEFINE side == CASE bars < 5 \/ v.range = "none" \/ v.late -> "HOLD"
                     [] v.range = "above" -> "BUY"
                     [] v.range = "below" -> "SELL"
                     [] OTHER -> "HOLD"
<1>1. side \in {"BUY", "SELL", "HOLD"}
  BY Zenon
<1>2. Orb(bars, v, atr) = Ride(side, "cash", atr)
  BY Zenon DEF Orb
<1> HIDE DEF side
<1>3. QED
  BY <1>1, <1>2, RideIsCoherent

LEMMA EmaSupertrendIsCoherent ==
    ASSUME NEW bars, NEW v, NEW atr \in Ranges
    PROVE  Proposed(EmaSupertrend(bars, v, atr)) /\ OnSpot(EmaSupertrend(bars, v, atr))
<1> DEFINE side ==
      CASE bars < 26 -> "HOLD"
        [] v.fast = "above" /\ v.dir = 1 /\ (v.was # "above" \/ v.wasDir # v.dir) -> "BUY"
        [] v.fast = "below" /\ v.dir = -1 /\ (v.was # "below" \/ v.wasDir # v.dir) -> "SELL"
        [] OTHER -> "HOLD"
<1>1. side \in {"BUY", "SELL", "HOLD"}
  BY Zenon
<1>2. EmaSupertrend(bars, v, atr) = Ride(side, "cash", atr)
  BY Zenon DEF EmaSupertrend
<1> HIDE DEF side
<1>3. QED
  BY <1>1, <1>2, RideIsCoherent

LEMMA VwapRevertIsCoherent ==
    ASSUME NEW bars, NEW v, NEW atr \in Ranges
    PROVE  Proposed(VwapRevert(bars, v, atr)) /\ OnSpot(VwapRevert(bars, v, atr))
<1> DEFINE side == CASE bars < 20 -> "HOLD"
                     [] v.band = "below" /\ v.rsi = "low" -> "BUY"
                     [] v.band = "above" /\ v.rsi = "high" -> "SELL"
                     [] OTHER -> "HOLD"
<1>1. side \in {"BUY", "SELL", "HOLD"}
  BY Zenon
<1>2. VwapRevert(bars, v, atr) = Ride(side, "cash", atr)
  BY Zenon DEF VwapRevert
<1> HIDE DEF side
<1>3. QED
  BY <1>1, <1>2, RideIsCoherent

LEMMA FuturesTrendIsCoherent ==
    ASSUME NEW bars, NEW v, NEW atr \in Ranges
    PROVE  Proposed(FuturesTrend(bars, v, atr)) /\ OnSpot(FuturesTrend(bars, v, atr))
BY TrendTakesASide, RideIsCoherent DEF FuturesTrend

\* The signals of each strategy.
LEMMA SignalsAre ==
    ASSUME NEW strategy, NEW bars, NEW atr
    PROVE  LET all == Signals(strategy, bars, atr)
           IN  /\ strategy = "orb" => all = {Orb(bars, v, atr) : v \in OrbViews}
               /\ strategy = "vwap_revert" => all = {VwapRevert(bars, v, atr) : v \in VwapViews}
               /\ strategy = "ema_supertrend" =>
                    all = {EmaSupertrend(bars, v, atr) : v \in EmaViews}
               /\ strategy = "futures_trend" =>
                    all = {FuturesTrend(bars, v, atr) : v \in TrendViews}
               /\ strategy = "option_buy_directional" =>
                    all = {OptionBuy(bars, v, c, q) : v \in TrendViews, c \in Checks, q \in Quotes}
               /\ strategy = "credit_spread" =>
                    all = {CreditSpread(bars, v, w) : v \in TrendViews, w \in Credits}
               /\ strategy = "iron_condor" =>
                    all = {IronCondor(bars, f, w) : f \in BOOLEAN, w \in Credits}
<1> DEFINE all == Signals(strategy, bars, atr)
           A1 == {Orb(bars, v, atr) : v \in OrbViews}
           A2 == {VwapRevert(bars, v, atr) : v \in VwapViews}
           A3 == {EmaSupertrend(bars, v, atr) : v \in EmaViews}
           A4 == {FuturesTrend(bars, v, atr) : v \in TrendViews}
           A5 == {OptionBuy(bars, v, c, q) : v \in TrendViews, c \in Checks, q \in Quotes}
           A6 == {CreditSpread(bars, v, w) : v \in TrendViews, w \in Credits}
           A7 == {IronCondor(bars, f, w) : f \in BOOLEAN, w \in Credits}
<1>1. all = CASE strategy = "orb" -> A1
              [] strategy = "vwap_revert" -> A2
              [] strategy = "ema_supertrend" -> A3
              [] strategy = "futures_trend" -> A4
              [] strategy = "option_buy_directional" -> A5
              [] strategy = "credit_spread" -> A6
              [] strategy = "iron_condor" -> A7
  BY SMT DEF Signals
<1> HIDE DEF all, A1, A2, A3, A4, A5, A6, A7
<1>2. /\ strategy = "orb" => all = A1
      /\ strategy = "vwap_revert" => all = A2
      /\ strategy = "ema_supertrend" => all = A3
      /\ strategy = "futures_trend" => all = A4
      /\ strategy = "option_buy_directional" => all = A5
      /\ strategy = "credit_spread" => all = A6
      /\ strategy = "iron_condor" => all = A7
  BY <1>1, Zenon
<1>3. QED
  BY <1>2 DEF all, A1, A2, A3, A4, A5, A6, A7

\* Whatever a strategy sees, its signals are coherent.
LEMMA SignalsAreCoherent ==
    ASSUME NEW strategy \in RideStrategies \cup DerivativeStrategies, NEW bars \in Bars,
           NEW atr \in Ranges, NEW s \in Signals(strategy, bars, atr)
    PROVE  Proposed(s) /\ (strategy \in RideStrategies => OnSpot(s))
<1>1. CASE strategy = "orb"
  BY <1>1, SignalsAre, OrbIsCoherent
<1>2. CASE strategy = "vwap_revert"
  BY <1>2, SignalsAre, VwapRevertIsCoherent
<1>3. CASE strategy = "ema_supertrend"
  BY <1>3, SignalsAre, EmaSupertrendIsCoherent
<1>4. CASE strategy = "futures_trend"
  BY <1>4, SignalsAre, FuturesTrendIsCoherent
<1>5. CASE strategy = "option_buy_directional"
  <2>1. PICK v \in TrendViews, c \in Checks, q \in Quotes : s = OptionBuy(bars, v, c, q)
    BY <1>5, SignalsAre
  <2>2. s = Hold \/ s = LongOption(q)
    BY <2>1, Zenon DEF OptionBuy
  <2>3. QED
    BY <1>5, <2>2, LongOptionIsCoherent DEF Proposed, RideStrategies
<1>6. CASE strategy = "credit_spread"
  <2>1. PICK v \in TrendViews, w \in Credits : s = CreditSpread(bars, v, w)
    BY <1>6, SignalsAre
  <2>2. s = Hold \/ s = ShortSpread("spread", w)
    BY <2>1, Zenon DEF CreditSpread
  <2>3. QED
    BY <1>6, <2>2, ShortSpreadIsCoherent DEF Proposed, RideStrategies
<1>7. CASE strategy = "iron_condor"
  <2>1. PICK f \in BOOLEAN, w \in Credits : s = IronCondor(bars, f, w)
    BY <1>7, SignalsAre
  <2>2. s = Hold \/ s = ShortSpread("condor", w)
    BY <2>1, Zenon DEF IronCondor
  <2>3. QED
    BY <1>7, <2>2, ShortSpreadIsCoherent DEF Proposed, RideStrategies
<1>8. QED
  BY <1>1, <1>2, <1>3, <1>4, <1>5, <1>6, <1>7 DEF RideStrategies, DerivativeStrategies

\* The levels of a set of voters are finite, and so are those that count.
LEMMA LevelsAreFinite ==
    ASSUME NEW V, IsFiniteSet(V), NEW level, level = [i \in V |-> level[i]]
    PROVE  IsFiniteSet(Given({level[i] : i \in V}))
<1> DEFINE T == {level[i] : i \in V}
<1>1. level \in Surjection(V, T)
  BY DEF Surjection
<1>2. IsFiniteSet(T)
  <2> HIDE DEF T
  <2>1. QED
    BY <1>1, FS_Surjection
<1>3. Given(T) \in SUBSET T
  BY DEF Given
<1>4. QED
  <2> HIDE DEF T
  <2>1. IsFiniteSet(Given(T))
    BY <1>2, <1>3, FS_Subset
  <2>2. QED
    BY <2>1 DEF T

\* Signals of one side and one price merge into one: the nearest target, and
\* the nearest stop there is.
LEMMA MergeIsCoherent ==
    ASSUME NEW sigs, NEW V, IsFiniteSet(V), V # {}, V \subseteq Nat,
           NEW side \in {"BUY", "SELL"}, NEW price,
           \A i \in V : /\ Coherent(sigs[i]) /\ sigs[i].sl \in Int /\ sigs[i].tp # 0
                        /\ sigs[i].side = side /\ sigs[i].price = price
    PROVE  Coherent(Merge(sigs, V, side))
<1> DEFINE sls == Given({sigs[i].sl : i \in V})
           tps == Given({sigs[i].tp : i \in V})
           s == Merge(sigs, V, side)
           sl == IF sls = {} THEN NoLevel ELSE IF side = "BUY" THEN Max(sls) ELSE Min(sls)
           tp == IF tps = {} THEN NoLevel ELSE IF side = "BUY" THEN Min(tps) ELSE Max(tps)
<1>1. Min(V) \in V
  <2>1. \A i \in V : i \in Int
    OBVIOUS
  <2>2. QED
    BY <2>1, Extremes
<1>2. \E sort \in AllKinds : /\ s = [side |-> side, kind |-> sort, price |-> price, sl |-> sl, tp |-> tp]
                             /\ (sort \in {"cash", "future"} => price = Spot)
  <2>1. s = [side |-> side, kind |-> sigs[Min(V)].kind, price |-> sigs[Min(V)].price,
             sl |-> sl, tp |-> tp]
    BY Zenon DEF Merge
  <2>2. QED
    BY <1>1, <2>1 DEF Coherent
<1>3. price \in Nat \ {0}
  BY <1>1 DEF Coherent
<1>4. IsFiniteSet(sls) /\ IsFiniteSet(tps)
  <2> DEFINE f == [i \in V |-> sigs[i].sl]
             g == [i \in V |-> sigs[i].tp]
  <2>1. {f[i] : i \in V} = {sigs[i].sl : i \in V} /\ {g[i] : i \in V} = {sigs[i].tp : i \in V}
    OBVIOUS
  <2>2. f = [i \in V |-> f[i]] /\ g = [i \in V |-> g[i]]
    OBVIOUS
  <2> HIDE DEF f, g
  <2>3. IsFiniteSet(Given({f[i] : i \in V}))
    BY <2>2, LevelsAreFinite
  <2>4. IsFiniteSet(Given({g[i] : i \in V}))
    BY <2>2, LevelsAreFinite
  <2>5. QED
    BY <2>1, <2>3, <2>4
<1>5. \A x \in sls : x \in Int /\ (side = "BUY" => x < price) /\ (side = "SELL" => price < x)
  BY MarketAssumption DEF MarketAssumption, Given, Coherent
<1>6. \A x \in tps : x \in Int /\ (side = "BUY" => price < x) /\ (side = "SELL" => x < price)
  BY MarketAssumption DEF MarketAssumption, Given, Coherent
<1>7. tps # {}
  <2>1. sigs[Min(V)].tp \in Int /\ sigs[Min(V)].tp # 0
    BY <1>1 DEF Coherent
  <2>2. sigs[Min(V)].tp \in tps
    BY <1>1, <2>1, MarketAssumption DEF MarketAssumption, Given
  <2>3. QED
    BY <2>2
<1> HIDE DEF sls, tps, s
<1>8. tp \in tps
  BY <1>4, <1>6, <1>7, Extremes
<1>9. sl = NoLevel \/ sl \in sls
  BY <1>4, <1>5, Extremes
<1> HIDE DEF tp, sl
<1>10. sl = NoLevel \/ (sl \in Int /\ (side = "BUY" => sl < price) /\ (side = "SELL" => price < sl))
  BY <1>5, <1>9
<1>11. tp \in Int /\ (side = "BUY" => price < tp) /\ (side = "SELL" => tp < price)
  BY <1>6, <1>8
<1>12. PICK sort \in AllKinds :
         /\ s = [side |-> side, kind |-> sort, price |-> price, sl |-> sl, tp |-> tp]
         /\ (sort \in {"cash", "future"} => price = Spot)
  BY <1>2
<1>13. Coherent(s)
  BY <1>3, <1>10, <1>11, <1>12 DEF Coherent
<1>14. QED
  BY <1>13 DEF s

\* One ballot: what each strategy of a lineup gives.
LEMMA VotesAreProposed ==
    ASSUME NEW lineup \in Lineups, NEW bars \in Bars, NEW atr \in Ranges,
           NEW sigs \in VotesOf(Voices(lineup, bars, atr))
    PROVE  /\ DOMAIN sigs = 1..Len(lineup.enabled)
           /\ Len(lineup.enabled) \in Nat
           /\ \A i \in DOMAIN sigs :
                /\ Proposed(sigs[i])
                /\ lineup.enabled[i] \in RideStrategies => OnSpot(sigs[i])
<1> DEFINE sets == Voices(lineup, bars, atr)
           n == Len(lineup.enabled)
<1>1. lineup.enabled \in Seq(RideStrategies \cup DerivativeStrategies) /\ lineup.slow \in BOOLEAN
  BY GateAssumption, Zenon DEF GateAssumption
<1>2. n \in Nat /\ \A i \in 1..n : lineup.enabled[i] \in RideStrategies \cup DerivativeStrategies
  BY <1>1
<1>3. /\ DOMAIN sets = 1..n
      /\ \A i \in 1..n : sets[i] =
           IF lineup.slow
           THEN {MultiTimeframe(s, v) : s \in Signals(lineup.enabled[i], bars, atr), v \in SlowViews}
           ELSE Signals(lineup.enabled[i], bars, atr)
  BY DEF Voices
<1> HIDE DEF sets, n
<1>4. DOMAIN sigs = DOMAIN sets /\ \A i \in DOMAIN sets : sigs[i] \in sets[i]
  BY DEF VotesOf, sets
<1>5. ASSUME NEW i \in 1..n
      PROVE  Proposed(sigs[i]) /\ (lineup.enabled[i] \in RideStrategies => OnSpot(sigs[i]))
  <2>1. \E s \in Signals(lineup.enabled[i], bars, atr) : sigs[i] = s \/ sigs[i] = Hold
    <3>1. CASE ~lineup.slow
      BY <1>3, <1>4, <3>1
    <3>2. CASE lineup.slow
      <4>1. sigs[i] \in {MultiTimeframe(s, v) :
                           s \in Signals(lineup.enabled[i], bars, atr), v \in SlowViews}
        BY <1>3, <1>4, <3>2
      <4>2. QED
        BY <4>1 DEF MultiTimeframe
    <3>3. QED
      BY <3>1, <3>2
  <2>2. PICK s \in Signals(lineup.enabled[i], bars, atr) : sigs[i] = s \/ sigs[i] = Hold
    BY <2>1
  <2>3. Proposed(s) /\ (lineup.enabled[i] \in RideStrategies => OnSpot(s))
    BY <1>2, SignalsAreCoherent
  <2>4. QED
    BY <2>2, <2>3 DEF Proposed, OnSpot
<1>6. QED
  BY <1>2, <1>3, <1>4, <1>5 DEF n, sets

\* Those who vote for a side speak of one price, so that they can be merged.
LEMMA EnsembleIsCoherent ==
    ASSUME NEW lineup \in Lineups, NEW bars \in Bars, NEW atr \in Ranges,
           NEW sigs \in VotesOf(Voices(lineup, bars, atr))
    PROVE  LET s == Ensemble(sigs, lineup.minAgree)
           IN  s = Hold \/ Coherent(s)
<1> DEFINE n == Len(lineup.enabled)
<1>1. /\ DOMAIN sigs = 1..n /\ n \in Nat
      /\ \A i \in DOMAIN sigs : /\ Proposed(sigs[i])
                                /\ lineup.enabled[i] \in RideStrategies => OnSpot(sigs[i])
  BY VotesAreProposed
<1>2. /\ lineup.minAgree \in Nat \ {0}
      /\ n = 1 \/ \A i \in 1..n : lineup.enabled[i] \in RideStrategies
  BY GateAssumption, Zenon DEF GateAssumption
<1> HIDE DEF n
<1>3. ASSUME NEW side \in {"BUY", "SELL"},
             Cardinality(Voters(sigs, side)) >= lineup.minAgree
      PROVE  Coherent(Merge(sigs, Voters(sigs, side), side))
  <2> DEFINE V == Voters(sigs, side)
  <2>1. V \subseteq 1..n /\ V \subseteq Nat /\ IsFiniteSet(V)
    <3>1. V \in SUBSET (1..n)
      BY <1>1 DEF Voters
    <3>2. IsFiniteSet(1..n)
      BY <1>1, FS_Interval
    <3> HIDE DEF V
    <3>3. IsFiniteSet(V)
      BY <3>1, <3>2, FS_Subset
    <3>4. QED
      BY <1>1, <3>1, <3>3
  <2>2. V # {}
    <3>1. Cardinality({}) = 0
      BY FS_EmptySet
    <3> HIDE DEF V
    <3>2. CASE V = {}
      BY <1>2, <1>3, <3>1, <3>2 DEF V
    <3>3. QED
      BY <3>2
  <2>3. \A i \in V : /\ i \in 1..n /\ sigs[i].side = side
                     /\ Coherent(sigs[i]) /\ sigs[i].sl \in Int /\ sigs[i].tp # 0
                     /\ lineup.enabled[i] \in RideStrategies => sigs[i].price = Spot
    BY <1>1 DEF Voters, Proposed, OnSpot, Hold
  <2> HIDE DEF V
  <2>4. PICK price : \A i \in V : sigs[i].price = price
    <3>1. CASE n = 1
      <4>1. \A i \in V : i = 1
        BY <2>1, <3>1
      <4>2. QED
        BY <4>1
    <3>2. CASE \A i \in 1..n : lineup.enabled[i] \in RideStrategies
      BY <2>3, <3>2
    <3>3. QED
      BY <1>2, <3>1, <3>2
  <2>5. Coherent(Merge(sigs, V, side))
    BY <2>1, <2>2, <2>3, <2>4, MergeIsCoherent
  <2>6. QED
    BY <2>5 DEF V
<1> DEFINE buys == Voters(sigs, "BUY")
           sells == Voters(sigs, "SELL")
           s == Ensemble(sigs, lineup.minAgree)
           P == Cardinality(buys) >= lineup.minAgree /\ sells = {}
           Q == Cardinality(sells) >= lineup.minAgree /\ buys = {}
           bought == Merge(sigs, buys, "BUY")
           sold == Merge(sigs, sells, "SELL")
<1>4. s = CASE P -> bought [] Q -> sold [] OTHER -> Hold
  BY SMT DEF Ensemble
<1>5. \/ Cardinality(buys) >= lineup.minAgree /\ s = bought
      \/ Cardinality(sells) >= lineup.minAgree /\ s = sold
      \/ s = Hold
  <2> HIDE DEF P, Q, s, bought, sold
  <2>1. (P /\ s = bought) \/ (Q /\ s = sold) \/ s = Hold
    BY <1>4, SMT
  <2>2. QED
    BY <2>1, Zenon DEF P, Q
<1> HIDE DEF buys, sells
<1>6. QED
  BY <1>3, <1>5 DEF buys, sells, s

\* Whatever the strategies of a lineup saw and the ensemble made of it.
LEMMA OffersAreCoherent ==
    ASSUME NEW lineup \in Lineups, NEW s \in Ballots(lineup)
    PROVE  s = Hold \/ Coherent(s)
<1>1. PICK bars \in Bars, atr \in Ranges :
        s \in {Ensemble(sigs, lineup.minAgree) : sigs \in VotesOf(Voices(lineup, bars, atr))}
  BY DEF Ballots
<1>2. QED
  BY <1>1, EnsembleIsCoherent

-------------------------------------------------------------------------------
(* The book.                                                               *)

\* A total of naturals is one.
LEMMA TotalIsNatural ==
    ASSUME NEW S, IsFiniteSet(S), NEW F, F \in [S -> Nat]
    PROVE  Total(F, S) \in Nat
<1>1. PICK g : Adds(F, S, g) /\ Total(F, S) = g[S]
  BY TotalIs
<1> DEFINE Bad == {T \in SUBSET S : g[T] \notin Nat}
<1>2. ASSUME Bad # {}
      PROVE  FALSE
  <2>1. PICK T \in Bad : \A U \in Bad : ~(U \subseteq T /\ U # T)
    <3>1. Bad \in SUBSET (SUBSET S)
      OBVIOUS
    <3> HIDE DEF Bad
    <3>2. QED
      BY <3>1, <1>2, SmallestSubset
  <2>2. T # {} /\ Pick(T) \in T /\ g[T] = F[Pick(T)] + g[T \ {Pick(T)}] /\ T \ {Pick(T)} \in SUBSET S
    BY <1>1, <2>1, SumUnfolds
  <2>3. g[T \ {Pick(T)}] \in Nat
    BY <2>1, <2>2
  <2>4. F[Pick(T)] \in Nat
    BY <2>1, <2>2
  <2>5. QED
    BY <2>1, <2>2, <2>3, <2>4
<1>3. QED
  BY <1>1, <1>2

\* A total of naturals is at most as many times the largest.
LEMMA TotalIsBounded ==
    ASSUME NEW S, IsFiniteSet(S), NEW F, F \in [S -> Nat], NEW most \in Nat,
           \A x \in S : F[x] <= most
    PROVE  Total(F, S) \in Nat /\ Total(F, S) <= most * Cardinality(S)
<1>1. PICK g : Adds(F, S, g) /\ Total(F, S) = g[S]
  BY TotalIs
<1> DEFINE Bad == {T \in SUBSET S : ~(g[T] \in Nat /\ g[T] <= most * Cardinality(T))}
<1>2. \A T \in SUBSET S : IsFiniteSet(T) /\ Cardinality(T) \in Nat
  BY FS_Subset, FS_CardinalityType
<1>3. ASSUME Bad # {}
      PROVE  FALSE
  <2>1. PICK T \in Bad : \A U \in Bad : ~(U \subseteq T /\ U # T)
    <3>1. Bad \in SUBSET (SUBSET S)
      OBVIOUS
    <3> HIDE DEF Bad
    <3>2. QED
      BY <3>1, <1>3, SmallestSubset
  <2>2. T \in SUBSET S
    BY <2>1
  <2>3. T # {}
    <3>1. g[{}] = 0 /\ Cardinality({}) = 0
      BY <1>1, SumEmpty, FS_EmptySet
    <3>2. CASE T = {}
      <4>1. g[T] = 0 /\ Cardinality(T) = 0
        BY <3>1, <3>2
      <4>2. QED
        BY <2>1, <4>1
    <3>3. QED
      BY <3>2
  <2>4. PICK p \in T : p = Pick(T)
    BY <2>3, PickIsMember
  <2> DEFINE R == T \ {p}
  <2>5. R \in SUBSET S /\ R \notin Bad
    BY <2>1, <2>4
  <2>6. g[T] = F[p] + g[R]
    BY <1>1, <2>2, <2>3, <2>4, SumUnfolds
  <2>7. Cardinality(T) = Cardinality(R) + 1 /\ Cardinality(R) \in Nat
    BY <1>2, <2>2, <2>4, <2>5, FS_RemoveElement
  <2>8. g[R] \in Nat /\ g[R] <= most * Cardinality(R)
    BY <2>5
  <2> HIDE DEF R
  <2>9. most * Cardinality(T) = most * Cardinality(R) + most /\ most * Cardinality(R) \in Nat
    BY <2>7
  <2>10. F[p] \in Nat /\ F[p] <= most
    BY <2>2
  <2>11. g[T] \in Nat /\ g[T] <= most * Cardinality(T)
    BY <2>6, <2>8, <2>9, <2>10
  <2>12. QED
    BY <2>1, <2>11
<1>4. S \notin Bad
  BY <1>3
<1>5. QED
  BY <1>1, <1>4

\* An element less.
LEMMA TotalWithout ==
    ASSUME NEW S, IsFiniteSet(S), NEW F, F \in [S -> Int], NEW x \in S,
           NEW G, \A y \in S \ {x} : G[y] = F[y]
    PROVE  Total(F, S) = F[x] + Total(G, S \ {x})
<1>1. PICK f : Adds(F, S, f) /\ Total(F, S) = f[S]
  BY TotalIs
<1>2. IsFiniteSet(S \ {x})
  BY FS_RemoveElement
<1>3. PICK g : Adds(G, S \ {x}, g) /\ Total(G, S \ {x}) = g[S \ {x}]
  BY <1>2, TotalIs
<1>4. f[S] = F[x] + f[S \ {x}]
  BY <1>1, SumTakesOff
<1>5. f[S \ {x}] = g[S \ {x}]
  <2> DEFINE R == S \ {x}
  <2>1. R \in SUBSET (S \cap R)
    OBVIOUS
  <2>2. \A y \in R : F[y] = G[y]
    OBVIOUS
  <2>3. Adds(G, R, g) /\ Adds(F, S, f)
    BY <1>1, <1>3
  <2> HIDE DEF R
  <2>4. f[R] = g[R]
    BY <2>1, <2>2, <2>3, SumsAgree
  <2>5. QED
    BY <2>4 DEF R
<1>6. QED
  BY <1>1, <1>3, <1>4, <1>5

\* The risk and the gain of any book.
RiskOf(b) == FoldSet(LAMBDA p, sum : b[p].risk + sum, 0, DOMAIN b)
GainOf(b) == FoldSet(LAMBDA p, sum : b[p].gain + sum, 0, DOMAIN b)
NotionalOf(b) == FoldSet(LAMBDA p, sum : b[p].notional + sum, 0, DOMAIN b)

Risks(b) == [p \in DOMAIN b |-> b[p].risk]
Gains(b) == [p \in DOMAIN b |-> b[p].gain]
Notionals(b) == [p \in DOMAIN b |-> b[p].notional]

IsBook(b) == b = [p \in DOMAIN b |-> b[p]]

Sound(b) ==
    /\ IsFiniteSet(DOMAIN b) /\ IsBook(b)
    /\ \A p \in DOMAIN b : /\ b[p].risk \in 0..PerTrade /\ b[p].gain \in Nat
                          /\ b[p].notional \in Nat

LEMMA PerTradeIsNatural == PerTrade \in Nat
<1>1. Capital * PerTradePct \in Nat
  BY CapsAssumption, Products DEF CapsAssumption
<1>2. QED
  BY <1>1, QuotientOfNaturals DEF PerTrade

LEMMA RiskIsTotal ==
    ASSUME NEW b, IsFiniteSet(DOMAIN b)
    PROVE  RiskOf(b) = Total(Risks(b), DOMAIN b)
<1> DEFINE S == DOMAIN b
           F == Risks(b)
           Sums(g) == g = [T \in SUBSET S |->
                             IF T = {} THEN 0
                             ELSE b[CHOOSE x \in T : TRUE].risk + g[T \ {CHOOSE x \in T : TRUE}]]
           h == CHOOSE g : Sums(g)
<1>1. RiskOf(b) = h[S]
  BY DEF RiskOf, FoldSet, MapThenFoldSet
<1>2. \A g : Sums(g) <=> Adds(F, S, g)
  BY PickIsMember DEF Adds, Pick, Risks
<1>3. IsFiniteSet(S)
  OBVIOUS
<1> HIDE DEF S, F
<1>4. Adds(F, S, h)
  <2>1. PICK g : Adds(F, S, g)
    BY <1>3, SumExists
  <2> HIDE DEF Sums
  <2>2. Sums(g)
    BY <1>2, <2>1
  <2>3. Sums(h)
    BY <2>2
  <2>4. QED
    BY <1>2, <2>3
<1>5. PICK g : Adds(F, S, g) /\ Total(F, S) = g[S]
  BY <1>3, TotalIs
<1>6. h[S] = g[S]
  BY <1>3, <1>4, <1>5, SumsAgree
<1>7. QED
  BY <1>1, <1>5, <1>6 DEF S, F

LEMMA GainIsTotal ==
    ASSUME NEW b, IsFiniteSet(DOMAIN b)
    PROVE  GainOf(b) = Total(Gains(b), DOMAIN b)
<1> DEFINE S == DOMAIN b
           F == Gains(b)
           Sums(g) == g = [T \in SUBSET S |->
                             IF T = {} THEN 0
                             ELSE b[CHOOSE x \in T : TRUE].gain + g[T \ {CHOOSE x \in T : TRUE}]]
           h == CHOOSE g : Sums(g)
<1>1. GainOf(b) = h[S]
  BY DEF GainOf, FoldSet, MapThenFoldSet
<1>2. \A g : Sums(g) <=> Adds(F, S, g)
  BY PickIsMember DEF Adds, Pick, Gains
<1>3. IsFiniteSet(S)
  OBVIOUS
<1> HIDE DEF S, F
<1>4. Adds(F, S, h)
  <2>1. PICK g : Adds(F, S, g)
    BY <1>3, SumExists
  <2> HIDE DEF Sums
  <2>2. Sums(g)
    BY <1>2, <2>1
  <2>3. Sums(h)
    BY <2>2
  <2>4. QED
    BY <1>2, <2>3
<1>5. PICK g : Adds(F, S, g) /\ Total(F, S) = g[S]
  BY <1>3, TotalIs
<1>6. h[S] = g[S]
  BY <1>3, <1>4, <1>5, SumsAgree
<1>7. QED
  BY <1>1, <1>5, <1>6 DEF S, F

LEMMA NotionalIsTotal ==
    ASSUME NEW b, IsFiniteSet(DOMAIN b)
    PROVE  NotionalOf(b) = Total(Notionals(b), DOMAIN b)
<1> DEFINE S == DOMAIN b
           F == Notionals(b)
           Sums(g) == g = [T \in SUBSET S |->
                             IF T = {} THEN 0
                             ELSE b[CHOOSE x \in T : TRUE].notional + g[T \ {CHOOSE x \in T : TRUE}]]
           h == CHOOSE g : Sums(g)
<1>1. NotionalOf(b) = h[S]
  BY DEF NotionalOf, FoldSet, MapThenFoldSet
<1>2. \A g : Sums(g) <=> Adds(F, S, g)
  BY PickIsMember DEF Adds, Pick, Notionals
<1>3. IsFiniteSet(S)
  OBVIOUS
<1> HIDE DEF S, F
<1>4. Adds(F, S, h)
  <2>1. PICK g : Adds(F, S, g)
    BY <1>3, SumExists
  <2> HIDE DEF Sums
  <2>2. Sums(g)
    BY <1>2, <2>1
  <2>3. Sums(h)
    BY <2>2
  <2>4. QED
    BY <1>2, <2>3
<1>5. PICK g : Adds(F, S, g) /\ Total(F, S) = g[S]
  BY <1>3, TotalIs
<1>6. h[S] = g[S]
  BY <1>3, <1>4, <1>5, SumsAgree
<1>7. QED
  BY <1>1, <1>5, <1>6 DEF S, F

\* No position risks more than the cap per trade.
LEMMA BookIsBounded ==
    ASSUME NEW b, Sound(b)
    PROVE  /\ Cardinality(DOMAIN b) \in Nat
           /\ RiskOf(b) \in Nat /\ RiskOf(b) <= PerTrade * Cardinality(DOMAIN b)
           /\ GainOf(b) \in Nat /\ NotionalOf(b) \in Nat
<1> DEFINE S == DOMAIN b
<1>1. /\ IsFiniteSet(S)
      /\ \A p \in S : b[p].risk \in 0..PerTrade /\ b[p].gain \in Nat /\ b[p].notional \in Nat
  BY DEF Sound
<1>2. /\ Risks(b) \in [S -> Nat] /\ \A p \in S : Risks(b)[p] <= PerTrade
      /\ Gains(b) \in [S -> Nat] /\ Notionals(b) \in [S -> Nat]
  BY <1>1, PerTradeIsNatural DEF Risks, Gains, Notionals
<1>3. PerTrade \in Nat
  BY PerTradeIsNatural
<1>4. /\ RiskOf(b) = Total(Risks(b), S) /\ GainOf(b) = Total(Gains(b), S)
      /\ NotionalOf(b) = Total(Notionals(b), S)
  BY <1>1, RiskIsTotal, GainIsTotal, NotionalIsTotal
<1>5. Total(Risks(b), S) \in Nat /\ Total(Risks(b), S) <= PerTrade * Cardinality(S)
  BY <1>1, <1>2, <1>3, TotalIsBounded
<1>6. Total(Gains(b), S) \in Nat /\ Total(Notionals(b), S) \in Nat
  BY <1>1, <1>2, TotalIsNatural
<1>7. Cardinality(S) \in Nat
  BY <1>1, FS_CardinalityType
<1>8. QED
  BY <1>4, <1>5, <1>6, <1>7

\* Without a position.
LEMMA BookWithout ==
    ASSUME NEW b, Sound(b), NEW x \in DOMAIN b,
           NEW c, DOMAIN c = DOMAIN b \ {x}, IsBook(c),
           \A p \in DOMAIN c : c[p] = b[p]
    PROVE  /\ Sound(c)
           /\ Cardinality(DOMAIN b) = Cardinality(DOMAIN c) + 1
           /\ RiskOf(b) = b[x].risk + RiskOf(c)
<1>1. IsFiniteSet(DOMAIN b)
  BY DEF Sound
<1>2. IsFiniteSet(DOMAIN c) /\ Cardinality(DOMAIN b) = Cardinality(DOMAIN c) + 1
  <2>1. IsFiniteSet(DOMAIN b \ {x}) /\ Cardinality(DOMAIN b \ {x}) = Cardinality(DOMAIN b) - 1
    BY <1>1, FS_RemoveElement
  <2>2. Cardinality(DOMAIN b) \in Nat
    BY <1>1, FS_CardinalityType
  <2>3. QED
    BY <2>1, <2>2
<1>3. Sound(c)
  BY <1>2 DEF Sound
<1>4. Risks(b) \in [DOMAIN b -> Int]
  BY PerTradeIsNatural DEF Sound, Risks
<1>5. (\A p \in DOMAIN b \ {x} : Risks(c)[p] = Risks(b)[p]) /\ Risks(b)[x] = b[x].risk
  BY DEF Risks
<1>6. Total(Risks(b), DOMAIN b) = b[x].risk + Total(Risks(c), DOMAIN b \ {x})
  BY <1>1, <1>4, <1>5, TotalWithout
<1>7. QED
  BY <1>1, <1>2, <1>3, <1>6, RiskIsTotal

\* With one more.
LEMMA BookWith ==
    ASSUME NEW b, Sound(b), NEW x, x \notin DOMAIN b,
           NEW position, position.risk \in 0..PerTrade, position.gain \in Nat,
           position.notional \in Nat,
           NEW c, c = [p \in DOMAIN b \cup {x} |-> IF p = x THEN position ELSE b[p]]
    PROVE  /\ Sound(c)
           /\ Cardinality(DOMAIN c) = Cardinality(DOMAIN b) + 1
           /\ RiskOf(c) = position.risk + RiskOf(b)
<1>1. /\ DOMAIN c = DOMAIN b \cup {x} /\ x \in DOMAIN c /\ c[x] = position
      /\ \A p \in DOMAIN b : c[p] = b[p]
  OBVIOUS
<1>2. IsFiniteSet(DOMAIN c)
  BY <1>1, FS_AddElement DEF Sound
<1>3. Sound(c)
  BY <1>1, <1>2 DEF Sound, IsBook
<1>4. DOMAIN b = DOMAIN c \ {x} /\ IsBook(b)
  BY <1>1 DEF Sound
<1>5. /\ Cardinality(DOMAIN c) = Cardinality(DOMAIN b) + 1
      /\ RiskOf(c) = c[x].risk + RiskOf(b)
  BY <1>1, <1>3, <1>4, BookWithout
<1>6. QED
  BY <1>1, <1>3, <1>5

\* The empty book.
LEMMA EmptyBook ==
    /\ Sound(NoBook) /\ DOMAIN NoBook = {} /\ Cardinality(DOMAIN NoBook) = 0
    /\ RiskOf(NoBook) = 0
<1>1. DOMAIN NoBook = {} /\ IsFiniteSet({}) /\ Cardinality({}) = 0
  BY FS_EmptySet DEF NoBook
<1>2. Sound(NoBook)
  BY <1>1 DEF Sound, IsBook, NoBook
<1>3. RiskOf(NoBook) \in Nat /\ RiskOf(NoBook) <= PerTrade * 0
  BY <1>1, <1>2, BookIsBounded
<1>4. PerTrade * 0 = 0
  BY PerTradeIsNatural
<1>5. QED
  BY <1>1, <1>2, <1>3, <1>4

-------------------------------------------------------------------------------
(* The size.                                                               *)

LEMMA UnitsOfASignal ==
    ASSUME NEW s, Coherent(s), Sizeable(s)
    PROVE  /\ LotOf(s) \in Nat \ {0} /\ RiskPerShare(s) \in Nat \ {0}
           /\ Outlay(s) \in Nat \ {0} /\ CashPerShare(s) \in Int
<1> USE GateAssumption, MarketAssumption DEF GateAssumption, MarketAssumption
<1>1. s.price \in Nat \ {0} /\ s.sl \in Int /\ RiskPerShare(s) > 0
  BY DEF Coherent, Sizeable
<1>2. LotOf(s) \in Nat \ {0}
  BY DEF LotOf
<1>3. RiskPerShare(s) \in Nat \ {0}
  <2>1. \A n \in Int : Abs(n) \in Int
    BY DEF Abs
  <2>2. s.price - s.sl \in Int
    BY <1>1
  <2>3. RiskPerShare(s) \in Int
    BY <2>1, <2>2 DEF RiskPerShare
  <2>4. QED
    BY <1>1, <2>3
<1>4. CASE Credit(s)
  <2>1. Outlay(s) = Wing - s.price
    BY <1>4, SMT DEF Outlay, Credit
  <2>2. s.price < Wing
    BY <1>4 DEF Sizeable
  <2>3. Outlay(s) \in Nat \ {0}
    BY <1>1, <2>1, <2>2
  <2>4. CashPerShare(s) \in Int
    BY <1>1, <2>3 DEF CashPerShare
  <2>5. QED
    BY <1>2, <1>3, <2>3, <2>4
<1>5. CASE ~Credit(s)
  <2>1. Outlay(s) = IF s.kind = "future" THEN (s.price * MarginPct) \div 100 ELSE s.price
    BY <1>5, SMT DEF Outlay
  <2>2. s.kind = "future" => s.price = Spot
    BY DEF Coherent
  <2>3. (Spot * MarginPct) \div 100 \in Nat \ {0}
    <3>1. Spot * MarginPct \in Nat
      BY Products
    <3>2. QED
      BY <3>1
  <2>4. Outlay(s) \in Nat \ {0}
    BY <1>1, <2>1, <2>2, <2>3
  <2>5. QED
    BY <1>2, <1>3, <1>5, <2>4 DEF CashPerShare
<1>6. QED
  BY <1>4, <1>5

\* The least of the caps is one of them.
LEMMA CapsHaveALeast ==
    ASSUME NEW s, Coherent(s), Sizeable(s), NEW amount \in Nat
    PROVE  /\ Min(Caps(s, amount)) \in Caps(s, amount)
           /\ \A x \in Caps(s, amount) : x \in Nat /\ Min(Caps(s, amount)) <= x
<1> DEFINE a == PerTrade \div RiskPerShare(s)
           b == PositionCap \div Outlay(s)
           c == amount \div CashPerShare(s)
           S == Caps(s, amount)
<1>1. /\ RiskPerShare(s) \in Nat \ {0} /\ Outlay(s) \in Nat \ {0} /\ CashPerShare(s) \in Int
      /\ PerTrade \in Nat /\ PositionCap \in Nat
  BY UnitsOfASignal, GateAssumption, PerTradeIsNatural DEF GateAssumption
<1>2. a \in Nat /\ b \in Nat /\ (CashPerShare(s) > 0 => c \in Nat)
  <2>1. a \in Nat
    BY <1>1, QuotientOfNaturals
  <2>2. b \in Nat
    BY <1>1, QuotientOfNaturals
  <2>3. ASSUME CashPerShare(s) > 0
        PROVE  c \in Nat
    <3>1. CashPerShare(s) \in Nat \ {0}
      BY <1>1, <2>3
    <3>2. QED
      BY <3>1, QuotientOfNaturals
  <2>4. QED
    BY <2>1, <2>2, <2>3
<1>3. S = {a, b} \cup (IF CashPerShare(s) > 0 THEN {c} ELSE {})
  BY Zenon DEF Caps
<1> HIDE DEF a, b, c, S
<1>4. IsFiniteSet({a, b})
  BY Pairs, Zenon
<1>5. IsFiniteSet({a, b} \cup {c})
  BY <1>4, FS_AddElement
<1>6. IsFiniteSet(S) /\ S # {} /\ \A x \in S : x \in Nat
  <2>1. S = {a, b} \/ S = {a, b} \cup {c}
    BY <1>3
  <2>2. IsFiniteSet(S)
    BY <1>4, <1>5, <2>1, Zenon
  <2>3. QED
    BY <1>2, <1>3, <2>2
<1>7. \A x \in S : x \in Int
  BY <1>6
<1>8. Min(S) \in S /\ \A x \in S : Min(S) <= x
  BY <1>6, <1>7, Extremes
<1>9. QED
  BY <1>6, <1>8 DEF S

\* A number of units no larger than a quotient fits, one larger does not.
LEMMA QuotientFits ==
    ASSUME NEW a \in Nat, NEW b \in Nat \ {0}, NEW n \in Nat
    PROVE  n <= a \div b <=> n * b <= a
<1>1. PICK q \in Int : q = a \div b
  BY Quotient
<1>2. q * b <= a /\ a < q * b + b
  BY <1>1, Quotient
<1>3. n <= q => n * b <= a
  <2>1. n <= q => n * b <= q * b
    BY ProductsGrow
  <2>2. q * b \in Int /\ n * b \in Int
    OBVIOUS
  <2>3. QED
    BY <1>2, <2>1, <2>2
<1>4. n > q => n * b > a
  <2>1. q + 1 <= n => (q + 1) * b <= n * b
    BY ProductsGrow
  <2>2. (q + 1) * b = q * b + b
    OBVIOUS
  <2>3. q * b \in Int /\ n * b \in Int
    OBVIOUS
  <2>4. QED
    BY <1>2, <2>1, <2>2, <2>3
<1>5. QED
  BY <1>1, <1>3, <1>4

\* The caps allow a number of units, and no more.
LEMMA SizeIsLargest ==
    ASSUME NEW s, Coherent(s), Sizeable(s), NEW amount \in Nat
    PROVE  LET Allowed(n) == /\ n * RiskPerShare(s) <= PerTrade
                             /\ n * Outlay(s) <= PositionCap
                             /\ n * CashPerShare(s) <= amount
               qty == Size(s, amount)
           IN  /\ qty \in Nat /\ qty % LotOf(s) = 0 /\ Allowed(qty)
               /\ \A more \in 1..LotOf(s) :
                    (qty + more) % LotOf(s) = 0 => ~Allowed(qty + more)
<1> DEFINE Allowed(n) == /\ n * RiskPerShare(s) <= PerTrade
                         /\ n * Outlay(s) <= PositionCap
                         /\ n * CashPerShare(s) <= amount
           qty == Size(s, amount)
           least == Min(Caps(s, amount))
           unit == LotOf(s)
           k == least \div unit
<1>1. /\ unit \in Nat \ {0} /\ RiskPerShare(s) \in Nat \ {0}
      /\ Outlay(s) \in Nat \ {0} /\ CashPerShare(s) \in Int
      /\ PerTrade \in Nat /\ PositionCap \in Nat
  BY UnitsOfASignal, GateAssumption, PerTradeIsNatural DEF GateAssumption
<1>2. least \in Caps(s, amount) /\ \A x \in Caps(s, amount) : x \in Nat /\ least <= x
  BY CapsHaveALeast
<1>3. qty = k * unit
  BY DEF Size
<1>4. ASSUME NEW n \in Nat
      PROVE  Allowed(n) <=> n <= least
  <2>1. n * RiskPerShare(s) <= PerTrade <=> n <= PerTrade \div RiskPerShare(s)
    BY <1>1, QuotientFits
  <2>2. n * Outlay(s) <= PositionCap <=> n <= PositionCap \div Outlay(s)
    BY <1>1, QuotientFits
  <2>3. CASE CashPerShare(s) > 0
    <3>1. CashPerShare(s) \in Nat \ {0}
      BY <1>1, <2>3
    <3>2. n * CashPerShare(s) <= amount <=> n <= amount \div CashPerShare(s)
      BY <3>1, QuotientFits
    <3>3. Caps(s, amount) = {PerTrade \div RiskPerShare(s), PositionCap \div Outlay(s),
                             amount \div CashPerShare(s)}
      BY <2>3 DEF Caps
    <3>4. QED
      BY <1>2, <2>1, <2>2, <3>2, <3>3
  <2>4. CASE ~(CashPerShare(s) > 0)
    <3>1. n * CashPerShare(s) <= amount
      <4>1. CashPerShare(s) <= 0
        BY <1>1, <2>4
      <4>2. CashPerShare(s) * n <= 0 * n
        BY <1>1, <4>1, ProductsGrow
      <4>3. CashPerShare(s) * n = n * CashPerShare(s) /\ n * CashPerShare(s) \in Int /\ 0 * n = 0
        BY <1>1
      <4>4. QED
        BY <4>2, <4>3
    <3>2. Caps(s, amount) = {PerTrade \div RiskPerShare(s), PositionCap \div Outlay(s)}
      BY <2>4 DEF Caps
    <3>3. QED
      BY <1>2, <2>1, <2>2, <3>1, <3>2
  <2>5. QED
    BY <2>3, <2>4
<1>5. least \in Nat
  BY <1>2
<1> HIDE DEF Allowed, qty, least, unit
<1>6. k \in Nat /\ k * unit <= least /\ least < k * unit + unit
  <2>1. k \in Nat
    BY <1>1, <1>5, QuotientOfNaturals
  <2>2. QED
    BY <1>1, <1>5, <2>1, Quotient
<1> HIDE DEF k
<1>7. qty \in Nat /\ qty % unit = 0
  <2>1. k * unit \in Nat
    BY <1>1, <1>6, Products
  <2>2. (k * unit) % unit = 0
    BY <1>1, <1>6, Multiple
  <2>3. QED
    BY <1>3, <2>1, <2>2
<1>8. Allowed(qty)
  BY <1>3, <1>4, <1>6, <1>7
<1>9. ASSUME NEW more \in 1..unit, (qty + more) % unit = 0
      PROVE  ~Allowed(qty + more)
  <2>1. more = unit
    BY <1>1, <1>3, <1>6, <1>9, NextMultiple
  <2>2. qty + more \in Nat /\ ~(qty + more <= least)
    BY <1>1, <1>3, <1>5, <1>6, <1>7, <2>1
  <2>3. QED
    BY <1>4, <2>2
<1>10. QED
  BY <1>7, <1>8, <1>9 DEF Allowed, qty, unit

-------------------------------------------------------------------------------
(* The gate.                                                               *)

Offered == \A s \in offers : s = Hold \/ Coherent(s)

Configured == began \in Nat /\ target \in Nat

BookKept == Sound(book) /\ Cardinality(DOMAIN book) <= OpenCap

Counted == realized \in Int /\ hidden \in Nat /\ trades \in Nat

Decided ==
    \/ order = NoOrder
    \/ /\ Coherent(order.signal) /\ Sizeable(order.signal) /\ order.cash \in Nat
       /\ order.qty = Size(order.signal, order.cash)
       /\ order.qty >= LotOf(order.signal)

GateInv ==
    /\ Offered /\ Configured /\ BookKept /\ Counted /\ Decided
    /\ DailyCapPct > 0 => DayLossBounded

LEMMA RiskOfBook ==
    /\ OpenRisk = RiskOf(book) /\ OpenGain = GainOf(book)
    /\ OpenNotional = NotionalOf(book)
BY DEF OpenRisk, OpenGain, OpenNotional, RiskOf, GainOf, NotionalOf

LEMMA RiskOfNextBook == OpenRisk' = RiskOf(book')
BY DEF OpenRisk, RiskOf, FoldSet, MapThenFoldSet

\* What a full book risks.
LEMMA CapsCover ==
    ASSUME NEW b, Sound(b), Cardinality(DOMAIN b) <= OpenCap
    PROVE  /\ RiskOf(b) \in Nat /\ 100 * RiskOf(b) <= DailyCapPct * Capital
           /\ GainOf(b) \in Nat /\ NotionalOf(b) \in Nat
<1>1. /\ PerTrade \in Nat /\ OpenCap \in Nat /\ DailyCapPct \in Nat /\ PerTradePct \in Nat
      /\ Capital \in Nat /\ PerTradePct * OpenCap <= DailyCapPct
  BY CapsAssumption, PerTradeIsNatural DEF CapsAssumption
<1>2. PICK n \in Nat : n = Cardinality(DOMAIN b)
  BY BookIsBounded
<1>3. /\ RiskOf(b) \in Nat /\ RiskOf(b) <= PerTrade * n /\ GainOf(b) \in Nat
      /\ NotionalOf(b) \in Nat
  BY <1>2, BookIsBounded
<1>4. PerTrade * n <= PerTrade * OpenCap
  <2>1. n * PerTrade <= OpenCap * PerTrade
    BY <1>1, <1>2, ProductsGrow
  <2>2. n * PerTrade = PerTrade * n /\ OpenCap * PerTrade = PerTrade * OpenCap
    BY <1>1, <1>2
  <2>3. QED
    BY <2>1, <2>2
<1>5. 100 * (PerTrade * OpenCap) <= DailyCapPct * Capital
  <2>1. PICK all \in Nat : all = Capital * PerTradePct
    BY <1>1, Products
  <2>2. PICK q \in Nat : q = all \div 100 /\ 100 * q <= all
    BY <2>1
  <2>3. PerTrade = q
    BY <2>1, <2>2 DEF PerTrade
  <2>4. 100 * q * OpenCap <= all * OpenCap
    BY <1>1, <2>1, <2>2, ProductsGrow
  <2>5. all * OpenCap = (PerTradePct * OpenCap) * Capital
    BY <1>1, <2>1
  <2>6. PICK pct \in Nat : pct = PerTradePct * OpenCap
    BY <1>1, Products
  <2>7. pct * Capital <= DailyCapPct * Capital
    BY <1>1, <2>6, ProductsGrow
  <2>8. 100 * q * OpenCap = 100 * (PerTrade * OpenCap)
    BY <1>1, <2>2, <2>3
  <2>9. PICK a \in Int, c \in Int, d \in Int :
          /\ a = 100 * (PerTrade * OpenCap) /\ c = all * OpenCap /\ d = DailyCapPct * Capital
    BY <1>1, <2>1, Products
  <2>10. a <= c /\ c <= d
    BY <2>4, <2>5, <2>6, <2>7, <2>8, <2>9
  <2>11. QED
    BY <2>9, <2>10
<1>6. PICK most \in Nat : most = PerTrade * OpenCap
  BY <1>1, Products
<1>7. PICK few \in Nat : few = PerTrade * n
  BY <1>1, <1>2, Products
<1>8. PICK d \in Nat : d = DailyCapPct * Capital
  BY <1>1, Products
<1>9. PICK risk \in Nat : risk = RiskOf(b)
  BY <1>3
<1>10. risk <= few /\ few <= most /\ 100 * most <= d
  BY <1>3, <1>4, <1>5, <1>6, <1>7, <1>8, <1>9
<1>11. 100 * risk <= d
  BY <1>10
<1>12. QED
  BY <1>3, <1>8, <1>9, <1>11

\* The unrealised profit is no worse than all the stops, and what the gate
\* sees of it no worse than what it is.
LEMMA UnrealisedIsBounded ==
    ASSUME BookKept, NEW u \in Unrealised
    PROVE  u \in Int /\ u >= -OpenRisk /\ Seen(u) \in Int /\ Seen(u) >= u
<1>1. OpenRisk \in Nat /\ OpenGain \in Nat /\ OpenNotional \in Nat
  BY CapsCover, RiskOfBook DEF BookKept
<1>2. u = -OpenRisk \/ u = 0 \/ u = OpenGain
  BY DEF Unrealised
<1>3. QED
  BY <1>1, <1>2 DEF Seen

\* What the bound of the day is made of: the caps in hundredths, and tolls.
LEMMA BoundIsNatural ==
    ASSUME Configured
    PROVE  /\ Divisor \in Nat \ {0} /\ DailyCapPct * Divisor \in Nat /\ DailyCapPct * Capital \in Nat
           /\ DailyCapPct * (Divisor + Capital) = DailyCapPct * Divisor + DailyCapPct * Capital
           /\ OpenCap * MaxToll \in Nat /\ MaxToll \in Nat
           /\ (OpenCap + 1) * MaxToll = OpenCap * MaxToll + MaxToll
<1>1. DailyCapPct \in Nat /\ Capital \in Nat /\ OpenCap \in Nat /\ MaxToll \in Nat
  BY CapsAssumption, GateAssumption DEF CapsAssumption, GateAssumption
<1>2. Divisor \in Nat \ {0}
  BY DEF Configured, Divisor
<1>3. DailyCapPct * Divisor \in Nat /\ DailyCapPct * Capital \in Nat /\ OpenCap * MaxToll \in Nat
  BY <1>1, <1>2, Products
<1>4. PICK d \in Nat : d = Divisor
  BY <1>2
<1>5. /\ DailyCapPct * (d + Capital) = DailyCapPct * d + DailyCapPct * Capital
      /\ (OpenCap + 1) * MaxToll = OpenCap * MaxToll + MaxToll
  BY <1>1
<1>6. QED
  BY <1>1, <1>2, <1>3, <1>4, <1>5

\* The bound of the day for a divisor, a risk, tolls, a result and a hidden
\* profit; and in scalars.
Bounded(divisor, risk, tolls, r, h) ==
    100 * (risk + tolls - r)
      < DailyCapPct * (divisor + Capital) + 100 * (h + (OpenCap + 1) * MaxToll)

LEMMA BoundOfTheDay ==
    DayLossBounded <=>
      Bounded(Divisor, OpenRisk, Cardinality(DOMAIN book) * MaxToll, realized, hidden)
BY Zenon DEF DayLossBounded, Bounded

\* It is e + c + 100 * (h + t + k) for the two percentages, a full book's tolls
\* and one more.
IsBound(e, c, t, k) ==
    /\ e = DailyCapPct * Divisor /\ c = DailyCapPct * Capital /\ t = OpenCap * MaxToll
    /\ k = MaxToll

InScalars(e, c, t, k) ==
    \A risk, tolls, r, h \in Int :
      Bounded(Divisor, risk, tolls, r, h)
        <=> 100 * (risk + tolls - r) < e + c + 100 * (h + t + k)

LEMMA BoundInScalars ==
    ASSUME Configured
    PROVE  \E e, c, t, k \in Nat : IsBound(e, c, t, k) /\ InScalars(e, c, t, k)
<1>1. PICK e \in Nat, c \in Nat, t \in Nat, k \in Nat :
        /\ e = DailyCapPct * Divisor /\ c = DailyCapPct * Capital /\ t = OpenCap * MaxToll
        /\ k = MaxToll
  BY BoundIsNatural
<1>2. PICK x \in Nat : x = DailyCapPct * (Divisor + Capital) /\ x = e + c
  BY <1>1, BoundIsNatural
<1>3. PICK y \in Nat : y = (OpenCap + 1) * MaxToll /\ y = t + k
  BY <1>1, BoundIsNatural
<1>4. ASSUME NEW risk \in Int, NEW tolls \in Int, NEW r \in Int, NEW h \in Int
      PROVE  Bounded(Divisor, risk, tolls, r, h)
               <=> 100 * (risk + tolls - r) < e + c + 100 * (h + t + k)
  <2>1. Bounded(Divisor, risk, tolls, r, h) <=> 100 * (risk + tolls - r) < x + 100 * (h + y)
    BY <1>2, <1>3, Zenon DEF Bounded
  <2>2. x = e + c /\ y = t + k
    BY <1>2, <1>3
  <2>3. QED
    BY <2>1, <2>2
<1>5. IsBound(e, c, t, k) /\ InScalars(e, c, t, k)
  BY <1>1, <1>4 DEF IsBound, InScalars
<1>6. QED
  BY <1>5, Zenon

LEMMA GateStarts == GateInit => GateInv
<1> SUFFICES ASSUME GateInit
             PROVE  GateInv
  OBVIOUS
<1>1. Offered
  BY OffersAreCoherent DEF GateInit, Offered
<1>2. BookKept
  <2>1. OpenCap >= 0
    BY CapsAssumption DEF CapsAssumption
  <2>2. QED
    BY <2>1, EmptyBook DEF GateInit, BookKept
<1>3. Counted /\ Decided
  BY DEF GateInit, Counted, Decided
<1>4. Configured
  BY GateAssumption DEF GateInit, Configured, GateAssumption
<1>5. ASSUME DailyCapPct > 0
      PROVE  DayLossBounded
  <2>1. /\ OpenRisk = 0 /\ realized = 0 /\ hidden = 0 /\ Cardinality(DOMAIN book) = 0
    BY RiskOfBook, EmptyBook DEF GateInit
  <2>2. PICK e \in Nat, c \in Nat, t \in Nat, k \in Nat :
          IsBound(e, c, t, k) /\ InScalars(e, c, t, k)
    BY <1>4, BoundInScalars
  <2>3. e > 0
    <3>1. DailyCapPct \in Nat \ {0} /\ Divisor \in Nat \ {0}
      BY <1>4, <1>5, BoundIsNatural, CapsAssumption DEF CapsAssumption
    <3>2. QED
      BY <2>2, <3>1 DEF IsBound
  <2>4. Cardinality(DOMAIN book) * MaxToll = 0
    BY <2>1, <2>2 DEF IsBound
  <2>5. 100 * (0 + 0 - 0) < e + c + 100 * (0 + t + k)
    BY <2>3
  <2>6. Bounded(Divisor, 0, 0, 0, 0)
    BY <2>2, <2>5 DEF InScalars
  <2>7. QED
    BY <2>1, <2>4, <2>6, BoundOfTheDay, Zenon
<1>6. QED
  BY <1>1, <1>2, <1>3, <1>4, <1>5 DEF GateInv

\* A new position risks no more than the cap per trade, and may gain.
LEMMA PositionIsSound ==
    ASSUME NEW s, Coherent(s), Sizeable(s), NEW amount \in Nat
    PROVE  /\ Size(s, amount) * RiskPerShare(s) \in 0..PerTrade
           /\ Size(s, amount) * GrossPerShare(s) \in Nat
           /\ Size(s, amount) * CountedFor(s) \in Nat
<1>1. Size(s, amount) \in Nat /\ Size(s, amount) * RiskPerShare(s) <= PerTrade
  BY SizeIsLargest
<1>2. RiskPerShare(s) \in Nat /\ PerTrade \in Nat
  BY UnitsOfASignal, PerTradeIsNatural
<1>3. Size(s, amount) * RiskPerShare(s) \in Nat
  BY <1>1, <1>2, Products
<1>4. GrossPerShare(s) \in Nat /\ CountedFor(s) \in Nat
  BY DEF Coherent, GrossPerShare, CountedFor
<1>5. QED
  BY <1>1, <1>2, <1>3, <1>4, Products

LEMMA EntryKeepsGate == GateInv /\ OpenPosition => GateInv'
<1> SUFFICES ASSUME GateInv, OpenPosition
             PROVE  GateInv'
  OBVIOUS
<1>1. PICK w \in Watch, strike \in Strikes, s \in offers, amount \in Cash, u \in Unrealised,
           toll \in Tolls :
        LET symbol == Symbol(w, strike, s.kind)
            qty == Size(s, amount)
        IN  /\ Evaluate(s, symbol, amount, Seen(u))
            /\ book' = With(symbol, PositionOf(s, qty))
            /\ realized' = realized - toll
            /\ trades' = trades + 1
            /\ hidden' = Max({Seen(u), 0})
            /\ order' = [signal |-> s, qty |-> qty, cash |-> amount]
            /\ UNCHANGED config
  BY Zenon DEF OpenPosition
<1> DEFINE symbol == Symbol(w, strike, s.kind)
           qty == Size(s, amount)
           position == PositionOf(s, qty)
<1> HIDE DEF symbol
<1>2. /\ ~Halted(Seen(u)) /\ Cardinality(DOMAIN book) < OpenCap /\ symbol \notin DOMAIN book
      /\ Sizeable(s) /\ qty >= LotOf(s)
  BY <1>1, Zenon DEF Evaluate, symbol
<1>3. /\ book' = With(symbol, position) /\ trades' = trades + 1 /\ hidden' = Max({Seen(u), 0})
      /\ order' = [signal |-> s, qty |-> qty, cash |-> amount]
      /\ realized' = realized - toll /\ config' = config
  BY <1>1, Zenon DEF symbol
<1>4. offers' = offers /\ began' = began /\ target' = target
  BY <1>3 DEF config
<1>5. Coherent(s) /\ amount \in Nat /\ toll \in 0..MaxToll /\ MaxToll \in Nat
  BY <1>2, GateAssumption DEF GateInv, Offered, Sizeable, Hold, GateAssumption
<1>6. position.risk \in 0..PerTrade /\ position.gain \in Nat /\ position.notional \in Nat
  BY <1>2, <1>5, PositionIsSound DEF PositionOf
<1>7. PICK seen \in Int : seen = Seen(u)
  BY UnrealisedIsBounded DEF GateInv
<1>8. hidden' \in Nat /\ hidden' >= seen
  <2> DEFINE S == {seen, 0}
  <2>1. S # {} /\ \A x \in S : x \in Int
    OBVIOUS
  <2>2. IsFiniteSet(S)
    BY Pairs, Zenon
  <2>3. seen \in S /\ 0 \in S
    OBVIOUS
  <2>4. hidden' = Max(S)
    BY <1>3, <1>7
  <2> HIDE DEF S
  <2>5. Max(S) \in S /\ Max(S) >= seen /\ Max(S) >= 0
    BY <2>1, <2>2, <2>3, Extremes
  <2>6. QED
    BY <2>1, <2>4, <2>5
<1>9. Offered' /\ Configured'
  BY <1>4 DEF GateInv, Offered, Configured
<1>10. /\ Sound(book') /\ Cardinality(DOMAIN book') = Cardinality(DOMAIN book) + 1
       /\ RiskOf(book') = position.risk + RiskOf(book)
  <2>1. book' = [p \in DOMAIN book \cup {symbol} |-> IF p = symbol THEN position ELSE book[p]]
    BY <1>3 DEF With
  <2>2. Sound(book)
    BY DEF GateInv, BookKept
  <2> HIDE DEF position
  <2>3. QED
    BY <1>2, <1>6, <2>1, <2>2, BookWith
<1>11. Cardinality(DOMAIN book') \in Nat /\ Cardinality(DOMAIN book') <= OpenCap
  <2>1. Cardinality(DOMAIN book) \in Nat /\ OpenCap \in Nat
    BY BookIsBounded, CapsAssumption DEF GateInv, BookKept, CapsAssumption
  <2>2. QED
    BY <1>2, <1>10, <2>1
<1>12. BookKept'
  BY <1>10, <1>11 DEF BookKept
<1>13. realized \in Int /\ Counted'
  BY <1>3, <1>5, <1>8 DEF GateInv, Counted
<1>14. Decided'
  <2>1. /\ order'.signal = s /\ order'.cash = amount /\ order'.qty = qty
    BY <1>3
  <2>2. QED
    BY <1>2, <1>5, <2>1 DEF Decided
<1>15. DayLossBounded'
  <2>1. PICK e \in Nat, c \in Nat, t \in Nat, k \in Nat :
          IsBound(e, c, t, k) /\ InScalars(e, c, t, k)
    BY BoundInScalars DEF GateInv
  <2>2. PICK risk \in Nat : risk = OpenRisk' /\ 100 * risk <= c
    BY <1>10, <1>11, <2>1, CapsCover, RiskOfNextBook DEF IsBound
  <2>3. PICK n \in Nat : n = Cardinality(DOMAIN book') /\ n <= OpenCap
    BY <1>11
  <2>4. PICK m \in Nat : m = n * MaxToll /\ m <= t
    <3>1. OpenCap \in Nat
      BY CapsAssumption DEF CapsAssumption
    <3>2. n * MaxToll \in Nat /\ n * MaxToll <= OpenCap * MaxToll
      BY <1>5, <2>3, <3>1, Products, ProductsGrow
    <3>3. QED
      BY <2>1, <3>2 DEF IsBound
  <2>5. PICK r \in Int : r = realized
    BY <1>13
  <2>6. 100 * (r + seen) > -e
    BY <1>2, <1>7, <2>1, <2>5 DEF Halted, IsBound
  <2>7. PICK h \in Nat : h = hidden' /\ h >= seen
    BY <1>8
  <2>8. PICK rr \in Int : rr = realized' /\ rr = r - toll /\ rr >= r - k
    BY <1>3, <1>5, <2>1, <2>5 DEF IsBound
  <2>9. 100 * (risk + m - rr) < e + c + 100 * (h + t + k)
    <3>1. 100 * risk <= c /\ m <= t /\ h >= seen /\ rr >= r - k
      BY <2>2, <2>4, <2>7, <2>8
    <3>2. QED
      BY <2>6, <3>1
  <2>10. Bounded(Divisor, risk, m, rr, h)
    <3>1. risk \in Int /\ m \in Int /\ rr \in Int /\ h \in Int
      OBVIOUS
    <3>2. Bounded(Divisor, risk, m, rr, h)
             <=> 100 * (risk + m - rr) < e + c + 100 * (h + t + k)
      BY <2>1, <3>1, Zenon DEF InScalars
    <3>3. QED
      BY <2>9, <3>2
  <2>11. Divisor' = Divisor
    BY <1>4 DEF Divisor
  <2>12. Cardinality(DOMAIN book') * MaxToll = m
    BY <2>3, <2>4
  <2>13. QED
    BY <2>2, <2>7, <2>8, <2>10, <2>11, <2>12, Zenon DEF DayLossBounded, Bounded
<1>16. QED
  BY <1>9, <1>12, <1>13, <1>14, <1>15 DEF GateInv

\* Positions go, and with each the toll of closing it: a result no worse than
\* what they risked keeps the bound.
LEMMA CloseKeepsBound ==
    ASSUME GateInv, Configured', DayLossBounded, NEW n \in Nat, n = Cardinality(DOMAIN book),
           NEW left \in Nat, left = Cardinality(DOMAIN book'), left <= n,
           NEW gone \in Nat, OpenRisk \in Nat, OpenRisk' \in Nat, OpenRisk = gone + OpenRisk',
           NEW profit \in Int, profit >= -gone,
           NEW cost \in Nat, cost <= (n - left) * MaxToll,
           realized' = realized + profit - cost, hidden' = hidden, began' = began
    PROVE  DayLossBounded'
<1>1. PICK e \in Nat, c \in Nat, t \in Nat, k \in Nat :
        IsBound(e, c, t, k) /\ InScalars(e, c, t, k)
  BY BoundInScalars DEF GateInv
<1>2. PICK r \in Int, h \in Nat : r = realized /\ h = hidden
  BY DEF GateInv, Counted
<1>3. PICK m \in Nat, l \in Nat, d \in Nat :
        /\ m = n * MaxToll /\ l = left * MaxToll /\ d = (n - left) * MaxToll /\ m = l + d
  <2>1. PICK j \in Nat : j = n - left /\ n = left + j
    OBVIOUS
  <2>2. k = MaxToll
    BY <1>1 DEF IsBound
  <2>3. n * k \in Nat /\ left * k \in Nat /\ j * k \in Nat /\ n * k = left * k + j * k
    BY <2>1, Products
  <2>4. QED
    BY <2>1, <2>2, <2>3
<1>4. PICK risk \in Nat, rest \in Nat : risk = OpenRisk /\ rest = OpenRisk' /\ risk = gone + rest
  OBVIOUS
<1>5. Bounded(Divisor, risk, m, r, h)
  BY <1>2, <1>3, <1>4, BoundOfTheDay, Zenon
<1>6. 100 * (risk + m - r) < e + c + 100 * (h + t + k)
  <2>1. risk \in Int /\ m \in Int /\ r \in Int /\ h \in Int
    OBVIOUS
  <2>2. Bounded(Divisor, risk, m, r, h)
           <=> 100 * (risk + m - r) < e + c + 100 * (h + t + k)
    BY <1>1, <2>1, Zenon DEF InScalars
  <2>3. QED
    BY <1>5, <2>2
<1>7. PICK rr \in Int : rr = realized' /\ rr = r + profit - cost
  BY <1>2
<1>8. 100 * (rest + l - rr) < e + c + 100 * (h + t + k)
  <2>1. rest + l - rr <= risk + m - r
    BY <1>3, <1>4, <1>7
  <2>2. QED
    BY <1>6, <2>1
<1>9. Bounded(Divisor, rest, l, rr, h)
  <2>1. rest \in Int /\ l \in Int /\ rr \in Int /\ h \in Int
    OBVIOUS
  <2>2. Bounded(Divisor, rest, l, rr, h)
           <=> 100 * (rest + l - rr) < e + c + 100 * (h + t + k)
    BY <1>1, <2>1, Zenon DEF InScalars
  <2>3. QED
    BY <1>8, <2>2
<1>10. Divisor' = Divisor
  BY DEF Divisor
<1>11. hidden' = h
  BY <1>2
<1>12. QED
  BY <1>3, <1>4, <1>7, <1>9, <1>10, <1>11, Zenon DEF DayLossBounded, Bounded

\* An exit at a profit of at least the risk keeps the bound.
LEMMA ExitKeepsGate ==
    ASSUME GateInv, NEW symbol \in DOMAIN book, NEW profit \in Int,
           profit >= -book[symbol].risk, Exit(symbol, profit)
    PROVE  GateInv'
<1>1. PICK toll \in Tolls :
        /\ realized' = realized + profit - toll /\ book' = Without(symbol) /\ order' = NoOrder
        /\ config' = config /\ trades' = trades /\ hidden' = hidden
  BY DEF Exit
<1>2. /\ Sound(book) /\ Cardinality(DOMAIN book) <= OpenCap
      /\ offers' = offers /\ began' = began /\ target' = target
      /\ toll \in 0..MaxToll /\ MaxToll \in Nat
  BY <1>1, GateAssumption DEF GateInv, BookKept, config, GateAssumption
<1>3. /\ DOMAIN book' = DOMAIN book \ {symbol} /\ IsBook(book')
      /\ \A p \in DOMAIN book' : book'[p] = book[p]
  BY <1>1 DEF Without, IsBook
<1>4. /\ Sound(book') /\ Cardinality(DOMAIN book) = Cardinality(DOMAIN book') + 1
      /\ RiskOf(book) = book[symbol].risk + RiskOf(book')
  <2>1. PICK c : c = book'
    OBVIOUS
  <2>2. /\ DOMAIN c = DOMAIN book \ {symbol} /\ IsBook(c)
        /\ \A p \in DOMAIN c : c[p] = book[p]
    BY <1>3, <2>1
  <2>3. /\ Sound(c) /\ Cardinality(DOMAIN book) = Cardinality(DOMAIN c) + 1
        /\ RiskOf(book) = book[symbol].risk + RiskOf(c)
    BY <1>2, <2>2, BookWithout
  <2>4. QED
    BY <2>1, <2>3
<1>5. Cardinality(DOMAIN book') \in Nat /\ RiskOf(book') \in Nat
  BY <1>4, BookIsBounded
<1>6. BookKept'
  <2>1. OpenCap \in Nat
    BY CapsAssumption DEF CapsAssumption
  <2>2. QED
    BY <1>2, <1>4, <1>5, <2>1 DEF BookKept
<1>7. Offered' /\ Configured' /\ Decided' /\ Counted'
  <2>1. Counted'
    BY <1>1, <1>2 DEF GateInv, Counted
  <2>2. QED
    BY <1>1, <1>2, <2>1 DEF GateInv, Offered, Configured, Decided
<1>8. ASSUME DailyCapPct > 0
      PROVE  DayLossBounded'
  <2>1. DayLossBounded
    BY <1>8 DEF GateInv
  <2>2. PICK gone \in Nat : gone = book[symbol].risk
    BY <1>2, PerTradeIsNatural DEF Sound
  <2>3. OpenRisk' \in Nat /\ OpenRisk = gone + OpenRisk'
    BY <1>4, <1>5, <2>2, RiskOfBook, RiskOfNextBook
  <2>4. OpenRisk \in Nat
    BY <2>2, <2>3
  <2>5. PICK left \in Nat : left = Cardinality(DOMAIN book')
    BY <1>5
  <2>6. PICK n \in Nat : n = Cardinality(DOMAIN book) /\ n = left + 1
    BY <1>4, <2>5
  <2>7. toll \in Nat /\ toll <= (n - left) * MaxToll
    <3>1. n - left = 1
      BY <2>6
    <3>2. (n - left) * MaxToll = MaxToll
      BY <1>2, <3>1
    <3>3. QED
      BY <1>2, <3>2
  <2>8. profit >= -gone /\ left <= n
    BY <2>2, <2>6
  <2>9. QED
    BY <1>1, <1>2, <1>7, <2>1, <2>2, <2>3, <2>4, <2>5, <2>6, <2>7, <2>8, CloseKeepsBound
<1>9. QED
  BY <1>6, <1>7, <1>8 DEF GateInv

LEMMA SweepKeepsGate == GateInv /\ Sweep => GateInv'
<1> SUFFICES ASSUME GateInv, Sweep
             PROVE  GateInv'
  OBVIOUS
<1>1. PICK u \in Unrealised, toll \in Tolls :
        /\ realized' = realized + u - toll * Cardinality(DOMAIN book)
        /\ book' = NoBook /\ order' = NoOrder
        /\ config' = config /\ trades' = trades /\ hidden' = hidden
  BY DEF Sweep
<1>2. /\ offers' = offers /\ began' = began /\ target' = target
      /\ toll \in Nat /\ toll <= MaxToll /\ MaxToll \in Nat
  BY <1>1, GateAssumption DEF config, GateAssumption
<1>3. BookKept'
  <2>1. OpenCap \in Nat
    BY CapsAssumption DEF CapsAssumption
  <2>2. QED
    BY <1>1, <2>1, EmptyBook DEF BookKept
<1>4. u \in Int /\ u >= -OpenRisk /\ OpenRisk \in Nat
  BY UnrealisedIsBounded, CapsCover, RiskOfBook DEF GateInv, BookKept
<1>5. PICK n \in Nat : n = Cardinality(DOMAIN book)
  BY BookIsBounded DEF GateInv, BookKept
<1>6. PICK cost \in Nat : cost = toll * Cardinality(DOMAIN book) /\ cost <= n * MaxToll
  <2>1. toll * n <= MaxToll * n /\ toll * n \in Nat
    BY <1>2, <1>5, Products, ProductsGrow
  <2>2. MaxToll * n = n * MaxToll
    BY <1>2, <1>5
  <2>3. QED
    BY <1>5, <2>1, <2>2
<1>7. Offered' /\ Configured' /\ Decided' /\ Counted'
  <2>1. Counted'
    BY <1>1, <1>4, <1>6 DEF GateInv, Counted
  <2>2. QED
    BY <1>1, <1>2, <2>1 DEF GateInv, Offered, Configured, Decided
<1>8. ASSUME DailyCapPct > 0
      PROVE  DayLossBounded'
  <2>1. DayLossBounded
    BY <1>8 DEF GateInv
  <2>2. OpenRisk' = 0 /\ Cardinality(DOMAIN book') = 0
    BY <1>1, EmptyBook, RiskOfNextBook
  <2>3. PICK gone \in Nat : gone = OpenRisk
    BY <1>4
  <2>4. OpenRisk' \in Nat /\ OpenRisk = gone + OpenRisk' /\ u >= -gone
    BY <1>4, <2>2, <2>3
  <2>5. PICK left \in Nat : left = Cardinality(DOMAIN book') /\ left = 0
    BY <2>2
  <2>6. left <= n /\ cost <= (n - left) * MaxToll
    <3>1. n - left = n
      BY <2>5
    <3>2. QED
      BY <1>6, <2>5, <3>1
  <2>7. realized' = realized + u - cost
    BY <1>1, <1>6
  <2>8. QED
    BY <1>1, <1>2, <1>4, <1>5, <1>6, <1>7, <2>1, <2>3, <2>4, <2>5, <2>6, <2>7, CloseKeepsBound
<1>9. QED
  BY <1>3, <1>7, <1>8 DEF GateInv

\* The invariant is inductive.
LEMMA GateKeeps == GateInv /\ [GateNext]_gate => GateInv'
<1> SUFFICES ASSUME GateInv, [GateNext]_gate
             PROVE  GateInv'
  OBVIOUS
<1>1. CASE OpenPosition
  BY <1>1, EntryKeepsGate
<1>2. CASE Stopped
  <2>1. PICK symbol \in DOMAIN book : Exit(symbol, -book[symbol].risk)
    BY <1>2 DEF Stopped
  <2>2. book[symbol].risk \in Nat
    BY PerTradeIsNatural DEF GateInv, BookKept, Sound
  <2>3. -book[symbol].risk \in Int /\ -book[symbol].risk >= -book[symbol].risk
    BY <2>2
  <2>4. QED
    BY <2>1, <2>3, ExitKeepsGate
<1>3. CASE OnTarget
  <2>1. PICK symbol \in DOMAIN book : Exit(symbol, book[symbol].gain)
    BY <1>3 DEF OnTarget
  <2>2. book[symbol].risk \in Nat /\ book[symbol].gain \in Nat
    BY PerTradeIsNatural DEF GateInv, BookKept, Sound
  <2>3. book[symbol].gain \in Int /\ book[symbol].gain >= -book[symbol].risk
    BY <2>2
  <2>4. QED
    BY <2>1, <2>3, ExitKeepsGate
<1>4. CASE Sweep
  BY <1>4, SweepKeepsGate
<1>5. CASE UNCHANGED gate
  <2>1. /\ offers' = offers /\ began' = began /\ target' = target /\ book' = book
        /\ realized' = realized /\ trades' = trades /\ hidden' = hidden /\ order' = order
    BY <1>5 DEF gate, config
  <2>2. Offered' /\ Configured' /\ BookKept' /\ Counted' /\ Decided'
    BY <2>1 DEF GateInv, Offered, Configured, BookKept, Counted, Decided
  <2>3. OpenRisk' = OpenRisk /\ Divisor' = Divisor
    BY <2>1, RiskOfBook, RiskOfNextBook DEF Divisor
  <2>4. DailyCapPct > 0 => DayLossBounded'
    BY <2>1, <2>3, Zenon DEF GateInv, DayLossBounded
  <2>5. QED
    BY <2>2, <2>4 DEF GateInv
<1>6. QED
  BY <1>1, <1>2, <1>3, <1>4, <1>5 DEF GateNext

THEOREM GateInvariant == GateSpec => []GateInv
BY GateStarts, GateKeeps, PTL DEF GateSpec

\* An order that passes has its stop and its target on the right sides of its
\* price (the strategies' levels, the ensemble's merging).
THEOREM OrdersCoherent == GateSpec => []OrdersAreCoherent
<1>1. GateInv => OrdersAreCoherent
  <2> SUFFICES ASSUME GateInv
               PROVE  OrdersAreCoherent
    OBVIOUS
  <2> DEFINE s == order.signal
  <2>1. CASE order = NoOrder
    <3>1. s.side = "HOLD" /\ s.side # "BUY" /\ s.side # "SELL"
      BY <2>1 DEF NoOrder, Hold
    <3>2. QED
      BY <2>1, <3>1, Zenon DEF OrdersAreCoherent
  <2>2. CASE order # NoOrder
    <3>1. Coherent(s) /\ s.sl # NoLevel
      BY <2>2 DEF GateInv, Decided, Sizeable
    <3>2. CASE s.side = "BUY"
      <4>1. s.sl < s.price /\ s.price < s.tp /\ s.side # "SELL" /\ s.side # "HOLD"
        BY <3>1, <3>2 DEF Coherent
      <4>2. QED
        BY <3>2, <4>1, Zenon DEF OrdersAreCoherent
    <3>3. CASE s.side = "SELL"
      <4>1. s.tp < s.price /\ s.price < s.sl /\ s.side # "BUY" /\ s.side # "HOLD"
        BY <3>1, <3>3 DEF Coherent
      <4>2. QED
        BY <3>3, <4>1, Zenon DEF OrdersAreCoherent
    <3>4. QED
      BY <3>1, <3>2, <3>3 DEF Coherent
  <2>3. QED
    BY <2>1, <2>2
<1>2. QED
  BY <1>1, GateInvariant, PTL

\* The size of an order is the largest number of whole lots that the three
\* caps of evaluate allow.
THEOREM SizeIsTheLargest == GateSpec => []LargestSize
<1>1. GateInv => LargestSize
  <2> SUFFICES ASSUME GateInv, order # NoOrder
               PROVE  LargestSize
    BY DEF LargestSize
  <2> DEFINE s == order.signal
             n == order.qty
             amount == order.cash
  <2>1. /\ Coherent(s) /\ Sizeable(s) /\ amount \in Nat /\ n = Size(s, amount)
        /\ n >= LotOf(s)
    BY DEF GateInv, Decided
  <2>2. /\ n \in Nat /\ n % LotOf(s) = 0
        /\ n * RiskPerShare(s) <= PerTrade /\ n * Outlay(s) <= PositionCap
        /\ n * CashPerShare(s) <= amount
        /\ \A more \in 1..LotOf(s) :
             (n + more) % LotOf(s) = 0 =>
               ~ /\ (n + more) * RiskPerShare(s) <= PerTrade
                 /\ (n + more) * Outlay(s) <= PositionCap
                 /\ (n + more) * CashPerShare(s) <= amount
    BY <2>1, SizeIsLargest
  <2>3. n > 0
    <3>1. LotOf(s) \in Nat \ {0}
      BY <2>1, UnitsOfASignal
    <3>2. QED
      BY <2>1, <2>2, <3>1
  <2>4. QED
    BY <2>2, <2>3, Zenon DEF LargestSize
<1>2. QED
  BY <1>1, GateInvariant, PTL

\* If every stop is hit at once, at the prices of the signals, the open
\* positions lose no more than the daily percentage of the configured capital:
\* the comparison of percentages (_verify_risk_invariants) is enough for that.
THEOREM OpenRiskCapped == GateSpec => []OpenRiskWithinDailyCap
<1>1. GateInv => OpenRiskWithinDailyCap
  BY CapsCover, RiskOfBook DEF GateInv, BookKept, OpenRiskWithinDailyCap
<1>2. QED
  BY <1>1, GateInvariant, PTL

\* With a cap that lets anything be traded, the realised loss of a day, the
\* stops of its open positions and their tolls stay below the daily percentage
\* of the equity the day began with, that of the capital, what counted as
\* unrealised profit at the last entry, and the tolls of a full book and one.
THEOREM DayLossIsBounded ==
    ASSUME DailyCapPct > 0
    PROVE  GateSpec => []DayLossBounded
<1>1. GateInv => DayLossBounded
  BY DEF GateInv
<1>2. QED
  BY <1>1, GateInvariant, PTL

-------------------------------------------------------------------------------
(* The paper broker and the journal.                                       *)

\* The orders place_order is given, and the positions it finds.
Sides == {1, -1}
Lots == 1..MaxQty

-------------------------------------------------------------------------------
(* One order and one position.                                             *)

\* Fewer units cost no more to buy back at the widest.
LEMMA Opposites == \A a, b, c \in Int : a + b = 0 => a * c = -(b * c)
<1> SUFFICES ASSUME NEW a \in Int, NEW b \in Int, NEW c \in Int, a + b = 0
             PROVE  a * c = -(b * c)
  OBVIOUS
<1>1. a = -b
  OBVIOUS
<1>2. (-b) * c = -(b * c)
  OBVIOUS
<1>3. QED
  BY <1>1, <1>2

LEMMA Fewer == \A w, a, b \in Nat : a <= b => w * a <= w * b
OBVIOUS

\* An entry leaves a position of its kind, covered if it is a spread.
LEMMA EntryFits ==
    ASSUME NEW k \in Kinds, NEW d \in Sides, NEW n \in Lots, NEW fill \in Prices,
           EntryAllowed(k, d, fill)
    PROVE  LET p == Entered(k, d, n, fill)
           IN  p \in Positions /\ Fits(k, p) /\ (k = "spread" => Covered(p))
<1> DEFINE p == Entered(k, d, n, fill)
<1> USE BrokerAssumption DEF BrokerAssumption, Lots, Sides, Kinds
<1>1. fill * n \in Nat /\ d * n \in Int /\ d * n # 0 /\ Magnitude(d * n) = n
  BY DEF Magnitude
<1>2. Blocked(k, n, fill) \in Nat
  <2>1. CASE k = "futures"
    BY <2>1, Products DEF Blocked
  <2>2. CASE k = "spread"
    <3>1. Width - fill \in Nat
      BY <2>2 DEF EntryAllowed
    <3>2. QED
      BY <2>2, <3>1, Products DEF Blocked, SpreadMargin
  <2>3. QED
    BY <2>1, <2>2 DEF Blocked
<1>3. p \in Positions /\ Fits(k, p)
  BY <1>1, <1>2 DEF Entered, Positions, Fits, EntryAllowed, Blocked
<1>4. k = "spread" => Covered(p)
  BY <1>1 DEF Entered, Covered, Blocked, SpreadMargin
<1>5. QED
  BY <1>3, <1>4

\* What an entry takes and withholds is the price of its units.
LEMMA EntryBalances ==
    ASSUME NEW k \in Kinds, NEW d \in Sides, NEW n \in Lots, NEW fill \in Prices,
           NEW fee \in Fees, EntryAllowed(k, d, fill)
    PROVE  /\ EntryDelta(k, d, n, fill, fee) \in Int
           /\ Withheld(k, Entered(k, d, n, fill)) \in Int
           /\ EntryDelta(k, d, n, fill, fee) + Withheld(k, Entered(k, d, n, fill))
                  = -((d * n) * fill) - fee
<1> USE BrokerAssumption DEF BrokerAssumption, Lots, Sides, Kinds
<1> DEFINE p == Entered(k, d, n, fill)
<1>1. p \in Positions /\ p.qty = d * n /\ p.basis = fill * n /\ p.margin = Blocked(k, n, fill)
  BY EntryFits DEF Entered
<1>2. fill * n \in Nat /\ Blocked(k, n, fill) \in Nat /\ (d * n > 0 <=> d = 1)
      /\ (d * n) * fill = d * (fill * n)
  BY <1>1 DEF Positions
<1>3. Withheld(k, p) \in Int
  BY <1>1, <1>2 DEF Withheld, Positions
<1>4. EntryDelta(k, d, n, fill, fee) \in Int
  BY <1>2 DEF EntryDelta
<1>5. EntryDelta(k, d, n, fill, fee) + Withheld(k, p) = -((d * n) * fill) - fee
  <2> HIDE DEF p
  <2>1. CASE d = 1
    BY <1>1, <1>2, <2>1 DEF EntryDelta, Withheld, Blocked, EntryAllowed
  <2>2. CASE d = -1
    BY <1>1, <1>2, <2>2 DEF EntryDelta, Withheld, Blocked, EntryAllowed
  <2>3. QED
    BY <2>1, <2>2
<1>6. QED
  BY <1>3, <1>4, <1>5

\* Taking a position off gives back what it withheld and the price of its units.
LEMMA CloseBalances ==
    ASSUME NEW k \in Kinds, NEW p \in Positions, Fits(k, p), p.qty # 0,
           NEW fill \in Prices, NEW fee \in Fees
    PROVE  /\ CloseDelta(k, p, fill, fee) \in Int
           /\ Withheld(k, p) \in Int
           /\ CloseDelta(k, p, fill, fee) = Withheld(k, p) + p.qty * fill - fee
<1> USE BrokerAssumption DEF BrokerAssumption, Kinds, Positions
<1>1. PICK worth \in Nat : worth = fill * Magnitude(p.qty)
  BY Products DEF Magnitude
<1>2. p.qty * fill = IF p.qty > 0 THEN worth ELSE -worth
  BY <1>1 DEF Magnitude
<1>3. Profit(p, fill, fee) = (IF p.qty > 0 THEN worth - p.basis ELSE p.basis - worth) - fee
  BY <1>1 DEF Profit
<1>4. CloseDelta(k, p, fill, fee) \in Int /\ Withheld(k, p) \in Int
  BY <1>1, <1>3 DEF CloseDelta, Withheld
<1>5. CloseDelta(k, p, fill, fee) = Withheld(k, p) + p.qty * fill - fee
  <2>1. CASE k = "equity"
    BY <1>1, <1>2, <1>3, <2>1 DEF CloseDelta, Withheld
  <2>2. CASE k = "futures"
    BY <1>1, <1>2, <1>3, <2>2 DEF CloseDelta, Withheld
  <2>3. CASE k = "spread"
    BY <1>1, <1>2, <1>3, <2>3 DEF CloseDelta, Withheld, Fits
  <2>4. CASE k = "option"
    BY <1>1, <1>2, <1>3, <2>4 DEF CloseDelta, Withheld, Fits
  <2>5. QED
    BY <2>1, <2>2, <2>3, <2>4
<1>6. QED
  BY <1>4, <1>5

\* A flipped future is a future's position, and withholds its value only.
LEMMA FlipBalances ==
    ASSUME NEW p \in Positions, NEW d \in Sides, NEW n \in Lots, NEW fill \in Prices,
           p.qty * (p.qty + d * n) < 0
    PROVE  LET r == Flipped(p, d, n, fill)
           IN  /\ r \in Positions /\ Fits("futures", r) /\ r.qty = p.qty + d * n
               /\ Withheld("futures", r) = -(r.qty * fill)
<1> USE BrokerAssumption DEF BrokerAssumption, Lots, Sides, Positions
<1>1. PICK rest \in Int : rest = p.qty + d * n /\ rest # 0
  OBVIOUS
<1>2. fill * Magnitude(rest) \in Nat
      /\ fill * Magnitude(rest) = IF rest > 0 THEN rest * fill ELSE -(rest * fill)
  BY Products DEF Magnitude
<1>3. QED
  BY <1>1, <1>2 DEF Flipped, Fits, Withheld

\* A supported order that neither takes a position off nor flips it adds to
\* it, or takes off a part of a spread.
LEMMA AddedQty ==
    ASSUME NEW k \in Kinds, NEW p \in Positions, NEW d \in Sides, NEW n \in Lots,
           Fits(k, p), p.qty * (p.qty + d * n) > 0, Supported(k, p.qty, d, n)
    PROVE  /\ p.qty > 0 <=> p.qty + d * n > 0
           /\ k # "spread" => (p.qty > 0 <=> d = 1)
           /\ k = "spread" => /\ d = 1 /\ p.qty < 0
                              /\ Magnitude(p.qty + d * n) <= Magnitude(p.qty)
<1> USE BrokerAssumption DEF BrokerAssumption, Lots, Sides, Positions, Kinds
<1>1. PICK q \in Int, m \in Int : q = p.qty /\ m = d * n
  OBVIOUS
<1>2. q > 0 <=> q + m > 0
  BY <1>1
<1>3. q # 0 /\ q + m # 0
  BY <1>1
<1>4. QED
  BY <1>1, <1>2, <1>3 DEF Supported, Fits, Magnitude

\* What an addition leaves is a position of its kind, still covered.
LEMMA AddFits ==
    ASSUME NEW k \in Kinds, NEW p \in Positions, NEW d \in Sides, NEW n \in Lots,
           NEW fill \in Prices, Fits(k, p), p.qty * (p.qty + d * n) > 0,
           Supported(k, p.qty, d, n)
    PROVE  LET r == Added(k, p, d, n, fill)
           IN  /\ r \in Positions /\ Fits(k, r)
               /\ k = "spread" /\ Covered(p) => Covered(r)
<1> DEFINE r == Added(k, p, d, n, fill)
<1> USE BrokerAssumption DEF BrokerAssumption, Lots, Sides, Kinds
<1>1. fill * n \in Nat /\ FuturesMargin[fill] * n \in Nat
  BY Products
<1>2. r \in Positions /\ r.qty = p.qty + d * n /\ r.qty # 0 /\ r.basis = p.basis + fill * n
      /\ (k # "futures" => r.margin = p.margin)
  BY <1>1 DEF Added, Positions
<1>3. Fits(k, r)
  BY <1>2, AddedQty DEF Fits, Positions
<1>4. ASSUME k = "spread", Covered(p) PROVE Covered(r)
  <2>1. Magnitude(r.qty) <= Magnitude(p.qty)
    BY <1>2, <1>4, AddedQty
  <2>2. Width * Magnitude(r.qty) <= Width * Magnitude(p.qty)
    BY <1>2, <2>1, Fewer DEF Magnitude, Positions
  <2>3. Width * Magnitude(r.qty) \in Nat /\ Width * Magnitude(p.qty) \in Nat
    BY <1>2, Products DEF Magnitude, Positions
  <2>4. QED
    BY <1>1, <1>2, <1>4, <2>2, <2>3 DEF Covered, Positions
<1>5. QED
  BY <1>2, <1>3, <1>4

\* An addition takes, or withholds more by, the price of its units.
LEMMA AddBalances ==
    ASSUME NEW k \in Kinds, NEW p \in Positions, NEW d \in Sides, NEW n \in Lots,
           NEW fill \in Prices, NEW fee \in Fees, Fits(k, p),
           p.qty * (p.qty + d * n) > 0, Supported(k, p.qty, d, n)
    PROVE  LET r == Added(k, p, d, n, fill)
           IN  /\ AddDelta(k, d, n, fill, fee) \in Int
               /\ Withheld(k, p) \in Int /\ Withheld(k, r) \in Int
               /\ AddDelta(k, d, n, fill, fee) + Withheld(k, r)
                      = Withheld(k, p) - (d * n) * fill - fee
<1> DEFINE r == Added(k, p, d, n, fill)
<1> USE BrokerAssumption DEF BrokerAssumption, Lots, Sides, Kinds
<1>1. PICK cost \in Nat : cost = fill * n
  BY Products
<1>2. (d * n) * fill = IF d = 1 THEN cost ELSE -cost
  BY <1>1
<1>3. FuturesMargin[fill] * n \in Nat
  BY Products
<1>4. r.qty = p.qty + d * n /\ r.basis = p.basis + cost /\ r \in Positions
      /\ r.margin = p.margin + (IF k = "futures" THEN FuturesMargin[fill] * n ELSE 0)
  BY <1>1, AddFits DEF Added
<1>5. r.qty > 0 <=> p.qty > 0
  BY <1>4, AddedQty
<1> HIDE DEF r
<1>6. AddDelta(k, d, n, fill, fee) \in Int /\ Withheld(k, p) \in Int /\ Withheld(k, r) \in Int
  BY <1>1, <1>3, <1>4 DEF AddDelta, Withheld, Positions
<1>7. AddDelta(k, d, n, fill, fee) + Withheld(k, r) = Withheld(k, p) - (d * n) * fill - fee
  <2>1. CASE k = "equity"
    BY <1>1, <1>2, <1>4, <1>5, <2>1, AddedQty DEF AddDelta, Withheld, Positions
  <2>2. CASE k = "futures"
    BY <1>1, <1>2, <1>3, <1>4, <1>5, <2>2, AddedQty DEF AddDelta, Withheld, Positions
  <2>3. CASE k = "spread"
    BY <1>1, <1>2, <1>4, <2>3, AddedQty DEF AddDelta, Withheld, Positions
  <2>4. CASE k = "option"
    BY <1>1, <1>2, <1>4, <2>4, AddedQty DEF AddDelta, Withheld, Positions, Fits
  <2>5. QED
    BY <2>1, <2>2, <2>3, <2>4
<1>8. QED
  BY <1>6, <1>7 DEF r

\* Nothing is withheld of no position, and a supported flip is of a future.
LEMMA Flat == \A k \in Kinds : Withheld(k, NoPosition) = 0 /\ Fits(k, NoPosition)
BY DEF Withheld, NoPosition, Fits, Kinds

LEMMA FlipOfFuture ==
    ASSUME NEW k, NEW q \in Int, NEW d \in Sides, NEW n \in Lots,
           q * (q + d * n) < 0, Supported(k, q, d, n)
    PROVE  k = "futures"
<1>1. PICK m \in Int : m = d * n /\ (m > 0 <=> d = 1) /\ Magnitude(m) = n
  BY BrokerAssumption DEF BrokerAssumption, Sides, Lots, Magnitude
<1>2. (q > 0 /\ q + m < 0) \/ (q < 0 /\ q + m > 0)
  BY <1>1
<1>3. QED
  BY <1>1, <1>2 DEF Supported, Sides, Lots, Magnitude

-------------------------------------------------------------------------------
(* One fill.                                                               *)

\* A fill changes the symbol's position by the units traded, keeps it fit and
\* covered, and moves cash and what is withheld by their price and the fees.
Fair(s, d, n, fill, fee, delta, p) ==
    /\ Booked(s, delta, p)
    /\ Fits(kind[s], p)
    /\ kind[s] = "spread" /\ Covered(pos[s]) => Covered(p)
    /\ p.qty = pos[s].qty + d * n
    /\ pos[s].qty * p.qty > 0 => p.basis = pos[s].basis + fill * n
    /\ pos[s].qty * p.qty <= 0 => p.basis = fill * Magnitude(p.qty)
    /\ Withheld(kind[s], p) \in Int /\ Withheld(kind[s], pos[s]) \in Int
    /\ delta + Withheld(kind[s], p) = Withheld(kind[s], pos[s]) - (d * n) * fill - fee

LEMMA FillIsFair ==
    ASSUME TypeOK, NEW s \in Symbols, NEW d \in Sides, NEW n \in Lots,
           NEW fill \in Prices, NEW fee \in Fees, Fill(s, d, n, fill, fee)
    PROVE  \E delta \in Int, p \in Positions : Fair(s, d, n, fill, fee, delta, p)
<1> DEFINE k == kind[s]
           o == pos[s]
<1>1. k \in Kinds /\ o \in Positions /\ Fits(k, o) /\ o.qty \in Int /\ d * n \in Int
      /\ fee \in Int /\ fill \in Int /\ n \in Int /\ d \in Int
  BY BrokerAssumption DEF TypeOK, Positions, BrokerAssumption, Sides, Lots
<1>2. Supported(k, o.qty, d, n)
  BY DEF Fill
<1>3. CASE Enter(s, d, n, fill, fee)
  <2> DEFINE p == Entered(k, d, n, fill)
             delta == EntryDelta(k, d, n, fill, fee)
  <2>1. EntryAllowed(k, d, fill) /\ o = NoPosition /\ Booked(s, delta, p)
    BY <1>1, <1>3 DEF Enter, Fits
  <2>2. Withheld(k, o) = 0 /\ o.qty = 0
    BY <1>1, <2>1, Flat DEF NoPosition
  <2>3. p \in Positions /\ Fits(k, p) /\ (k = "spread" => Covered(p)) /\ p.qty = d * n
        /\ p.basis = fill * Magnitude(p.qty)
    <3>1. Magnitude(d * n) = n
      BY BrokerAssumption DEF BrokerAssumption, Sides, Lots, Magnitude
    <3>2. QED
      BY <1>1, <2>1, <3>1, EntryFits DEF Entered
  <2>4. /\ delta \in Int /\ Withheld(k, p) \in Int
        /\ delta + Withheld(k, p) = -((d * n) * fill) - fee
    BY <1>1, <2>1, EntryBalances
  <2> HIDE DEF p, delta
  <2>5. Fair(s, d, n, fill, fee, delta, p)
    BY <1>1, <2>1, <2>2, <2>3, <2>4 DEF Fair
  <2>6. QED
    BY <2>3, <2>4, <2>5
<1>4. CASE Close(s, d, n, fill, fee)
  <2> DEFINE delta == CloseDelta(k, o, fill, fee)
  <2>1. o.qty # 0 /\ o.qty + d * n = 0 /\ Booked(s, delta, NoPosition)
    BY <1>4 DEF Close
  <2>2. /\ delta \in Int /\ Withheld(k, o) \in Int
        /\ delta = Withheld(k, o) + o.qty * fill - fee
    BY <1>1, <2>1, CloseBalances
  <2>3. NoPosition \in Positions /\ NoPosition.qty = 0 /\ Covered(NoPosition)
        /\ NoPosition.basis = fill * Magnitude(NoPosition.qty)
    BY <1>1, BrokerAssumption DEF NoPosition, Positions, Covered, Magnitude, BrokerAssumption
  <2>4. Withheld(k, NoPosition) = 0 /\ Fits(k, NoPosition)
    BY <1>1, Flat
  <2>5. o.qty * fill = -((d * n) * fill)
    BY <1>1, <2>1, Opposites
  <2> HIDE DEF delta
  <2>6. Fair(s, d, n, fill, fee, delta, NoPosition)
    BY <1>1, <2>1, <2>2, <2>3, <2>4, <2>5 DEF Fair
  <2>7. QED
    BY <2>2, <2>3, <2>6
<1>5. CASE Flip(s, d, n, fill, fee)
  <2> DEFINE p == Flipped(o, d, n, fill)
             delta == CloseDelta(k, o, fill, fee)
  <2>1. o.qty * (o.qty + d * n) < 0 /\ Booked(s, delta, p)
    BY <1>5 DEF Flip
  <2>2. k = "futures"
    BY <1>1, <1>2, <2>1, FlipOfFuture
  <2>3. o.qty # 0
    BY <1>1, <2>1
  <2>4. /\ delta \in Int /\ Withheld(k, o) \in Int
        /\ delta = Withheld(k, o) + o.qty * fill - fee
    BY <1>1, <2>3, CloseBalances
  <2>5. /\ p \in Positions /\ Fits(k, p) /\ p.qty = o.qty + d * n
        /\ Withheld(k, p) = -(p.qty * fill) /\ p.basis = fill * Magnitude(p.qty)
    BY <1>1, <2>1, <2>2, FlipBalances DEF Flipped
  <2>6. p.qty * fill = o.qty * fill + (d * n) * fill
    BY <1>1, <2>5
  <2> HIDE DEF p, delta
  <2>7. Fair(s, d, n, fill, fee, delta, p)
    BY <1>1, <2>1, <2>2, <2>4, <2>5, <2>6 DEF Fair, Positions
  <2>8. QED
    BY <2>4, <2>5, <2>7
<1>6. CASE Add(s, d, n, fill, fee)
  <2> DEFINE p == Added(k, o, d, n, fill)
             delta == AddDelta(k, d, n, fill, fee)
  <2>1. o.qty * (o.qty + d * n) > 0 /\ Booked(s, delta, p)
    BY <1>6 DEF Add
  <2>2. p \in Positions /\ Fits(k, p) /\ (k = "spread" /\ Covered(o) => Covered(p))
    BY <1>1, <1>2, <2>1, AddFits
  <2>3. /\ delta \in Int /\ Withheld(k, o) \in Int /\ Withheld(k, p) \in Int
        /\ delta + Withheld(k, p) = Withheld(k, o) - (d * n) * fill - fee
    BY <1>1, <1>2, <2>1, AddBalances
  <2>4. p.qty = o.qty + d * n /\ p.basis = o.basis + fill * n
    BY DEF Added
  <2> HIDE DEF p, delta
  <2>5. Fair(s, d, n, fill, fee, delta, p)
    BY <1>1, <2>1, <2>2, <2>3, <2>4 DEF Fair
  <2>6. QED
    BY <2>2, <2>3, <2>5
<1>7. QED
  BY <1>3, <1>4, <1>5, <1>6 DEF Fill

-------------------------------------------------------------------------------
(* Theorems.                                                               *)

\* The cash is the capital and what the symbols' orders did to it.
CashAddsUp == cash = Start + Total(flow, Symbols)

IInv == TypeOK /\ DefinedRisk /\ CashAddsUp

LEMMA InvInit == Init => IInv
<1> SUFFICES ASSUME Init PROVE IInv
  OBVIOUS
<1> USE BrokerAssumption DEF BrokerAssumption, Init
<1>1. kind \in [Symbols -> Kinds]
  OBVIOUS
<1>2. NoPosition \in Positions /\ Covered(NoPosition)
  BY DEF NoPosition, Positions, Covered, Magnitude
<1>3. \A s \in Symbols : Fits(kind[s], pos[s])
  BY <1>1, Flat
<1>4. CashAddsUp
  <2>1. Total(flow, Symbols) = 0
    BY TotalOfNothing
  <2>2. QED
    BY <2>1 DEF CashAddsUp
<1>5. QED
  BY <1>1, <1>2, <1>3, <1>4 DEF IInv, TypeOK, DefinedRisk

LEMMA InvStep == IInv /\ [Next]_vars => IInv'
<1> SUFFICES ASSUME IInv, [Next]_vars PROVE IInv'
  OBVIOUS
<1>1. ASSUME NEW s \in Symbols, PlaceOrder(s) PROVE IInv'
  <2>1. PICK d \in Sides, n \in Lots, fill \in Prices, fee \in Fees : Fill(s, d, n, fill, fee)
    BY <1>1 DEF PlaceOrder, Sides, Lots
  <2>2. PICK delta \in Int, p \in Positions : Fair(s, d, n, fill, fee, delta, p)
    BY <2>1, FillIsFair DEF IInv
  <2>3. /\ kind' = kind /\ marks' = marks /\ fills' = fills + 1 /\ fills < MaxFills
        /\ cash' = cash + delta /\ flow' = [flow EXCEPT ![s] = @ + delta]
        /\ pos' = [pos EXCEPT ![s] = p]
    BY <2>2 DEF Fair, Booked
  <2>4. \A t \in Symbols : pos'[t] = IF t = s THEN p ELSE pos[t]
    BY <2>3 DEF IInv, TypeOK
  <2>5. \A t \in Symbols : Fits(kind'[t], pos'[t])
    BY <2>2, <2>3, <2>4 DEF IInv, TypeOK, Fair
  <2>6. DefinedRisk'
    BY <2>2, <2>3, <2>4 DEF IInv, DefinedRisk, Fair, Covered, Magnitude
  <2>7. TypeOK'
    BY <2>3, <2>5, BrokerAssumption DEF IInv, TypeOK, BrokerAssumption
  <2>8. CashAddsUp'
    <3>1. flow \in [Symbols -> Int] /\ flow' \in [Symbols -> Int] /\ cash \in Int
      BY <2>7 DEF IInv, TypeOK
    <3>2. \A t \in Symbols \ {s} : flow'[t] = flow[t]
      BY <2>3, <3>1
    <3>3. flow'[s] - flow[s] = delta
      BY <2>3, <3>1
    <3>4. Total(flow', Symbols) - Total(flow, Symbols) = delta
      BY <3>1, <3>2, <3>3, TotalMoves, BrokerAssumption DEF BrokerAssumption
    <3>5. Total(flow, Symbols) \in Int /\ Total(flow', Symbols) \in Int /\ Start \in Int
      BY <3>1, TotalType, BrokerAssumption DEF BrokerAssumption
    <3>6. QED
      BY <2>3, <3>1, <3>4, <3>5 DEF CashAddsUp, IInv
  <2>9. QED
    BY <2>6, <2>7, <2>8 DEF IInv
<1>2. CASE UpdateMarks
  <2>1. PICK s \in Symbols, m \in Prices : marks' = [marks EXCEPT ![s] = m]
    BY <1>2 DEF UpdateMarks
  <2>2. QED
    BY <1>2, <2>1 DEF UpdateMarks, IInv, TypeOK, DefinedRisk, Covered, Magnitude, Fits, CashAddsUp
<1>3. CASE UNCHANGED vars
  BY <1>3 DEF vars, IInv, TypeOK, DefinedRisk, Covered, Magnitude, Fits, CashAddsUp
<1>4. QED
  BY <1>1, <1>2, <1>3 DEF Next

THEOREM Invariance == Spec => []IInv
BY InvInit, InvStep, PTL DEF Spec

\* The books are well typed: only futures and spreads lock margin, options are
\* only held long, spreads only short.
THEOREM TypeCorrect == Spec => []TypeOK
BY Invariance, PTL DEF IInv

\* The margin and the credit kept of a spread pay for buying it back at its
\* widest, whatever it was sold for and however it was reduced.
THEOREM SpreadsCovered == Spec => []DefinedRisk
BY Invariance, PTL DEF IInv

-------------------------------------------------------------------------------
(* The equity.                                                             *)

\* What a symbol adds to the equity is what is withheld for it and its worth.
LEMMA WorthOfOne ==
    ASSUME TypeOK, NEW s \in Symbols, ~(kind[s] = "futures" /\ pos[s].qty > 0)
    PROVE  /\ Contribution(s) \in Int /\ Account(s) + Worth(s) \in Int
           /\ Account(s) + Worth(s) = flow[s] + Contribution(s)
<1>1. PICK q \in Int, b \in Nat, m \in Nat, k \in Kinds, v \in Nat, c \in Int :
          /\ q = pos[s].qty /\ b = pos[s].basis /\ m = pos[s].margin /\ k = kind[s]
          /\ v = marks[s] /\ c = flow[s]
  BY BrokerAssumption DEF BrokerAssumption, TypeOK, Positions
<1>2. PICK w \in Nat : w = v * Magnitude(q)
  BY Products DEF Magnitude
<1>3. q * v = IF q > 0 THEN w ELSE -w
  BY <1>2 DEF Magnitude
<1>4. q = 0 => b = 0 /\ m = 0 /\ w = 0
  <2>1. q = 0 => pos[s] = NoPosition
    BY <1>1 DEF TypeOK, Fits
  <2>2. q = 0 => Magnitude(q) = 0 /\ v * 0 = 0
    BY <1>1 DEF Magnitude
  <2>3. QED
    BY <1>1, <1>2, <2>1, <2>2 DEF NoPosition
<1>5. Unrealized(s) = IF v = 0 THEN 0 ELSE IF q > 0 THEN w - b ELSE b - w
  BY <1>1, <1>2 DEF Unrealized
<1>6. Worth(s) = IF v = 0 THEN (IF q > 0 THEN b ELSE -b) ELSE IF q > 0 THEN w ELSE -w
  BY <1>1, <1>3 DEF Worth
<1>7. MarginOffset(s) = IF k = "futures" THEN m ELSE IF k = "spread" /\ q < 0 THEN m - b ELSE 0
  BY <1>1 DEF MarginOffset, Kinds
<1>8. Withheld(kind[s], pos[s]) =
          IF k = "equity" THEN IF q < 0 THEN b ELSE 0
          ELSE IF k = "futures" THEN m + (IF q > 0 THEN -b ELSE b)
          ELSE IF k = "spread" THEN m ELSE 0
  BY <1>1 DEF Withheld, Kinds
<1>9. Contribution(s) = (IF q > 0 THEN b ELSE 0) + Unrealized(s) + MarginOffset(s)
  BY <1>1 DEF Contribution
<1>10. k = "spread" => q <= 0
  BY <1>1 DEF TypeOK, Fits
<1>11. k = "option" => q >= 0
  BY <1>1 DEF TypeOK, Fits
<1>12. k = "futures" => q <= 0
  BY <1>1
<1> DEFINE held == Withheld(kind[s], pos[s])
<1>13. held \in Int /\ Worth(s) \in Int /\ Contribution(s) \in Int
  BY <1>5, <1>6, <1>7, <1>8, <1>9
<1>14. held + Worth(s) = Contribution(s)
  <2>1. CASE k = "equity"
    BY <1>4, <1>5, <1>6, <1>7, <1>8, <1>9, <2>1
  <2>2. CASE k = "futures"
    BY <1>4, <1>5, <1>6, <1>7, <1>8, <1>9, <1>12, <2>2
  <2>3. CASE k = "spread"
    BY <1>4, <1>5, <1>6, <1>7, <1>8, <1>9, <1>10, <2>3
  <2>4. CASE k = "option"
    BY <1>4, <1>5, <1>6, <1>7, <1>8, <1>9, <1>11, <2>4
  <2>5. QED
    BY <2>1, <2>2, <2>3, <2>4 DEF Kinds
<1>15. Account(s) = c + held
  BY <1>1 DEF Account
<1> HIDE DEF held
<1>16. QED
  BY <1>1, <1>13, <1>14, <1>15

\* The sums of _equity and of the net worth, as totals.
LEMMA SumOfContributions ==
    ASSUME NEW C, C = [s \in Symbols |-> Contribution(s)]
    PROVE  MapThenSumSet(Contribution, Symbols) = Total(C, Symbols)
<1> DEFINE Sums(g) == g = [T \in SUBSET Symbols |->
                             IF T = {} THEN 0
                             ELSE Contribution(CHOOSE x \in T : TRUE) + g[T \ {CHOOSE x \in T : TRUE}]]
           h == CHOOSE g : Sums(g)
<1>1. \A g : Sums(g) <=> Adds(C, Symbols, g)
  BY PickIsMember DEF Adds, Pick
<1>2. Adds(C, Symbols, h)
  <2>1. PICK g : Adds(C, Symbols, g)
    BY SumExists, BrokerAssumption DEF BrokerAssumption
  <2> HIDE DEF Sums
  <2>2. Sums(g)
    BY <1>1, <2>1
  <2>3. Sums(h)
    BY <2>2
  <2>4. QED
    BY <1>1, <2>3
<1>3. MapThenSumSet(Contribution, Symbols) = h[Symbols]
  BY DEF MapThenSumSet, MapThenFoldSet
<1>4. PICK g : Adds(C, Symbols, g) /\ Total(C, Symbols) = g[Symbols]
  BY TotalIs, BrokerAssumption DEF BrokerAssumption
<1>5. h[Symbols] = g[Symbols]
  BY <1>2, <1>4, SumsAgree, BrokerAssumption DEF BrokerAssumption
<1>6. QED
  BY <1>3, <1>4, <1>5

LEMMA SumOfWorths ==
    ASSUME NEW C, C = [s \in Symbols |-> Account(s) + Worth(s)]
    PROVE  MapThenSumSet(LAMBDA s : Account(s) + Worth(s), Symbols) = Total(C, Symbols)
<1> DEFINE Sums(g) == g = [T \in SUBSET Symbols |->
                             IF T = {} THEN 0
                             ELSE Account(CHOOSE x \in T : TRUE) + Worth(CHOOSE x \in T : TRUE)
                                  + g[T \ {CHOOSE x \in T : TRUE}]]
           h == CHOOSE g : Sums(g)
<1>1. \A g : Sums(g) <=> Adds(C, Symbols, g)
  BY PickIsMember DEF Adds, Pick
<1>2. Adds(C, Symbols, h)
  <2>1. PICK g : Adds(C, Symbols, g)
    BY SumExists, BrokerAssumption DEF BrokerAssumption
  <2> HIDE DEF Sums
  <2>2. Sums(g)
    BY <1>1, <2>1
  <2>3. Sums(h)
    BY <2>2
  <2>4. QED
    BY <1>1, <2>3
<1>3. MapThenSumSet(LAMBDA s : Account(s) + Worth(s), Symbols) = h[Symbols]
  BY DEF MapThenSumSet, MapThenFoldSet
<1>4. PICK g : Adds(C, Symbols, g) /\ Total(C, Symbols) = g[Symbols]
  BY TotalIs, BrokerAssumption DEF BrokerAssumption
<1>5. h[Symbols] = g[Symbols]
  BY <1>2, <1>4, SumsAgree, BrokerAssumption DEF BrokerAssumption
<1>6. QED
  BY <1>3, <1>4, <1>5

\* The equity is the net worth in every state of the invariant.
LEMMA EquityOf == IInv => EquityIsWorthButLongFutures
<1> SUFFICES ASSUME IInv, \A s \in Symbols : ~(kind[s] = "futures" /\ pos[s].qty > 0)
             PROVE  Equity = NetWorth
  BY DEF EquityIsWorthButLongFutures
<1>1. PICK C : C = [s \in Symbols |-> Contribution(s)]
  OBVIOUS
<1>2. PICK W : W = [s \in Symbols |-> Account(s) + Worth(s)]
  OBVIOUS
<1>3. \A s \in Symbols : /\ Contribution(s) \in Int /\ Account(s) + Worth(s) \in Int
                         /\ Account(s) + Worth(s) = flow[s] + Contribution(s)
  BY WorthOfOne DEF IInv
<1>4. C \in [Symbols -> Int] /\ W \in [Symbols -> Int] /\ flow \in [Symbols -> Int]
  BY <1>1, <1>2, <1>3 DEF IInv, TypeOK
<1>5. \A s \in Symbols : W[s] = flow[s] + C[s]
  BY <1>1, <1>2, <1>3
<1>6. Total(W, Symbols) = Total(flow, Symbols) + Total(C, Symbols)
  BY <1>4, <1>5, TotalsAdd, BrokerAssumption DEF BrokerAssumption
<1>7. Total(flow, Symbols) \in Int /\ Total(C, Symbols) \in Int /\ Start \in Int
  BY <1>4, TotalType, BrokerAssumption DEF BrokerAssumption
<1>8. Equity = cash + Total(C, Symbols)
  BY <1>1, SumOfContributions DEF Equity
<1>9. NetWorth = Start + Total(W, Symbols)
  BY <1>2, SumOfWorths DEF NetWorth
<1>10. cash = Start + Total(flow, Symbols)
  BY DEF IInv, CashAddsUp
<1>11. QED
  BY <1>6, <1>7, <1>8, <1>9, <1>10

\* The equity behind the daily loss cap and the profit target is the net
\* worth, on every book without a long future.
THEOREM EquityIsNetWorth == Spec => []EquityIsWorthButLongFutures
BY Invariance, EquityOf, PTL

\* A fill touches its own symbol only, and its account by a trade of the ledger.
LEMMA FillMoves ==
    ASSUME TypeOK, NEW s \in Symbols, NEW d \in Sides, NEW n \in Lots,
           NEW fill \in Prices, NEW fee \in Fees, Fill(s, d, n, fill, fee)
    PROVE  /\ kind' = kind /\ Account(s) \in Int
           /\ pos'[s].qty = pos[s].qty + d * n
           /\ pos[s].qty * pos'[s].qty > 0 => pos'[s].basis = pos[s].basis + fill * n
           /\ pos[s].qty * pos'[s].qty <= 0 => pos'[s].basis = fill * Magnitude(pos'[s].qty)
           /\ Account(s)' = Account(s) - (d * n) * fill - fee
           /\ \A t \in Symbols \ {s} : pos'[t] = pos[t] /\ Account(t)' = Account(t)
<1>1. PICK delta \in Int, p \in Positions : Fair(s, d, n, fill, fee, delta, p)
  BY FillIsFair
<1>2. /\ kind' = kind /\ flow' = [flow EXCEPT ![s] = @ + delta]
      /\ pos' = [pos EXCEPT ![s] = p]
  BY <1>1 DEF Fair, Booked
<1>3. \A t \in Symbols : /\ pos'[t] = IF t = s THEN p ELSE pos[t]
                         /\ flow'[t] = IF t = s THEN flow[s] + delta ELSE flow[t]
  BY <1>2 DEF TypeOK
<1>4. PICK z \in Int : z = (d * n) * fill /\ fee \in Int
  BY BrokerAssumption DEF BrokerAssumption, Sides, Lots
<1>5. Account(s)' = Account(s) - (d * n) * fill - fee
  <2>1. Account(s)' = flow[s] + delta + Withheld(kind[s], p)
    BY <1>2, <1>3 DEF Account
  <2>2. /\ Withheld(kind[s], p) \in Int /\ Withheld(kind[s], pos[s]) \in Int /\ flow[s] \in Int
        /\ delta \in Int /\ delta + Withheld(kind[s], p) = Withheld(kind[s], pos[s]) - z - fee
    BY <1>1, <1>4 DEF Fair, TypeOK
  <2>3. Account(s) = flow[s] + Withheld(kind[s], pos[s])
    BY DEF Account
  <2>4. Account(s)' = Account(s) - z - fee
    BY <1>4, <2>1, <2>2, <2>3
  <2>5. QED
    BY <1>4, <2>4
<1>6. \A t \in Symbols \ {s} : Account(t)' = Account(t)
  BY <1>2, <1>3 DEF Account
<1>7. Account(s) \in Int
  BY <1>1 DEF Fair, Account, TypeOK
<1>8. QED
  BY <1>1, <1>2, <1>3, <1>5, <1>6, <1>7 DEF Fair

\* Every order, of whatever kind, is one trade of the ledger or leaves it be.
LEMMA LedgerInit == Init => L!Init
<1> SUFFICES ASSUME Init PROVE L!Init
  OBVIOUS
<1>1. \A s \in Symbols : kind[s] \in Kinds /\ pos[s] = NoPosition /\ flow[s] = 0
  BY BrokerAssumption DEF BrokerAssumption, Init
<1>2. \A s \in Symbols : pos[s].qty = 0 /\ Account(s) = 0
  BY <1>1, Flat DEF Account, NoPosition
<1>3. QED
  BY <1>2 DEF L!Init

LEMMA LedgerStep ==
    TypeOK /\ [Next]_vars =>
        [L!Next]_<<[s \in Symbols |-> pos[s].qty], [s \in Symbols |-> Account(s)]>>
<1> DEFINE qty == [s \in Symbols |-> pos[s].qty]
           account == [s \in Symbols |-> Account(s)]
<1> SUFFICES ASSUME TypeOK, [Next]_vars PROVE [L!Next]_<<qty, account>>
  OBVIOUS
<1>1. ASSUME NEW s \in Symbols, PlaceOrder(s) PROVE L!Next
  <2>1. PICK d \in Sides, n \in Lots, fill \in Prices, fee \in Fees : Fill(s, d, n, fill, fee)
    BY <1>1 DEF PlaceOrder, Sides, Lots
  <2>2. /\ pos'[s].qty = pos[s].qty + d * n
        /\ Account(s)' = Account(s) - (d * n) * fill - fee
        /\ \A t \in Symbols \ {s} : pos'[t] = pos[t] /\ Account(t)' = Account(t)
    BY <2>1, FillMoves
  <2>3. d * n \in (-MaxQty..MaxQty) \ {0}
    <3>1. (d = 1 /\ d * n = n) \/ (d = -1 /\ d * n = -n)
      BY BrokerAssumption DEF BrokerAssumption, Sides, Lots
    <3>2. QED
      BY <3>1, BrokerAssumption DEF BrokerAssumption, Lots
  <2>4. qty' = [qty EXCEPT ![s] = @ + d * n]
    BY <2>2
  <2>5. account' = [account EXCEPT ![s] = @ - (d * n) * fill - fee]
    BY <2>2
  <2>6. L!Trade(s, d * n, fill, fee)
    BY <2>4, <2>5 DEF L!Trade
  <2>7. QED
    BY <2>3, <2>6 DEF L!Next
<1>2. CASE UpdateMarks
  BY <1>2 DEF UpdateMarks, Account, Withheld
<1>3. CASE UNCHANGED vars
  BY <1>3 DEF vars, Account, Withheld
<1>4. QED
  BY <1>1, <1>2, <1>3 DEF Next

\* The paper broker implements the ledger: for every symbol, the cash its
\* orders moved and what is withheld for its position always add up to what
\* was received for the units sold, less what was paid and the fees.
THEOREM Refinement == Spec => KeepsLedger
BY Invariance, LedgerInit, LedgerStep, PTL DEF Spec, KeepsLedger, L!Spec, IInv

-------------------------------------------------------------------------------
(* The journal.                                                            *)

JInv == IInv /\ JTypeOK /\ JournalAgrees

-------------------------------------------------------------------------------
(* Signs and the value of a number of units.                               *)

LEMMA Signs ==
    ASSUME NEW q \in Int, q # 0
    PROVE  /\ Sign(q) \in {1, -1} /\ Magnitude(q) \in Nat /\ Magnitude(q) > 0
           /\ Sign(q) * Magnitude(q) = q
BY DEF Sign, Magnitude

LEMMA Distribute ==
    \A q, m, r \in Int : /\ q * r \in Int /\ m * r \in Int
                         /\ (q + m) * r = q * r + m * r
                         /\ q + m = 0 => q * r + m * r = 0
<1> SUFFICES ASSUME NEW q \in Int, NEW m \in Int, NEW r \in Int
             PROVE  /\ q * r \in Int /\ m * r \in Int
                    /\ (q + m) * r = q * r + m * r
                    /\ q + m = 0 => q * r + m * r = 0
  OBVIOUS
<1>1. q + m = 0 => q = -m /\ (-m) * r = -(m * r)
  OBVIOUS
<1>2. QED
  BY <1>1

\* A new entry is the position it is of, and has cost its value and the fees.
LEMMA Opens ==
    ASSUME NEW q \in Int, q # 0, NEW fill \in Nat, NEW fee \in Nat
    PROVE  LET o == OpenTrade(q, fill, fee)
           IN  /\ o \in [side : {1, 0, -1}, qty : Nat, cost : Nat, fees : Nat]
               /\ o # None /\ o.side * o.qty = q /\ o.qty > 0
               /\ o.side * o.cost + o.fees = q * fill + fee
               /\ o.cost = fill * Magnitude(q)
<1> DEFINE o == OpenTrade(q, fill, fee)
<1>1. /\ Sign(q) \in {1, -1} /\ Magnitude(q) \in Nat /\ Magnitude(q) > 0
      /\ Sign(q) * Magnitude(q) = q
  BY Signs
<1>2. PICK g \in {1, -1}, m \in Nat : g = Sign(q) /\ m = Magnitude(q) /\ m > 0 /\ g * m = q
  BY <1>1
<1>3. o = [side |-> g, qty |-> m, cost |-> fill * m, fees |-> fee]
  BY <1>2 DEF OpenTrade
<1>4. fill * m \in Nat /\ q * fill = g * (fill * m)
  BY <1>2, Products
<1>5. QED
  BY <1>2, <1>3, <1>4 DEF None

-------------------------------------------------------------------------------
(* One recorded fill.                                                      *)

\* What is known of a held symbol's trade is of its size.
LEMMA KnownTracks ==
    ASSUME TypeOK, JTypeOK, NEW s \in Symbols, Tracks(s), pos[s].qty # 0
    PROVE  /\ Known(s) \in [side : {1, 0, -1}, qty : Nat, cost : Nat, fees : Nat]
           /\ Known(s).side * Known(s).qty = pos[s].qty /\ Known(s).qty > 0
           /\ Known(s).side \in {1, -1}
<1>1. pos[s].qty \in Int /\ pos[s].basis \in Nat
  BY DEF TypeOK, Positions
<1>2. CASE opened[s] # None
  <2>1. Known(s) = opened[s]
    BY <1>2 DEF Known
  <2>2. PICK g \in {1, 0, -1}, m \in Nat : g = Known(s).side /\ m = Known(s).qty
    BY <2>1 DEF JTypeOK
  <2>3. g * m = pos[s].qty /\ m > 0
    BY <1>2, <2>1, <2>2 DEF Tracks
  <2>4. QED
    BY <2>1, <2>2, <2>3 DEF JTypeOK
<1>3. CASE opened[s] = None
  <2>1. Known(s) = [side |-> Sign(pos[s].qty), qty |-> Magnitude(pos[s].qty),
                    cost |-> pos[s].basis, fees |-> 0]
    BY <1>3 DEF Known
  <2>2. QED
    BY <1>1, <2>1, Signs
<1>4. QED
  BY <1>2, <1>3

Agrees(s) ==
    /\ Tracks(s)
    /\ s \notin parted => net[s] - Spent(s) = Account(s) + unbooked[s]

Entries == [side : {1, 0, -1}, qty : Nat, cost : Nat, fees : Nat]

\* An opening fill.
LEMMA OpenKeeps ==
    ASSUME TypeOK, JTypeOK, NEW s \in Symbols, Agrees(s), NEW d \in Sides, NEW n \in Lots,
           NEW fill \in Prices, NEW fee \in Fees, Fill(s, d, n, fill, fee),
           pos[s].qty = 0, RecordOpen(s, pos[s].qty + d * n, fill, fee)
    PROVE  opened'[s] \in Entries /\ Agrees(s)'
<1> DEFINE q == pos[s].qty
           m == d * n
           o == OpenTrade(m, fill, fee)
<1>1. m \in Int /\ m # 0 /\ fill \in Nat /\ fee \in Nat
  BY BrokerAssumption DEF BrokerAssumption, Sides, Lots
<1>2. /\ Account(s) \in Int /\ pos'[s].qty = m /\ pos'[s].basis = fill * Magnitude(m)
      /\ Account(s)' = Account(s) - m * fill - fee
  <2>1. pos'[s].qty = m /\ q * pos'[s].qty <= 0
    BY <1>1, FillMoves
  <2>2. QED
    BY <2>1, FillMoves
<1>3. /\ o \in Entries /\ o # None /\ o.side * o.qty = m /\ o.qty > 0
      /\ o.side * o.cost + o.fees = m * fill + fee /\ o.cost = fill * Magnitude(m)
  BY <1>1, Opens DEF Entries
<1>4. opened'[s] = o /\ net' = net /\ parted' = parted /\ unbooked' = unbooked
  BY <1>1 DEF RecordOpen, JTypeOK
<1> HIDE DEF o, m
<1>5. Tracks(s)'
  BY <1>1, <1>2, <1>3, <1>4 DEF Tracks
<1>6. Spent(s) = 0 /\ Spent(s)' = m * fill + fee
  BY <1>1, <1>2, <1>3, <1>4 DEF Spent, Known
<1>7. m * fill \in Int
  BY <1>1
<1>8. s \notin parted => net[s] - Spent(s)' = Account(s)' + unbooked[s]
  BY <1>1, <1>2, <1>6, <1>7 DEF Agrees, JTypeOK
<1>9. QED
  BY <1>3, <1>4, <1>5, <1>8 DEF Agrees

\* A closing or flipping fill: the round trip's net P&L joins the statement.
LEMMA CloseKeeps ==
    ASSUME TypeOK, JTypeOK, NEW s \in Symbols, Agrees(s), NEW d \in Sides, NEW n \in Lots,
           NEW fill \in Prices, NEW fee \in Fees, Fill(s, d, n, fill, fee),
           pos[s].qty # 0, pos[s].qty * (pos[s].qty + d * n) <= 0,
           RecordClose(s, pos[s].qty + d * n, fill, fee)
    PROVE  net'[s] \in Int /\ opened'[s] \in Entries /\ Agrees(s)'
<1> DEFINE q == pos[s].qty
           m == d * n
           k == Known(s)
           o == OpenTrade(q + m, fill, 0)
<1>1. q \in Int /\ q # 0 /\ m \in Int /\ fill \in Nat /\ fee \in Nat
  BY BrokerAssumption DEF BrokerAssumption, Sides, Lots, TypeOK, Positions
<1>2. /\ Account(s) \in Int /\ pos'[s].qty = q + m
      /\ pos'[s].basis = fill * Magnitude(q + m)
      /\ Account(s)' = Account(s) - m * fill - fee
  <2>1. pos'[s].qty = q + m /\ q * pos'[s].qty <= 0
    BY FillMoves
  <2>2. QED
    BY <2>1, FillMoves
<1>3. k \in Entries /\ k.side * k.qty = q
  BY <1>1, KnownTracks DEF Agrees, Entries
<1>4. PICK g \in {1, 0, -1}, v \in Nat, c \in Nat, f \in Nat :
          g = k.side /\ v = k.qty /\ c = k.cost /\ f = k.fees /\ g * v = q
  BY <1>3 DEF Entries
<1>5. PICK x \in Int, y \in Int, w \in Int :
          /\ x = q * fill /\ y = m * fill /\ w = g * c
          /\ (q + m) * fill = x + y /\ (q + m = 0 => x + y = 0)
  <2>1. fill \in Int /\ g * c \in Int
    BY <1>1, <1>4
  <2>2. /\ q * fill \in Int /\ m * fill \in Int /\ (q + m) * fill = q * fill + m * fill
        /\ (q + m = 0 => q * fill + m * fill = 0)
    BY <1>1, <2>1, Distribute
  <2>3. QED
    BY <2>1, <2>2
<1>6. Net(k, fill, fee) = x - w - f - fee
  <2>1. Net(k, fill, fee) = g * (fill * v - c) - (f + fee)
    BY <1>4 DEF Net
  <2>2. g * (fill * v - c) = (g * v) * fill - g * c
    BY <1>1, <1>4
  <2>3. g * (fill * v - c) = x - w
    BY <1>4, <1>5, <2>2
  <2>4. QED
    BY <1>1, <1>4, <1>5, <2>1, <2>3
<1>7. Spent(s) = w + f
  BY <1>1, <1>4, <1>5 DEF Spent
<1>8. /\ net'[s] = net[s] + Net(k, fill, fee) /\ parted' = parted /\ unbooked' = unbooked
      /\ opened'[s] = IF q + m = 0 THEN None ELSE o
  BY DEF RecordClose, JTypeOK
<1>9. q + m # 0 => /\ o \in Entries /\ o # None /\ o.side * o.qty = q + m /\ o.qty > 0
                   /\ o.side * o.cost + o.fees = x + y
                   /\ o.cost = fill * Magnitude(q + m)
  <2>1. SUFFICES ASSUME q + m # 0
                 PROVE /\ o \in Entries /\ o # None /\ o.side * o.qty = q + m /\ o.qty > 0
                       /\ o.side * o.cost + o.fees = x + y
                       /\ o.cost = fill * Magnitude(q + m)
    OBVIOUS
  <2>2. PICK a \in Int : a = q + m /\ a # 0
    BY <1>1, <2>1
  <2>3. a * fill = x + y
    BY <1>5, <2>2
  <2>4. o = OpenTrade(a, fill, 0)
    BY <2>2
  <2> HIDE DEF o, q, m
  <2>5. /\ o \in Entries /\ o # None /\ o.side * o.qty = a /\ o.qty > 0
        /\ o.side * o.cost + o.fees = a * fill + 0
    <3>1. a \in Int /\ a # 0 /\ fill \in Nat /\ 0 \in Nat
      BY <1>1, <2>2
    <3>2. /\ OpenTrade(a, fill, 0) \in Entries /\ OpenTrade(a, fill, 0) # None
          /\ OpenTrade(a, fill, 0).side * OpenTrade(a, fill, 0).qty = a
          /\ OpenTrade(a, fill, 0).qty > 0
          /\ OpenTrade(a, fill, 0).side * OpenTrade(a, fill, 0).cost
                 + OpenTrade(a, fill, 0).fees = a * fill + 0
      BY ONLY <3>1, Opens DEF Entries
    <3>3. QED
      BY <2>4, <3>2, Zenon
  <2>6. o.cost = fill * Magnitude(q + m)
    BY <2>2, <2>4 DEF OpenTrade
  <2>7. QED
    BY <1>5, <2>2, <2>3, <2>5, <2>6
<1>10. /\ Account(s) \in Int /\ pos'[s].qty = q + m
       /\ pos'[s].basis = fill * Magnitude(q + m)
       /\ Account(s)' = Account(s) - y - fee
  BY <1>2, <1>5
<1> HIDE DEF o, m, q, k
<1>11. net'[s] \in Int /\ opened'[s] \in Entries
  BY <1>1, <1>4, <1>6, <1>8, <1>9 DEF JTypeOK, Entries, None
<1>12. Tracks(s)'
  BY <1>8, <1>9, <1>10 DEF Tracks
<1>13. Spent(s)' = x + y
  <2>1. CASE q + m = 0
    BY <1>5, <1>10, <2>1 DEF Spent
  <2>2. CASE q + m # 0
    BY <1>8, <1>9, <1>10, <2>2 DEF Spent, Known
  <2>3. QED
    BY <2>1, <2>2
<1>14. s \notin parted => net'[s] - Spent(s)' = Account(s)' + unbooked[s]
  <2>1. net[s] \in Int /\ unbooked[s] \in Int
        /\ (s \notin parted => net[s] - Spent(s) = Account(s) + unbooked[s])
    BY DEF Agrees, JTypeOK
  <2>2. net'[s] = net[s] + (x - w - f - fee)
    BY <1>6, <1>8
  <2>3. Account(s) \in Int /\ Account(s)' = Account(s) - y - fee
    BY <1>10
  <2>4. ASSUME s \notin parted PROVE net'[s] - Spent(s)' = Account(s)' + unbooked[s]
    <3>1. net[s] - (w + f) = Account(s) + unbooked[s]
      BY <1>7, <2>1, <2>4
    <3>2. PICK h \in Int, a \in Int, u \in Int :
              h = net[s] /\ a = Account(s) /\ u = unbooked[s]
      BY <2>1, <2>3
    <3>3. h - (w + f) = a + u
      BY <3>1, <3>2
    <3>4. fee \in Int /\ f \in Int
      BY <1>1, <1>4
    <3>5. net'[s] - Spent(s)' = h + (x - w - f - fee) - (x + y)
      BY <1>13, <2>2, <3>2, <3>4
    <3>6. Account(s)' + unbooked[s] = a - y - fee + u
      BY <2>3, <3>2, <3>4
    <3>7. h + (x - w - f - fee) - (x + y) = a - y - fee + u
      BY <3>3, <3>4
    <3>8. QED
      BY <3>5, <3>6, <3>7
  <2>5. QED
    BY <2>4
<1>15. QED
  BY <1>8, <1>11, <1>12, <1>14 DEF Agrees

\* More of the same joins the open trade; a partial exit lowers its size, and
\* a position without a trade stays without one.
LEMMA AddKeeps ==
    ASSUME TypeOK, JTypeOK, NEW s \in Symbols, Agrees(s), NEW d \in Sides, NEW n \in Lots,
           NEW fill \in Prices, NEW fee \in Fees, Fill(s, d, n, fill, fee),
           pos[s].qty * (pos[s].qty + d * n) > 0, RecordAdd(s, d, n, fill, fee)
    PROVE  opened'[s] \in Entries /\ unbooked'[s] \in Nat /\ Agrees(s)'
<1> DEFINE o == opened[s]
           grown == Grown(o, n, fill, fee)
           cut == Cut(o, n)
<1>1. PICK q \in Int, m \in Int, b \in Nat :
          /\ q = pos[s].qty /\ m = d * n /\ b = pos[s].basis
          /\ (d = 1 /\ m = n) \/ (d = -1 /\ m = -n)
  BY BrokerAssumption DEF BrokerAssumption, Sides, Lots, TypeOK, Positions
<1>2. /\ n \in Nat /\ n > 0 /\ fill \in Nat /\ fee \in Nat
      /\ (q > 0 /\ q + m > 0) \/ (q < 0 /\ q + m < 0)
  BY <1>1, BrokerAssumption DEF BrokerAssumption, Lots
<1>3. PICK x \in Nat : x = fill * n /\ m * fill = IF d = 1 THEN x ELSE -x
  <2>1. fill * n \in Nat
    BY <1>2, Products
  <2>2. n * fill = fill * n /\ (-n) * fill = -(fill * n)
    BY <1>2
  <2>3. QED
    BY <1>1, <2>1, <2>2
<1>4. q * pos'[s].qty > 0
  BY <1>1, FillMoves
<1>5. /\ Account(s) \in Int /\ pos'[s].qty = q + m /\ pos'[s].basis = b + x
      /\ Account(s)' = Account(s) - (IF d = 1 THEN x ELSE -x) - fee
  BY <1>1, <1>3, <1>4, FillMoves
<1>6. /\ o \in Entries /\ unbooked[s] \in Nat /\ net[s] \in Int
      /\ o # None => /\ o.side * o.qty = q /\ o.qty > 0
                     /\ s \notin parted => o.cost = b
      /\ s \notin parted => net[s] - Spent(s) = Account(s) + unbooked[s]
  BY <1>1 DEF Agrees, JTypeOK, Entries, Tracks
<1>7. /\ net' = net /\ (s \notin parted' => s \notin parted)
      /\ opened'[s] = IF o = None THEN None ELSE IF d = Sign(q) THEN grown ELSE cut
      /\ unbooked'[s] = unbooked[s] + IF d = Sign(q) /\ o = None THEN fee ELSE 0
      /\ d # Sign(q) => s \in parted'
  BY <1>1 DEF RecordAdd, JTypeOK
<1>8. CASE o = None
  <2>1. opened'[s] = None
    BY <1>7, <1>8
  <2>2. None \in Entries /\ unbooked'[s] \in Nat
    BY <1>2, <1>6, <1>7 DEF Entries, None
  <2>3. Tracks(s)'
    BY <2>1 DEF Tracks
  <2>4. ASSUME s \notin parted' PROVE net'[s] - Spent(s)' = Account(s)' + unbooked'[s]
    <3>1. d = Sign(q) /\ s \notin parted
      BY <1>7, <2>4
    <3>2. Sign(q) = d /\ Sign(q + m) = d /\ d \in {1, -1}
      BY <1>1, <1>2, <3>1 DEF Sign
    <3>3. Known(s).side = d /\ Known(s).cost = b /\ Known(s).fees = 0
      BY <1>1, <1>8, <3>2 DEF Known
    <3>4. Known(s)'.side = d /\ Known(s)'.cost = b + x /\ Known(s)'.fees = 0
      BY <1>5, <2>1, <3>2 DEF Known
    <3>5. Spent(s) = (IF d = 1 THEN b ELSE -b)
          /\ Spent(s)' = IF d = 1 THEN b + x ELSE -b - x
      BY <1>1, <1>2, <1>5, <3>2, <3>3, <3>4 DEF Spent
    <3>6. unbooked'[s] = unbooked[s] + fee /\ net'[s] = net[s]
      BY <1>7, <1>8, <3>1
    <3>7. Spent(s)' = Spent(s) + (IF d = 1 THEN x ELSE -x) /\ Spent(s) \in Int
      BY <3>5
    <3>8. net[s] - Spent(s) = Account(s) + unbooked[s]
      BY <1>6, <3>1
    <3>9. CASE d = 1
      BY <1>2, <1>5, <1>6, <3>6, <3>7, <3>8, <3>9
    <3>10. CASE d # 1
      BY <1>2, <1>5, <1>6, <3>6, <3>7, <3>8, <3>10
    <3>11. QED
      BY <3>9, <3>10
  <2>5. QED
    BY <2>1, <2>2, <2>3, <2>4 DEF Agrees
<1>9. CASE o # None
  <2>1. PICK g \in {1, 0, -1}, v \in Nat, c \in Nat, f \in Nat :
            o = [side |-> g, qty |-> v, cost |-> c, fees |-> f] /\ g * v = q /\ v > 0
    BY <1>6, <1>9 DEF Entries
  <2>2. g = Sign(q) /\ g # 0
    BY <1>2, <2>1 DEF Sign
  <2>3. unbooked'[s] = unbooked[s]
    BY <1>6, <1>7, <1>9
  <2>4. CASE d = g
    <3>1. opened'[s] = [side |-> g, qty |-> v + n, cost |-> c + x, fees |-> f + fee]
      <4>1. grown = [side |-> g, qty |-> v + n, cost |-> c + x, fees |-> f + fee]
        BY <1>3, <2>1 DEF Grown
      <4>2. QED
        BY <1>1, <1>7, <1>9, <2>2, <2>4, <4>1
    <3>2. opened'[s] \in Entries /\ opened'[s] # None
      BY <1>2, <2>1, <2>2, <3>1 DEF Entries, None
    <3>3. Tracks(s)'
      <4>1. g * (v + n) = q + m
        BY <1>1, <1>2, <2>1, <2>2, <2>4
      <4>2. v + n > 0 /\ q + m # 0
        BY <1>1, <1>2, <2>1
      <4>3. s \notin parted' => c + x = b + x
        BY <1>6, <1>7, <1>9, <2>1
      <4>4. QED
        BY <1>5, <3>1, <4>1, <4>2, <4>3 DEF Tracks
    <3>4. Spent(s) = g * c + f /\ Spent(s)' = g * (c + x) + (f + fee)
      BY <1>1, <1>2, <1>5, <1>9, <2>1, <3>1, <3>2 DEF Spent, Known
    <3>5. s \notin parted' => net'[s] - Spent(s)' = Account(s)' + unbooked'[s]
      <4>1. Spent(s)' = Spent(s) + (IF d = 1 THEN x ELSE -x) + fee /\ Spent(s) \in Int
        BY <1>2, <2>1, <2>2, <2>4, <3>4
      <4>2. net'[s] = net[s] /\ (s \notin parted' => s \notin parted)
        BY <1>7
      <4>3. QED
        BY <1>2, <1>5, <1>6, <2>3, <4>1, <4>2
    <3>6. QED
      BY <1>6, <2>3, <3>2, <3>3, <3>5 DEF Agrees
  <2>5. CASE d # g
    <3>1. opened'[s] = [side |-> g, qty |-> v - n, cost |-> (c \div v) * (v - n), fees |-> f]
      <4>1. cut = [side |-> g, qty |-> v - n, cost |-> (c \div v) * (v - n), fees |-> f]
        BY <2>1 DEF Cut
      <4>2. QED
        BY <1>1, <1>7, <1>9, <2>2, <2>5, <4>1
    <3>2. v - n \in Nat /\ v - n > 0 /\ g * (v - n) = q + m
      BY <1>1, <1>2, <2>1, <2>2, <2>5
    <3>3. (c \div v) * (v - n) \in Nat
      BY <2>1, <3>2, Products
    <3>4. opened'[s] \in Entries
      BY <2>1, <3>1, <3>2, <3>3 DEF Entries
    <3>5. s \in parted'
      BY <1>7, <2>2, <2>5
    <3>6. Tracks(s)'
      BY <1>2, <1>5, <3>1, <3>2, <3>5 DEF Tracks
    <3>7. QED
      BY <1>6, <2>3, <3>4, <3>5, <3>6 DEF Agrees
  <2>6. QED
    BY <2>4, <2>5
<1>10. QED
  BY <1>8, <1>9

-------------------------------------------------------------------------------
(* Theorems.                                                               *)

LEMMA JInvInit == JInit => JInv
<1> SUFFICES ASSUME JInit PROVE JInv
  OBVIOUS
<1>1. IInv /\ TypeOK
  BY InvInit DEF JInit, IInv
<1>2. JTypeOK
  BY DEF JInit, JTypeOK, None
<1>3. ASSUME NEW s \in Symbols
      PROVE  opened[s] = None /\ net[s] = 0 /\ unbooked[s] = 0 /\ pos[s] = NoPosition
             /\ flow[s] = 0 /\ kind[s] \in Kinds
  BY <1>1 DEF JInit, Init, TypeOK
<1>4. ASSUME NEW s \in Symbols PROVE Agrees(s)
  <2>1. Account(s) = 0
    BY <1>3, Flat DEF Account
  <2>2. Spent(s) = 0 /\ Tracks(s)
    BY <1>3 DEF Spent, Tracks, NoPosition
  <2>3. QED
    BY <1>3, <2>1, <2>2 DEF Agrees
<1>5. QED
  BY <1>1, <1>2, <1>4 DEF JInv, JournalAgrees, Agrees

\* A journalled fill disturbs its own symbol only.
LEMMA ExecuteKeeps ==
    ASSUME TypeOK, TypeOK', JTypeOK, JournalAgrees, NEW s \in Symbols, Execute(s)
    PROVE  JTypeOK' /\ JournalAgrees'
<1>1. PICK d \in Sides, n \in Lots, fill \in Prices, fee \in Fees :
          Fill(s, d, n, fill, fee) /\ RecordFill(s, d, n, fill, fee)
  BY DEF Execute, Sides, Lots
<1>2. \A t \in Symbols : Agrees(t)
  BY DEF JournalAgrees, Agrees
<1>3. /\ kind' = kind
      /\ \A t \in Symbols \ {s} : pos'[t] = pos[t] /\ Account(t)' = Account(t)
  BY <1>1, FillMoves
<1>4. PICK q \in Int, m \in Int : q = pos[s].qty /\ m = d * n
  BY BrokerAssumption DEF BrokerAssumption, Sides, Lots, TypeOK, Positions
<1>5. /\ opened'[s] \in Entries /\ net'[s] \in Int /\ unbooked'[s] \in Nat /\ Agrees(s)'
      /\ opened' = [opened EXCEPT ![s] = opened'[s]]
      /\ net' = [net EXCEPT ![s] = net'[s]]
      /\ unbooked' = [unbooked EXCEPT ![s] = unbooked'[s]]
      /\ parted' = parted \/ parted' = parted \cup {s}
  <2>1. CASE q = 0 /\ RecordOpen(s, q + m, fill, fee)
    <3>1. opened'[s] \in Entries /\ Agrees(s)'
      BY <1>1, <1>2, <1>4, <2>1, OpenKeeps
    <3>2. QED
      BY <2>1, <3>1 DEF RecordOpen, JTypeOK
  <2>2. CASE q # 0 /\ q * (q + m) <= 0 /\ RecordClose(s, q + m, fill, fee)
    <3>1. net'[s] \in Int /\ opened'[s] \in Entries /\ Agrees(s)'
      BY <1>1, <1>2, <1>4, <2>2, CloseKeeps
    <3>2. QED
      BY <2>2, <3>1 DEF RecordClose, JTypeOK
  <2>3. CASE q * (q + m) > 0 /\ RecordAdd(s, d, n, fill, fee)
    <3>1. opened'[s] \in Entries /\ unbooked'[s] \in Nat /\ Agrees(s)'
      BY <1>1, <1>2, <1>4, <2>3, AddKeeps
    <3>2. QED
      BY <2>3, <3>1 DEF RecordAdd, JTypeOK
  <2>4. QED
    BY <1>1, <1>4, <2>1, <2>2, <2>3 DEF RecordFill
<1>6. JTypeOK'
  BY <1>5 DEF JTypeOK, Entries
<1>7. ASSUME NEW t \in Symbols \ {s} PROVE Agrees(t)'
  <2>1. /\ opened'[t] = opened[t] /\ net'[t] = net[t] /\ unbooked'[t] = unbooked[t]
        /\ pos'[t] = pos[t] /\ Account(t)' = Account(t) /\ (t \in parted' <=> t \in parted)
    BY <1>3, <1>5, <1>7 DEF JTypeOK
  <2>2. Spent(t)' = Spent(t) /\ (Tracks(t) <=> Tracks(t)')
    BY <2>1 DEF Spent, Known, Tracks
  <2>3. Agrees(t)
    BY <1>2
  <2>4. QED
    BY <2>1, <2>2, <2>3 DEF Agrees
<1>8. QED
  BY <1>5, <1>6, <1>7 DEF JournalAgrees, Agrees

LEMMA AccountInt == TypeOK => \A s \in Symbols : Account(s) \in Int
<1> SUFFICES ASSUME TypeOK, NEW s \in Symbols PROVE Account(s) \in Int
  OBVIOUS
<1>1. kind[s] \in Kinds /\ pos[s] \in Positions /\ flow[s] \in Int
  BY DEF TypeOK
<1>2. Withheld(kind[s], pos[s]) \in Int
  BY <1>1 DEF Withheld, Kinds, Positions
<1>3. QED
  BY <1>1, <1>2 DEF Account

\* A restart over a kept book forgets the open trades and their fees.
LEMMA RestartKeeps ==
    ASSUME JInv, Restart
    PROVE  JInv'
<1> USE DEF Restart
<1>1. IInv'
  BY DEF JInv, IInv, TypeOK, DefinedRisk, Covered, Magnitude, Fits, CashAddsUp
<1>2. JTypeOK'
  BY DEF JInv, JTypeOK, None
<1>3. ASSUME NEW s \in Symbols PROVE Agrees(s)'
  <2>1. /\ opened'[s] = None /\ pos' = pos /\ net' = net /\ parted' = parted
        /\ unbooked'[s] = unbooked[s] + opened[s].fees /\ Account(s)' = Account(s)
    BY DEF Account
  <2>2. Tracks(s)'
    BY <2>1 DEF Tracks
  <2>3. pos[s].qty \in Int /\ pos[s].basis \in Nat /\ opened[s] \in Entries
        /\ Tracks(s) /\ net[s] \in Int /\ unbooked[s] \in Nat
        /\ (s \notin parted => net[s] - Spent(s) = Account(s) + unbooked[s])
    BY DEF JInv, IInv, TypeOK, Positions, JTypeOK, JournalAgrees, Entries
  <2>4. ASSUME s \notin parted
        PROVE  Spent(s)' = Spent(s) - opened[s].fees /\ Spent(s) \in Int
    <3>1. CASE pos[s].qty = 0
      BY <2>1, <2>3, <3>1 DEF Spent, Tracks, None
    <3>2. CASE pos[s].qty # 0 /\ opened[s] = None
      <4>1. Sign(pos[s].qty) \in {1, -1}
        BY <2>3, <3>2, Signs
      <4>2. QED
        BY <2>1, <2>3, <3>2, <4>1 DEF Spent, Known, None
    <3>3. CASE pos[s].qty # 0 /\ opened[s] # None
      <4>1. PICK g \in {1, 0, -1}, v \in Nat, c \in Nat, f \in Nat :
                opened[s] = [side |-> g, qty |-> v, cost |-> c, fees |-> f]
        BY <2>3 DEF Entries
      <4>2. g * v = pos[s].qty /\ v > 0 /\ c = pos[s].basis
        BY <2>3, <2>4, <3>3, <4>1 DEF Tracks
      <4>3. g = Sign(pos[s].qty) /\ g \in {1, -1}
        BY <2>3, <3>3, <4>1, <4>2 DEF Sign
      <4>4. Spent(s) = g * c + f
        BY <3>3, <4>1 DEF Spent, Known
      <4>5. Spent(s)' = g * c + 0
        BY <2>1, <3>3, <4>2, <4>3 DEF Spent, Known
      <4>6. QED
        BY <4>1, <4>3, <4>4, <4>5
    <3>4. QED
      BY <3>1, <3>2, <3>3
  <2>5. ASSUME s \notin parted PROVE net'[s] - Spent(s)' = Account(s)' + unbooked'[s]
    <3>1. opened[s].fees \in Nat /\ Account(s) \in Int
      BY <2>3, AccountInt DEF Entries, JInv, IInv
    <3>2. QED
      BY <2>1, <2>3, <2>4, <2>5, <3>1
  <2>6. QED
    BY <2>1, <2>2, <2>5 DEF Agrees
<1>4. QED
  BY <1>1, <1>2, <1>3 DEF JInv, JournalAgrees, Agrees

LEMMA JInvStep == JInv /\ [JNext]_<<vars, journal>> => JInv'
<1> SUFFICES ASSUME JInv, [JNext]_<<vars, journal>> PROVE JInv'
  OBVIOUS
<1>1. ASSUME NEW s \in Symbols, Execute(s) PROVE JInv'
  <2>1. [Next]_vars
    BY <1>1 DEF Execute, PlaceOrder, Next
  <2>2. IInv'
    BY <2>1, InvStep DEF JInv
  <2>3. JTypeOK' /\ JournalAgrees'
    BY <1>1, <2>2, ExecuteKeeps DEF JInv, IInv
  <2>4. QED
    BY <2>2, <2>3 DEF JInv
<1>2. CASE UpdateMarks /\ UNCHANGED journal
  <2>1. IInv'
    BY <1>2, InvStep DEF JInv, Next
  <2>2. UNCHANGED <<journal, kind, pos, flow>>
    BY <1>2 DEF UpdateMarks
  <2>3. QED
    BY <2>1, <2>2 DEF JInv, JTypeOK, JournalAgrees, journal, Tracks, Spent, Known, Account
<1>3. CASE Restart
  BY <1>3, RestartKeeps
<1>4. CASE UNCHANGED <<vars, journal>>
  <2>1. IInv'
    BY <1>4, InvStep DEF JInv
  <2>2. QED
    BY <1>4, <2>1 DEF JInv, JTypeOK, JournalAgrees, journal, vars, Tracks, Spent, Known, Account
<1>5. QED
  BY <1>1, <1>2, <1>3, <1>4 DEF JNext

THEOREM JInvariance == JSpec => []JInv
BY JInvInit, JInvStep, PTL DEF JSpec

\* The statement agrees with the cash: of every symbol without a partial exit,
\* the net P&L of the closed trades less what the open one has cost is what
\* its orders did to the account, but for entry fees a restart forgot.
THEOREM StatementAgrees == JSpec => []JournalAgrees
BY JInvariance, PTL DEF JInv

\* The journal is well typed.
THEOREM JTypeCorrect == JSpec => []JTypeOK
BY JInvariance, PTL DEF JInv

\* With its journal, and across restarts over a kept book, the broker still
\* implements the ledger.
LEMMA JLedgerStep ==
    JInv /\ [JNext]_<<vars, journal>> =>
        [L!Next]_<<[s \in Symbols |-> pos[s].qty], [s \in Symbols |-> Account(s)]>>
<1> DEFINE ledger == <<[s \in Symbols |-> pos[s].qty], [s \in Symbols |-> Account(s)]>>
<1> SUFFICES ASSUME JInv, [JNext]_<<vars, journal>> PROVE [L!Next]_ledger
  OBVIOUS
<1>1. CASE Restart
  BY <1>1 DEF Restart, Account
<1>2. CASE [Next]_vars
  BY <1>2, LedgerStep DEF JInv, IInv
<1>3. QED
  BY <1>1, <1>2 DEF JNext, Next, Execute, PlaceOrder, vars

THEOREM JRefinement == JSpec => KeepsLedger
<1>1. JInit => L!Init
  BY LedgerInit DEF JInit
<1>2. QED
  BY <1>1, JInvariance, JLedgerStep, PTL DEF JSpec, KeepsLedger, L!Spec

\* With its journal, and across restarts, the equity is still the net worth.
THEOREM JEquityIsNetWorth == JSpec => []EquityIsWorthButLongFutures
BY JInvariance, EquityOf, PTL DEF JInv
===============================================================================
