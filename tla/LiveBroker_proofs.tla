--------------------------- MODULE LiveBroker_proofs ---------------------------
(***************************************************************************)
(* For any watchlist and limits: the account carries one entry of a symbol *)
(* unless an order met another, and the day is not stopped early but by a  *)
(* true loss or gain, the operator's file, or after a false reading.       *)
(*                                                                         *)
(* The strengthening: what is in flight of a symbol that no order was      *)
(* doubled on is one entry on a flat symbol or the close of what is held,  *)
(* and a baseline that is false was taken in a reading that was.           *)
(***************************************************************************)
EXTENDS LiveBroker, TLAPS

(* At rest, or one unit of buy or of sell in flight.                        *)
Single(n, f) ==
    \/ n \in {-1, 0, 1} /\ f[1] = 0 /\ f[-1] = 0
    \/ n \in {-1, 0} /\ f[1] = 1 /\ f[-1] = 0
    \/ n \in {0, 1} /\ f[-1] = 1 /\ f[1] = 0

Singles == \A s \in Symbols \ doubled : Single(net[s], flight[s])
FalseIsKnown == base = "false" => misread

IInv == TypeOK /\ Singles /\ FalseIsKnown

-------------------------------------------------------------------------------
LEMMA SentType ==
    ASSUME TypeOK, NEW s \in Symbols, NEW d \in Sides, NEW n \in Int,
           flight[s][d] + n \in Nat
    PROVE  /\ Sent(flight, s, d, n) \in [Symbols -> [Sides -> Nat]]
           /\ \A r \in Symbols : r # s => Sent(flight, s, d, n)[r] = flight[r]
           /\ Sent(flight, s, d, n)[s] = [flight[s] EXCEPT ![d] = @ + n]
BY DEF Sent, TypeOK

LEMMA ReadType ==
    ASSUME TypeOK, NEW view, NEW pnl, Read(view, pnl)
    PROVE  /\ base' \in {"none", "true", "false"} /\ misread' \in BOOLEAN
           /\ cash' \in {"unread", "good", "failed", "torn"}
<1>1. base' \in {"none", "true", "false"}
  BY DEF Read, Baseline, TypeOK
<1>2. misread' \in BOOLEAN
  BY Zenon DEF Read, TypeOK
<1>3. cash' = "unread"
  BY DEF Read
<1>4. QED
  BY <1>1, <1>2, <1>3

LEMMA SquareOffType ==
    ASSUME TypeOK, NEW view \in Views, NEW marks \in BOOLEAN, SquareOff(view, marks)
    PROVE  /\ net' \in [Symbols -> Int]
           /\ flight' \in [Symbols -> [Sides -> Nat]]
           /\ doubled' \subseteq Symbols
           /\ excuse' \in {"none", "blind", "refused", "inflight", "foreclosed"}
<1>1. PICK taken \in SUBSET view :
        /\ flight' = [s \in Symbols |->
             IF s \notin taken THEN flight[s]
             ELSE [d \in Sides |-> flight[s][d] + IF Opposing(s, d) THEN Magnitude(net[s]) ELSE 0]]
        /\ doubled' = doubled \cup {s \in taken : InFlight(s)}
  BY DEF SquareOff
<1>2. view \subseteq Symbols
  BY DEF Views, Held
<1>3. \A s \in Symbols : Magnitude(net[s]) \in Nat
  BY DEF Magnitude, TypeOK
<1>4. flight' \in [Symbols -> [Sides -> Nat]]
  BY <1>1, <1>3 DEF TypeOK
<1>5. excuse' \in {"none", "blind", "refused", "inflight", "foreclosed"}
  BY DEF SquareOff, Excused, TypeOK
<1>6. net' \in [Symbols -> Int]
  BY DEF SquareOff, TypeOK
<1>7. QED
  BY <1>1, <1>2, <1>4, <1>5, <1>6 DEF TypeOK

LEMMA EndOfDayType ==
    ASSUME TypeOK, NEW marks \in BOOLEAN, EndOfDay(marks)
    PROVE  /\ net' \in [Symbols -> Int]
           /\ flight' \in [Symbols -> [Sides -> Nat]]
           /\ doubled' \subseteq Symbols
           /\ excuse' \in {"none", "blind", "refused", "inflight", "foreclosed"}
           /\ marker' \in BOOLEAN
<1>1. CASE marks /\ marker
  BY <1>1 DEF EndOfDay, TypeOK, book
<1>2. CASE ~(marks /\ marker)
  <2>1. marker' \in BOOLEAN
    BY <1>2, Zenon DEF EndOfDay, Marked, TypeOK
  <2>2. PICK first \in Views, second \in Views :
          SquareOff(IF first = {} THEN {} ELSE second, marks)
    BY <1>2 DEF EndOfDay
  <2>3. (IF first = {} THEN {} ELSE second) \in Views
    BY DEF Views
  <2>4. QED
    BY <2>1, <2>2, <2>3, SquareOffType
<1>3. QED
  BY <1>1, <1>2

LEMMA TypeInit == Init => TypeOK
<1> SUFFICES ASSUME Init PROVE TypeOK
  OBVIOUS
<1>1. flight \in [Symbols -> [Sides -> Nat]]
  BY DEF Init
<1>2. sent \in 0 .. MaxEntries /\ starts \in 0 .. MaxStarts
  BY LiveAssumption DEF Init
<1>3. net \in [Symbols -> Int] /\ counted \in Nat
  BY DEF Init
<1>4. QED
  BY <1>1, <1>2, <1>3 DEF Init, TypeOK

LEMMA TypeStep == TypeOK /\ [Next]_vars => TypeOK'
<1> SUFFICES ASSUME TypeOK, [Next]_vars PROVE TypeOK'
  OBVIOUS
<1> USE DEF book, control, reading, Goes
<1>1. CASE TickKills
  <2>1. /\ base' \in {"none", "true", "false"} /\ misread' \in BOOLEAN
        /\ cash' \in {"unread", "good", "failed", "torn"}
    <3>1. CASE \E view \in Views : Read(view, "loss")
      BY <3>1, ReadType
    <3>2. CASE UNCHANGED reading
      BY <3>2 DEF TypeOK
    <3>3. QED
      BY <1>1, <3>1, <3>2 DEF TickKills
  <2>2. QED
    BY <1>1, <2>1, EndOfDayType DEF TickKills, TypeOK
<1>2. CASE TickManages
  BY <1>2 DEF TickManages, TypeOK
<1>15. CASE TickGoesOn
  BY <1>15, ReadType DEF TickGoesOn, TypeOK
<1>16. CASE ReadCash
  BY <1>16 DEF ReadCash, TypeOK
<1>17. CASE Operator
  <2>1. halted' \in BOOLEAN
    BY <1>17, Zenon DEF Operator, TypeOK
  <2>2. QED
    BY <1>17, <2>1 DEF Operator, TypeOK
<1>3. CASE TickLocks
  <2>1. PICK seen \in Views : Read(seen, "gain")
    BY <1>3 DEF TickLocks
  <2>2. PICK view \in Views : SquareOff(view, FALSE)
    BY <1>3 DEF TickLocks
  <2>3. QED
    BY <1>3, <2>1, <2>2, ReadType, SquareOffType DEF TickLocks, TypeOK
<1>4. CASE TickRests \/ TickEnds
  BY <1>4 DEF TickRests, TickEnds, TypeOK
<1>5. CASE TickSignals
  <2>1. /\ base' \in {"none", "true", "false"} /\ misread' \in BOOLEAN
        /\ cash' \in {"unread", "good", "failed", "torn"}
    BY <1>5, ReadType DEF TickSignals
  <2>2. QED
    BY <1>5, <2>1 DEF TickSignals, TypeOK
<1>6. ASSUME NEW s \in Symbols, Enter(s) PROVE TypeOK'
  <2>1. PICK seen \in Views, view \in Views, a \in Accepted, d \in EntrySides :
          /\ Read(seen, "even")
          /\ flight' = IF a.taken THEN Sent(flight, s, d, 1) ELSE flight
          /\ counted' = Count(a.status)
          /\ doubled' = IF a.taken /\ (InFlight(s) \/ s \in Held \ view) THEN doubled \cup {s} ELSE doubled
          /\ excuse' = IF a.taken /\ marker THEN Excused("foreclosed") ELSE excuse
    BY <1>6 DEF Enter
  <2>2. d \in Sides
    BY LiveAssumption DEF Sides
  <2>3. flight' \in [Symbols -> [Sides -> Nat]]
    <3>1. flight[s][d] + 1 \in Nat
      BY <2>2 DEF TypeOK
    <3>2. 1 \in Int
      OBVIOUS
    <3>4. Sent(flight, s, d, 1) \in [Symbols -> [Sides -> Nat]]
      BY <2>2, <3>1, <3>2, SentType
    <3>3. QED
      BY <2>1, <3>4 DEF TypeOK
  <2>4. counted' \in Nat
    BY <2>1 DEF Count, TypeOK
  <2>5. excuse' \in {"none", "blind", "refused", "inflight", "foreclosed"}
    BY <2>1 DEF Excused, TypeOK
  <2>6. sent' \in 0 .. MaxEntries
    BY <1>6, LiveAssumption DEF Enter, TypeOK
  <2>7. QED
    BY <1>6, <2>1, <2>3, <2>4, <2>5, <2>6, ReadType DEF Enter, TypeOK
<1>7. ASSUME NEW s \in Symbols, Skip(s) PROVE TypeOK'
  <2>1. /\ base' \in {"none", "true", "false"} /\ misread' \in BOOLEAN
        /\ cash' \in {"unread", "good", "failed", "torn"}
    BY <1>7, ReadType DEF Skip, TypeOK
  <2>2. QED
    BY <1>7, <2>1 DEF Skip, TypeOK
<1>8. CASE TickSquaresOff
  BY <1>8, EndOfDayType DEF TickSquaresOff, TypeOK
<1>9. CASE Stop
  <2>1. starts' \in 0 .. MaxStarts
    BY <1>9, LiveAssumption DEF Stop, TypeOK
  <2>2. QED
    BY <1>9, <2>1, EndOfDayType DEF Stop, TypeOK
<1>10. CASE StartLate
  <2>1. starts' \in 0 .. MaxStarts
    BY <1>10, LiveAssumption DEF StartLate, TypeOK
  <2>2. QED
    BY <1>10, <2>1, EndOfDayType DEF StartLate, TypeOK
<1>11. ASSUME NEW s \in Symbols, NEW d \in Sides, Fill(s, d) \/ Reject(s, d) PROVE TypeOK'
  <2>1. flight[s][d] + -1 \in Nat
    BY <1>11 DEF Fill, Reject, TypeOK
  <2>2. Sent(flight, s, d, -1) \in [Symbols -> [Sides -> Nat]]
    <3>1. -1 \in Int
      OBVIOUS
    <3>2. QED
      BY <2>1, <3>1, SentType
  <2>0. flight' \in [Symbols -> [Sides -> Nat]]
    BY <1>11, <2>2 DEF Fill, Reject
  <2>3. net' \in [Symbols -> Int]
    BY <1>11 DEF Fill, Reject, TypeOK, Sides
  <2>4. excuse' \in {"none", "blind", "refused", "inflight", "foreclosed"}
    BY <1>11 DEF Fill, Reject, Excused, TypeOK
  <2>6. cash' \in {"unread", "good", "failed", "torn"}
    BY <1>11 DEF Fill, Reject, Torn, TypeOK
  <2>5. QED
    BY <1>11, <2>0, <2>3, <2>4, <2>6 DEF Fill, Reject, TypeOK
<1>12. CASE PricesMove \/ ClockMoves
  BY <1>12 DEF PricesMove, ClockMoves, TypeOK
<1>13. CASE UNCHANGED vars
  BY <1>13 DEF vars, TypeOK
<1>14. QED
  BY <1>1, <1>2, <1>3, <1>4, <1>5, <1>6, <1>7, <1>8, <1>9, <1>10, <1>11, <1>12, <1>13,
     <1>15, <1>16, <1>17
     DEF Next, Exchange

\* The account, the flags and the tick stay well typed.
THEOREM TypeCorrect == Spec => []TypeOK
BY TypeInit, TypeStep, PTL DEF Spec

-------------------------------------------------------------------------------
(* One unit of a symbol. *)

LEMMA SquareOffSingles ==
    ASSUME TypeOK, Singles, NEW view \in Views, NEW marks, SquareOff(view, marks)
    PROVE  Singles'
<1>1. PICK taken \in SUBSET view :
        /\ flight' = [s \in Symbols |->
             IF s \notin taken THEN flight[s]
             ELSE [d \in Sides |-> flight[s][d] + IF Opposing(s, d) THEN Magnitude(net[s]) ELSE 0]]
        /\ doubled' = doubled \cup {s \in taken : InFlight(s)}
  BY DEF SquareOff
<1>2. SUFFICES ASSUME NEW s \in Symbols, s \notin doubled' PROVE Single(net[s], flight'[s])
  BY DEF Singles, SquareOff
<1>3. Single(net[s], flight[s]) /\ net[s] \in Int
  BY <1>1, <1>2 DEF Singles, TypeOK
<1>4. CASE s \notin taken
  BY <1>1, <1>3, <1>4
<1>5. CASE s \in taken
  <2>1. ~InFlight(s)
    BY <1>1, <1>2, <1>5
  <2>2. net[s] # 0
    BY <1>5 DEF Views, Held
  <2>3. net[s] \in {-1, 1} /\ flight[s][1] = 0 /\ flight[s][-1] = 0
    BY <1>3, <2>1, <2>2 DEF Single, InFlight
  <2>4. flight'[s] = [d \in Sides |-> flight[s][d] + IF Opposing(s, d) THEN Magnitude(net[s]) ELSE 0]
    BY <1>1, <1>5
  <2>5. CASE net[s] = 1
    <3>1. Opposing(s, -1) /\ ~Opposing(s, 1) /\ Magnitude(net[s]) = 1
      BY <2>5 DEF Opposing, Magnitude
    <3>2. flight'[s][-1] = 1 /\ flight'[s][1] = 0
      BY <2>3, <2>4, <3>1 DEF Sides
    <3>3. QED
      BY <1>3, <2>5, <3>2 DEF Single
  <2>6. CASE net[s] = -1
    <3>1. Opposing(s, 1) /\ ~Opposing(s, -1) /\ Magnitude(net[s]) = 1
      <4>1. net[s] \in Int /\ net[s] < 0 /\ -net[s] = 1
        <5>1. net[s] \in Int /\ net[s] < 0 /\ net[s] + 1 = 0
          BY <1>3, <2>6
        <5>2. QED
          BY <5>1
      <4>2. QED
        BY <4>1 DEF Opposing, Magnitude
    <3>2. flight'[s][1] = 1 /\ flight'[s][-1] = 0
      BY <2>3, <2>4, <3>1 DEF Sides
    <3>3. QED
      BY <1>3, <2>6, <3>2 DEF Single
  <2>7. QED
    BY <2>3, <2>5, <2>6
<1>6. QED
  BY <1>4, <1>5

LEMMA EndOfDaySingles ==
    ASSUME TypeOK, Singles, NEW marks, EndOfDay(marks)
    PROVE  Singles'
<1>1. CASE marks /\ marker
  BY <1>1 DEF EndOfDay, Singles, book
<1>2. CASE ~(marks /\ marker)
  <2>1. PICK first \in Views, second \in Views :
          SquareOff(IF first = {} THEN {} ELSE second, marks)
    BY <1>2 DEF EndOfDay
  <2>2. (IF first = {} THEN {} ELSE second) \in Views
    BY DEF Views
  <2>3. QED
    BY <2>1, <2>2, SquareOffSingles
<1>3. QED
  BY <1>1, <1>2

LEMMA EnterSingles ==
    ASSUME TypeOK, Singles, NEW s \in Symbols, Enter(s)
    PROVE  Singles'
<1>1. PICK seen \in Views, view \in Views, a \in Accepted, d \in EntrySides :
        /\ Allowed(s, "even", view)
        /\ flight' = IF a.taken THEN Sent(flight, s, d, 1) ELSE flight
        /\ doubled' = IF a.taken /\ (InFlight(s) \/ s \in Held \ view) THEN doubled \cup {s} ELSE doubled
  BY DEF Enter
<1>2. d \in Sides
  BY LiveAssumption DEF Sides
<1>3. net' = net
  BY DEF Enter
<1>4. CASE ~a.taken
  BY <1>1, <1>3, <1>4 DEF Singles
<1>5. CASE a.taken
  <2>1. flight[s][d] + 1 \in Nat /\ 1 \in Int
    BY <1>2 DEF TypeOK
  <2>2. /\ flight' = Sent(flight, s, d, 1)
        /\ \A r \in Symbols : r # s => flight'[r] = flight[r]
        /\ flight'[s] = [flight[s] EXCEPT ![d] = @ + 1]
    BY <1>1, <1>2, <1>5, <2>1, SentType
  <2>3. SUFFICES ASSUME NEW r \in Symbols, r \notin doubled' PROVE Single(net[r], flight'[r])
    BY <1>3 DEF Singles
  <2>4. Single(net[r], flight[r]) /\ net[r] \in Int
    BY <1>1, <2>3 DEF Singles, TypeOK
  <2>5. CASE r # s
    BY <2>2, <2>4, <2>5
  <2>6. CASE r = s
    <3>1. ~InFlight(s) /\ s \notin Held \ view
      BY <1>1, <1>5, <2>3, <2>6
    <3>2. net[s] = 0
      BY <1>1, <3>1 DEF Allowed, Held
    <3>3. flight[s][1] = 0 /\ flight[s][-1] = 0
      BY <2>4, <2>6, <3>1 DEF Single, InFlight
    <3>4. flight[s] \in [Sides -> Nat]
      BY DEF TypeOK
    <3>5. \/ flight'[s][1] = 1 /\ flight'[s][-1] = 0
          \/ flight'[s][-1] = 1 /\ flight'[s][1] = 0
      <4>1. CASE d = 1
        BY <2>2, <3>3, <3>4, <4>1 DEF Sides
      <4>2. CASE d = -1
        BY <2>2, <3>3, <3>4, <4>2 DEF Sides
      <4>3. QED
        BY <1>2, <4>1, <4>2 DEF Sides
    <3>6. QED
      BY <2>4, <2>6, <3>2, <3>5 DEF Single
  <2>7. QED
    BY <2>5, <2>6
<1>6. QED
  BY <1>4, <1>5

\* Filled or rejected: what was in flight of the symbol is at rest.
LEMMA DecisionSingles ==
    ASSUME TypeOK, Singles, NEW s \in Symbols, NEW d \in Sides, Fill(s, d) \/ Reject(s, d)
    PROVE  Singles'
<1>1. flight[s][d] > 0 /\ doubled' = doubled
  BY DEF Fill, Reject
<1>2. flight[s][d] + -1 \in Nat /\ -1 \in Int
  BY <1>1 DEF TypeOK
<1>3. flight' = Sent(flight, s, d, -1)
  BY DEF Fill, Reject
<1>4. /\ \A r \in Symbols : r # s => flight'[r] = flight[r]
      /\ flight'[s] = [flight[s] EXCEPT ![d] = @ + -1]
  BY <1>2, <1>3, SentType
<1>5. \A r \in Symbols : r # s => net'[r] = net[r]
  BY DEF Fill, Reject, TypeOK
<1>6. net'[s] \in {net[s], net[s] + d}
  BY DEF Fill, Reject, TypeOK
<1>7. SUFFICES ASSUME NEW r \in Symbols, r \notin doubled PROVE Single(net'[r], flight'[r])
  BY <1>1 DEF Singles
<1>8. Single(net[r], flight[r]) /\ net[r] \in Int
  BY <1>7 DEF Singles, TypeOK
<1>9. CASE r # s
  BY <1>4, <1>5, <1>8, <1>9
<1>10. CASE r = s
  <2>1. flight[s] \in [Sides -> Nat]
    BY DEF TypeOK
  <2>2. CASE d = 1
    <3>1. flight[s][1] = 1 /\ flight[s][-1] = 0 /\ net[s] \in {-1, 0}
      BY <1>1, <1>8, <1>10, <2>2 DEF Single
    <3>2. flight'[s][1] = 0 /\ flight'[s][-1] = 0
      BY <1>4, <2>1, <2>2, <3>1 DEF Sides
    <3>3. net'[s] \in {-1, 0, 1} /\ net'[s] \in Int
      BY <1>6, <2>2, <3>1
    <3>4. QED
      BY <1>10, <3>2, <3>3 DEF Single
  <2>3. CASE d = -1
    <3>1. flight[s][-1] = 1 /\ flight[s][1] = 0 /\ net[s] \in {0, 1}
      BY <1>1, <1>8, <1>10, <2>3 DEF Single
    <3>2. flight'[s][1] = 0 /\ flight'[s][-1] = 0
      BY <1>4, <2>1, <2>3, <3>1 DEF Sides
    <3>3. net'[s] \in {-1, 0, 1} /\ net'[s] \in Int
      BY <1>6, <2>3, <3>1
    <3>4. QED
      BY <1>10, <3>2, <3>3 DEF Single
  <2>4. QED
    BY <2>2, <2>3 DEF Sides
<1>11. QED
  BY <1>9, <1>10

-------------------------------------------------------------------------------
(* The baseline. *)

LEMMA ReadKeepsKnown ==
    ASSUME FalseIsKnown, NEW view, NEW pnl, Read(view, pnl)
    PROVE  FalseIsKnown'
<1>1. CASE base = "false"
  BY <1>1 DEF Read, FalseIsKnown
<1>2. CASE base # "false"
  BY <1>2, Zenon DEF Read, Baseline, FalseIsKnown
<1>3. QED
  BY <1>1, <1>2

\* A loss or a gain is read because it is true, or because this reading or
\* the one that took the baseline was false.
LEMMA ReadIsEarned ==
    ASSUME TypeOK, FalseIsKnown, NEW view, NEW pnl \in {"loss", "gain"}, Read(view, pnl)
    PROVE  real = pnl \/ misread'
<1>1. CASE ~Whole(view)
  BY <1>1, Zenon DEF Read
<1>2. CASE base = "false"
  BY <1>2, Zenon DEF Read, FalseIsKnown
<1>3. CASE Whole(view) /\ base # "false"
  <2>1. base \in {"none", "true"}
    BY <1>3 DEF TypeOK
  <2>2. pnl \in Readings(view)
    BY DEF Read
  <2>3. CASE base = "none"
    BY <2>2, <2>3 DEF Readings
  <2>4. CASE base = "true"
    BY <1>3, <2>2, <2>4 DEF Readings
  <2>5. QED
    BY <2>1, <2>3, <2>4
<1>4. QED
  BY <1>1, <1>2, <1>3

-------------------------------------------------------------------------------
LEMMA SinglesStep == IInv /\ [Next]_vars => Singles'
<1> SUFFICES ASSUME TypeOK, Singles, [Next]_vars PROVE Singles'
  BY DEF IInv
<1>1. CASE \/ TickManages \/ TickGoesOn \/ TickRests \/ TickSignals \/ TickEnds
           \/ ReadCash \/ PricesMove \/ Operator \/ ClockMoves
           \/ (\E s \in Symbols : Skip(s)) \/ UNCHANGED vars
  <2>1. UNCHANGED <<net, flight, doubled>>
    BY <1>1 DEF TickManages, TickGoesOn, TickRests, TickSignals, TickEnds, ReadCash, PricesMove,
                Operator, ClockMoves, Skip, vars, book
  <2>2. QED
    BY <2>1 DEF Singles
<1>2. CASE TickKills \/ TickSquaresOff
  <2>1. EndOfDay(TRUE)
    BY <1>2 DEF TickKills, TickSquaresOff
  <2>2. QED
    BY <2>1, EndOfDaySingles
<1>3. CASE Stop \/ StartLate
  <2>1. EndOfDay(FALSE)
    BY <1>3 DEF Stop, StartLate
  <2>2. QED
    BY <2>1, EndOfDaySingles
<1>4. CASE TickLocks
  <2>1. PICK view \in Views : SquareOff(view, FALSE)
    BY <1>4 DEF TickLocks
  <2>2. QED
    BY <2>1, SquareOffSingles
<1>5. ASSUME NEW s \in Symbols, Enter(s) PROVE Singles'
  BY <1>5, EnterSingles
<1>6. ASSUME NEW s \in Symbols, Exchange(s) PROVE Singles'
  BY <1>6, DecisionSingles DEF Exchange
<1>7. QED
  BY <1>1, <1>2, <1>3, <1>4, <1>5, <1>6 DEF Next

LEMMA KnownStep == IInv /\ [Next]_vars => FalseIsKnown'
<1> SUFFICES ASSUME FalseIsKnown, [Next]_vars PROVE FalseIsKnown'
  BY DEF IInv
<1>1. CASE UNCHANGED <<base, misread>>
  BY <1>1 DEF FalseIsKnown
<1>2. ASSUME NEW view, NEW pnl, Read(view, pnl) PROVE FalseIsKnown'
  BY <1>2, ReadKeepsKnown
<1>3. CASE TickGoesOn \/ TickLocks \/ TickSignals
  BY <1>2, <1>3 DEF TickGoesOn, TickLocks, TickSignals
<1>4. CASE TickKills
  BY <1>1, <1>2, <1>4 DEF TickKills, reading
<1>5. ASSUME NEW s \in Symbols, Enter(s) \/ Skip(s) \/ Exchange(s) PROVE FalseIsKnown'
  <2>1. CASE Enter(s)
    BY <1>2, <2>1 DEF Enter
  <2>2. CASE Skip(s)
    BY <1>1, <1>2, <2>2 DEF Skip, reading
  <2>3. CASE Exchange(s)
    BY <1>1, <2>3 DEF Exchange, Fill, Reject, reading
  <2>4. QED
    BY <1>5, <2>1, <2>2, <2>3
<1>6. CASE \/ TickManages \/ TickRests \/ TickEnds \/ TickSquaresOff \/ ReadCash \/ Stop
           \/ StartLate \/ PricesMove \/ Operator \/ ClockMoves \/ UNCHANGED vars
  BY <1>1, <1>6 DEF TickManages, TickRests, TickEnds, TickSquaresOff, ReadCash, Stop, StartLate,
                    PricesMove, Operator, ClockMoves, vars, reading
<1>7. QED
  BY <1>3, <1>4, <1>5, <1>6 DEF Next

LEMMA InvInit == Init => IInv
<1>1. Init => Singles
  BY DEF Init, Singles, Single, Sides
<1>2. Init => FalseIsKnown
  BY DEF Init, FalseIsKnown
<1>3. QED
  BY <1>1, <1>2, TypeInit DEF IInv

LEMMA InvStep == IInv /\ [Next]_vars => IInv'
BY TypeStep, SinglesStep, KnownStep DEF IInv

THEOREM Invariance == Spec => []IInv
BY InvInit, InvStep, PTL DEF Spec

LEMMA SinglesAreOne == IInv => OneEntryPerSymbol
<1> SUFFICES ASSUME TypeOK, Singles, NEW s \in Symbols \ doubled
             PROVE  Magnitude(Exposure(s)) <= 1
  BY DEF IInv, OneEntryPerSymbol
<1>1. Single(net[s], flight[s]) /\ net[s] \in Int
  BY DEF Singles, TypeOK
<1>2. Exposure(s) \in {-1, 0, 1}
  BY <1>1 DEF Single, Exposure
<1>3. QED
  BY <1>2 DEF Magnitude

\* Without an order sent onto another in flight, or onto a book that could
\* not be read, the account carries at most one entry of each symbol.
THEOREM OneEntry == Spec => []OneEntryPerSymbol
BY Invariance, SinglesAreOne, PTL

LEMMA EarlyStep ==
    ASSUME IInv, Next, phase \in {"entry", "hold"}
    PROVE  StopIsEarned
<1> USE DEF IInv
<1>1. CASE TickKills
  <2>1. locked' = locked
    BY <1>1 DEF TickKills
  <2>2. halted \/ \E view \in Views : Read(view, "loss")
    BY <1>1 DEF TickKills
  <2>3. real = "loss" \/ halted \/ misread'
    BY <2>2, ReadIsEarned
  <2>4. QED
    BY <2>1, <2>3, Zenon DEF StopIsEarned
<1>2. CASE TickLocks
  <2>1. marker' = marker
    BY <1>2 DEF TickLocks
  <2>2. PICK view \in Views : Read(view, "gain")
    BY <1>2 DEF TickLocks
  <2>3. real = "gain" \/ misread'
    BY <2>2, ReadIsEarned
  <2>4. QED
    BY <2>1, <2>3, Zenon DEF StopIsEarned
<1>3. CASE Stop
  <2>1. marker' = marker
    <3>1. marker' = Marked(FALSE)
      BY <1>3 DEF Stop, EndOfDay
    <3>2. QED
      BY <3>1, Zenon DEF Marked, TypeOK
  <2>2. locked' \in {FALSE, locked}
    BY <1>3 DEF Stop
  <2>3. ~(locked' /\ ~locked)
    BY <2>2
  <2>4. QED
    BY <2>1, <2>3, Zenon DEF StopIsEarned
<1>4. CASE TickSquaresOff \/ StartLate
  BY <1>4 DEF TickSquaresOff, StartLate
<1>5. CASE UNCHANGED <<marker, locked>>
  BY <1>5, Zenon DEF StopIsEarned
<1>6. CASE \/ TickManages \/ TickGoesOn \/ TickRests \/ TickSignals \/ TickEnds
           \/ ReadCash \/ PricesMove \/ Operator \/ ClockMoves
  BY <1>5, <1>6 DEF TickManages, TickGoesOn, TickRests, TickSignals, TickEnds, ReadCash,
                    PricesMove, Operator, ClockMoves
<1>7. ASSUME NEW s \in Symbols, Enter(s) \/ Skip(s) \/ Exchange(s)
      PROVE  UNCHANGED <<marker, locked>>
  BY <1>7 DEF Enter, Skip, Exchange, Fill, Reject
<1>8. QED
  BY <1>1, <1>2, <1>3, <1>4, <1>5, <1>6, <1>7 DEF Next

\* Before square_off only a true loss or the operator's file ends the day,
\* and only a true gain locks it, unless a reading of the equity was false.
THEOREM EarlyStops == Spec => EarlyStopIsEarned
<1>1. IInv /\ [Next]_vars => [(phase \in {"entry", "hold"} => StopIsEarned)]_vars
  BY EarlyStep
<1>2. QED
  BY <1>1, Invariance, PTL DEF Spec, EarlyStopIsEarned
===============================================================================
