---------------------------- MODULE TrailStop_proofs ----------------------------
(***************************************************************************)
(* For any symbols, prices, distances, ticks and trail settings: stops are *)
(* only tightened, keep the share of R they have locked in, and stay       *)
(* behind the best price.                                                  *)
(***************************************************************************)
EXTENDS TrailStop, TLAPS

Positions == [side : {1, 0, -1}, avg : Nat, stop : Int, take : Int]
Trails == [entry : Nat, risk : Nat, peak : Nat, active : BOOLEAN]

-------------------------------------------------------------------------------
(* Division, rounding to ticks, and the better of two prices.              *)

LEMMA Division ==
    ASSUME NEW x \in Int, NEW n \in Nat, n > 0
    PROVE  /\ x \div n \in Int /\ n * (x \div n) \in Int
           /\ n * (x \div n) <= x /\ x < n * (x \div n) + n
           /\ n * (x \div n + 1) = n * (x \div n) + n
  OBVIOUS

LEMMA Multiples ==
    ASSUME NEW n \in Nat, n > 0, NEW i \in Int, NEW j \in Int
    PROVE  /\ n * i \in Int /\ n * j \in Int
           /\ n * i < n * j + n => n * i <= n * j
  <1>1. i > j => n * i >= n * j + n
    <2>1. ASSUME i > j PROVE n * i >= n * j + n
      <3>1. PICK k \in Nat : i = j + 1 + k
        <4>1. i - j - 1 \in Nat /\ i = j + 1 + (i - j - 1)
          BY <2>1
        <4>2. QED
          BY <4>1
      <3>2. n * i = n * j + n + n * k /\ n * k \in Nat
        BY <3>1
      <3>3. QED
        BY <3>2
    <2>2. QED
      BY <2>1
  <1>2. QED
    BY <1>1

\* A part of R is not more than R.
LEMMA Shares ==
    ASSUME ExitAssumption, NEW r \in Nat
    PROVE  r \div LockDen \in Nat /\ r \div LockDen <= r
  <1>1. LockDen \in Nat /\ LockDen > 0
    BY DEF ExitAssumption
  <1>2. PICK a \in Int : a = r \div LockDen /\ LockDen * a <= r /\ r < LockDen * a + LockDen
    BY <1>1, Division
  <1>3. a >= 0
    <2>1. ASSUME a < 0 PROVE FALSE
      <3>1. PICK k \in Nat : a = -1 - k
        <4>1. -1 - a \in Nat /\ a = -1 - (-1 - a)
          BY <2>1
        <4>2. QED
          BY <4>1
      <3>2. LockDen * a = -LockDen - LockDen * k /\ LockDen * k \in Nat
        BY <1>1, <3>1
      <3>3. QED
        BY <1>1, <1>2, <3>2
    <2>2. QED
      BY <2>1
  <1>4. LockDen * a >= a
    <2>1. PICK k \in Nat : LockDen = k + 1
      <3>1. LockDen - 1 \in Nat /\ LockDen = (LockDen - 1) + 1
        BY <1>1
      <3>2. QED
        BY <3>1
    <2>2. LockDen * a = k * a + a /\ k * a \in Nat
      BY <1>3, <2>1
    <2>3. QED
      BY <1>3, <2>2
  <1>5. QED
    BY <1>1, <1>2, <1>3, <1>4

\* A rounded price is on a tick, at most half a tick away, and on the same
\* side of every tick as the price.
LEMMA Rounding ==
    ASSUME ExitAssumption, NEW x \in Int, NEW g \in Rounded(x)
    PROVE  /\ g \in Int
           /\ 2 * (g - x) <= Tick /\ 2 * (x - g) <= Tick
           /\ \E j \in Int : g = Tick * j
           /\ \A j \in Int : /\ x >= Tick * j => g >= Tick * j
                             /\ x <= Tick * j => g <= Tick * j
  <1>1. Tick \in Nat /\ Tick > 0
    BY DEF ExitAssumption
  <1>2. PICK q \in Int, b \in Int :
            /\ q = x \div Tick /\ b = Tick * q
            /\ b <= x /\ x < b + Tick /\ Tick * (q + 1) = b + Tick
    BY <1>1, Division
  <1>3. g \in {b, b + Tick} /\ 2 * Abs(g - x) <= Tick
    BY <1>2 DEF Rounded
  <1>4. g \in Int /\ 2 * (g - x) <= Tick /\ 2 * (x - g) <= Tick
    BY <1>1, <1>3 DEF Abs
  <1>5. PICK i \in Int : g = Tick * i
    <2>1. CASE g = b
      BY <1>2, <2>1
    <2>2. CASE g = b + Tick
      <3>1. q + 1 \in Int /\ g = Tick * (q + 1)
        BY <1>2, <2>2
      <3>2. QED
        BY <3>1
    <2>3. QED
      BY <1>3, <2>1, <2>2
  <1>6. ASSUME NEW j \in Int
        PROVE  /\ x >= Tick * j => g >= Tick * j
               /\ x <= Tick * j => g <= Tick * j
    <2>1. PICK c \in Int : c = Tick * j
      BY <1>1
    <2>2. g < c + Tick => g <= c
      BY <1>1, <1>5, <2>1, Multiples
    <2>3. c < g + Tick => c <= g
      BY <1>1, <1>5, <2>1, Multiples
    <2>4. g > x - Tick /\ g < x + Tick
      BY <1>1, <1>4
    <2>5. QED
      BY <1>1, <1>4, <2>1, <2>2, <2>3, <2>4
  <1>7. QED
    BY <1>4, <1>5, <1>6

LEMMA BetterOf ==
    ASSUME NEW d \in {1, 0, -1}, NEW p \in Int, NEW q \in Int
    PROVE  /\ Better(d, p, q) \in {p, q}
           /\ d * Better(d, p, q) >= d * p /\ d * Better(d, p, q) >= d * q
           /\ Better(d, p, q) # p => d * q > d * p
  <1>1. d * p \in Int /\ d * q \in Int
    OBVIOUS
  <1>2. QED
    BY <1>1 DEF Better, Ahead

-------------------------------------------------------------------------------
(* The pieces of a pass.                                                   *)

LEMMA TrailOfType ==
    ASSUME TypeOK, NEW s \in Symbols
    PROVE  TrailOf(s) \in Trails /\ (TrailOf(s) # NoTrail => TrailOf(s).risk > 0)
  <1>1. pos[s].avg \in Nat /\ Abs(pos[s].avg - pos[s].stop) \in Nat
    <2>1. pos[s].avg \in Nat /\ pos[s].stop \in Int
      BY DEF TypeOK
    <2>2. QED
      BY <2>1 DEF Abs
  <1>2. trail[s] \in Trails /\ (trail[s] # NoTrail => trail[s].risk > 0)
    BY DEF TypeOK, Trails
  <1>3. QED
    BY <1>1, <1>2 DEF TrailOf, Trails

\* Only the peak moves, with the bar, and activation follows the peak.
LEMMA FollowedIs ==
    ASSUME NEW t \in Trails, NEW d \in {1, 0, -1},
           NEW bar \in [high : Nat, low : Nat, close : Nat]
    PROVE  \E peak \in Nat :
               /\ Followed(t, d, bar) = [entry |-> t.entry, risk |-> t.risk, peak |-> peak,
                      active |-> t.active \/ d * (peak - t.entry) >= t.risk]
               /\ peak \in {Extreme(d, bar), t.peak}
               /\ d * peak >= d * Extreme(d, bar) /\ d * peak >= d * t.peak
  <1> DEFINE peak == Better(d, Extreme(d, bar), t.peak)
  <1>1. Extreme(d, bar) \in Nat /\ t.peak \in Nat
    BY DEF Extreme, Trails
  <1>2. /\ peak \in Nat /\ peak \in {Extreme(d, bar), t.peak}
        /\ d * peak >= d * Extreme(d, bar) /\ d * peak >= d * t.peak
    <2>1. PICK e \in Int, k \in Int : e = Extreme(d, bar) /\ k = t.peak
      BY <1>1
    <2>2. /\ peak = Better(d, e, k) /\ peak \in {e, k}
          /\ d * peak >= d * e /\ d * peak >= d * k
      BY <2>1, BetterOf
    <2>3. QED
      BY <1>1, <2>1, <2>2
  <1>3. Followed(t, d, bar) = [entry |-> t.entry, risk |-> t.risk, peak |-> peak,
                      active |-> t.active \/ d * (peak - t.entry) >= t.risk]
    BY DEF Followed
  <1> HIDE DEF peak
  <1>4. QED
    BY <1>2, <1>3

\* The new stop is the old one, or one of the two floors, and as good as each.
LEMMA NewStopIs ==
    ASSUME ExitAssumption, NEW t \in Trails, NEW d \in {1, 0, -1}, NEW stop \in Int,
           NEW range \in Nat
    PROVE  LET x == NewStop(t, d, stop, range) IN
           /\ Distance(t, range) \in Nat /\ LockStop(t, d) \in Int /\ x \in Int
           /\ d * x >= d * stop /\ d * x >= d * LockStop(t, d)
           /\ x # stop => x \in {t.peak - d * Distance(t, range), LockStop(t, d)}
  <1>1. PICK e \in Nat, r \in Nat, k \in Nat : e = t.entry /\ r = t.risk /\ k = t.peak
    BY DEF Trails
  <1>2. PICK dist \in Nat : dist = Distance(t, range)
    <2>1. TrailMult \in Nat /\ (IF range > 0 THEN range ELSE t.risk) \in Nat
      BY <1>1 DEF ExitAssumption
    <2>2. \A i, j \in Nat : i * j \in Nat
      OBVIOUS
    <2>3. QED
      BY <2>1, <2>2 DEF Distance
  <1>3. PICK lock \in Int : lock = LockStop(t, d)
    <2>1. r \div LockDen \in Nat
      BY Shares
    <2>2. QED
      BY <1>1, <2>1 DEF LockStop
  <1>4. PICK atr \in Int : atr = k - d * dist
    OBVIOUS
  <1>5. PICK floor \in Int : /\ floor = Better(d, atr, lock) /\ floor \in {atr, lock}
                             /\ d * floor >= d * lock
    BY BetterOf
  <1>6. PICK x \in Int : /\ x = Better(d, stop, floor) /\ x \in {stop, floor}
                         /\ d * x >= d * stop /\ d * x >= d * floor
                         /\ x # stop => d * floor > d * stop
    BY BetterOf
  <1>7. x = NewStop(t, d, stop, range)
    BY <1>1, <1>2, <1>3, <1>4, <1>5, <1>6 DEF NewStop
  <1>8. d * x >= d * lock
    BY <1>5, <1>6
  <1>9. x # stop => x \in {t.peak - d * dist, lock}
    BY <1>1, <1>4, <1>5, <1>6
  <1>10. QED
    BY <1>2, <1>3, <1>6, <1>7, <1>8, <1>9

OnTick(x) == \E j \in Int : x = Tick * j

\* What the stop is set to: as good as the new stop but for rounding, and not
\* worse than a stop that was rounded already.
LEMMA Settles ==
    ASSUME ExitAssumption, NEW d \in {1, 0, -1}, NEW stop \in Int, NEW x \in Int,
           d * x >= d * stop,
           NEW g \in Updated(stop, x)
    PROVE  /\ g \in Int
           /\ NearlyAhead(d, g, x) /\ NearlyAhead(d, x, g) /\ NearlyAhead(d, g, stop)
           /\ x = stop => g = stop
           /\ x # stop => OnTick(g)
           /\ OnTick(stop) => d * g >= d * stop
  <1>1. Tick \in Nat /\ Tick > 0
    BY DEF ExitAssumption
  <1>2. CASE x = stop
    BY <1>1, <1>2 DEF NearlyAhead, Updated
  <1>3. CASE x # stop
    <2>1. /\ g \in Int /\ 2 * (g - x) <= Tick /\ 2 * (x - g) <= Tick
          /\ OnTick(g)
          /\ \A j \in Int : /\ x >= Tick * j => g >= Tick * j
                            /\ x <= Tick * j => g <= Tick * j
      BY <1>3, Rounding DEF OnTick, Updated
    <2>2. NearlyAhead(d, g, x) /\ NearlyAhead(d, x, g)
      BY <1>1, <2>1 DEF NearlyAhead
    <2>3. NearlyAhead(d, g, stop)
      <3>1. CASE d = 1
        BY <1>1, <2>1, <3>1 DEF NearlyAhead
      <3>2. CASE d = -1
        BY <1>1, <2>1, <3>2 DEF NearlyAhead
      <3>3. CASE d = 0
        BY <1>1, <2>1, <3>3 DEF NearlyAhead
      <3>4. QED
        BY <3>1, <3>2, <3>3
    <2>4. ASSUME OnTick(stop) PROVE d * g >= d * stop
      <3>1. PICK j \in Int, c \in Int : c = Tick * j /\ stop = c
        BY <2>4 DEF OnTick
      <3>2. (x >= c => g >= c) /\ (x <= c => g <= c)
        BY <2>1, <3>1
      <3>3. QED
        BY <2>1, <3>1, <3>2
    <2>5. QED
      BY <1>3, <2>1, <2>2, <2>3, <2>4
  <1>4. QED
    BY <1>2, <1>3

-------------------------------------------------------------------------------
(* Types: a held position has a side, so that moving its stop keeps it     *)
(* held.                                                                   *)

NatBars == {b \in [high : Nat, low : Nat, close : Nat] : b.low <= b.high}

Sided == \A s \in Held : pos[s].side \in {1, -1}

\* The ways a pass deals with a position that has a price.
Outcome(s, bar) ==
    \/ Exit(s, bar) \/ Hold(s, bar) \/ Raise(s, bar)
    \/ \E range \in Nat : Trail(s, bar, range)

LEMMA Managed ==
    ASSUME ExitAssumption, TypeOK, NEW s \in Symbols, Manage(s)
    PROVE  \/ Unmanaged(s)
           \/ s \in todo /\ \E bar \in NatBars : Outcome(s, bar)
  <1>1. CASE ManageBar(s)
    <2>1. PICK bar \in Bars : \/ Exit(s, bar) \/ Hold(s, bar)
                              \/ \E range \in Ranges : Trail(s, bar, range)
      BY <1>1 DEF ManageBar
    <2>2. bar \in NatBars /\ Ranges \subseteq Nat
      <3>1. /\ bar \in [high : Quotes, low : Quotes, close : Quotes]
            /\ bar.low <= bar.close /\ bar.close <= bar.high
        BY DEF Bars
      <3>2. bar \in [high : Nat, low : Nat, close : Nat] /\ Ranges \subseteq Nat
        BY <3>1 DEF ExitAssumption
      <3>3. QED
        BY <3>1, <3>2 DEF NatBars
    <2>3. QED
      BY <1>1, <2>1, <2>2 DEF ManageBar, Outcome
  <1>2. CASE ManageMark(s)
    <2>1. marks[s] \in Nat
      BY DEF TypeOK
    <2>2. Point(marks[s]) \in NatBars
      BY <2>1 DEF Point, NatBars
    <2>3. QED
      BY <1>2, <2>2 DEF ManageMark, Outcome
  <1>3. QED
    BY <1>1, <1>2 DEF Manage

LEMMA LookedTypes ==
    ASSUME TypeOK, NEW s \in Symbols, NEW p \in Nat, Looked(s, p)
    PROVE  marks' \in [Symbols -> Nat] /\ seen' \in [Symbols -> Nat] /\ todo' = todo \ {s}
  <1> DEFINE now == IF p = 0 THEN seen ELSE [seen EXCEPT ![s] = p]
  <1>1. now \in [Symbols -> Nat] /\ marks \in [Symbols -> Nat]
    BY DEF TypeOK
  <1>2. todo' = todo \ {s}
    BY DEF Looked
  <1>3. CASE todo = {s}
    <2>1. /\ marks' = [x \in Symbols |-> IF now[x] # 0 THEN now[x] ELSE marks[x]]
          /\ seen' = NoMarks
      BY <1>3 DEF Looked
    <2> HIDE DEF now
    <2>2. QED
      BY <1>1, <1>2, <2>1 DEF NoMarks
  <1>4. CASE todo # {s}
    <2>1. seen' = now /\ marks' = marks
      BY <1>4 DEF Looked
    <2>2. QED
      BY <1>1, <1>2, <2>1
  <1>5. QED
    BY <1>3, <1>4

LEMMA ClosedTypes ==
    ASSUME TypeOK, Sided, NEW gone \in SUBSET Symbols, Closed(gone)
    PROVE  /\ pos' \in [Symbols -> Positions]
           /\ best' \in [Symbols -> Nat] /\ risked' \in [Symbols -> Nat]
           /\ Held' = Held \ gone /\ Sided'
           /\ trailed' \subseteq Held' /\ inherited' \subseteq Held'
  <1>1. pos \in [Symbols -> Positions] /\ Flat \in Positions
    BY DEF TypeOK, Positions, Flat
  <1>2. pos' = [s \in Symbols |-> IF s \in gone THEN Flat ELSE pos[s]]
    BY DEF Closed
  <1>3. pos' \in [Symbols -> Positions]
    BY <1>1, <1>2
  <1>4. Held' = Held \ gone
    BY <1>2 DEF Held
  <1>5. Sided'
    BY <1>2, <1>4 DEF Sided, Held
  <1>6. best' \in [Symbols -> Nat] /\ risked' \in [Symbols -> Nat]
    BY DEF Closed, TypeOK
  <1>7. trailed' \subseteq Held' /\ inherited' \subseteq Held'
    BY <1>4 DEF Closed, TypeOK
  <1>8. QED
    BY <1>3, <1>4, <1>5, <1>6, <1>7

LEMMA FollowType ==
    ASSUME TypeOK, NEW s \in Symbols, NEW bar \in NatBars, TrailOf(s) # NoTrail
    PROVE  Follow(s, bar) \in Trails /\ Follow(s, bar).risk > 0
  <1>1. TrailOf(s) \in Trails /\ TrailOf(s).risk > 0
    BY TrailOfType
  <1>2. pos[s].side \in {1, 0, -1} /\ bar \in [high : Nat, low : Nat, close : Nat]
    BY DEF TypeOK, NatBars
  <1>3. PICK peak \in Nat :
            Follow(s, bar) = [entry |-> TrailOf(s).entry, risk |-> TrailOf(s).risk, peak |-> peak,
                active |-> TrailOf(s).active
                               \/ pos[s].side * (peak - TrailOf(s).entry) >= TrailOf(s).risk]
    BY <1>1, <1>2, FollowedIs DEF Follow
  <1>4. QED
    BY <1>1, <1>3 DEF Trails

\* The best price that a pass has seen is a price.
LEMMA SeenType ==
    ASSUME TypeOK, NEW s \in Symbols, NEW bar \in NatBars, Seen(s, bar)
    PROVE  /\ best' \in [Symbols -> Nat]
           /\ \A x \in Symbols \ {s} : best'[x] = best[x]
           /\ pos[s].side * best'[s] >= pos[s].side * best[s]
           /\ pos[s].side * best'[s] >= pos[s].side * Extreme(pos[s].side, bar)
  <1>1. PICK d \in {1, 0, -1}, b \in Nat, e \in Nat :
            d = pos[s].side /\ b = best[s] /\ e = Extreme(d, bar)
    BY DEF TypeOK, NatBars, Extreme
  <1>2. Better(d, e, b) \in {e, b} /\ d * Better(d, e, b) >= d * e /\ d * Better(d, e, b) >= d * b
    BY BetterOf
  <1>3. best' = [best EXCEPT ![s] = Better(d, e, b)]
    BY <1>1 DEF Seen
  <1>4. QED
    BY <1>1, <1>2, <1>3 DEF TypeOK

\* What Trail does to the stop of its position.
LEMMA TrailMoves ==
    ASSUME ExitAssumption, TypeOK, NEW s \in Symbols, NEW bar \in NatBars, NEW range \in Nat,
           Trail(s, bar, range)
    PROVE  \E g \in Int, x \in Int :
               /\ pos' = [pos EXCEPT ![s].stop = g]
               /\ x = NewStop(Follow(s, bar), pos[s].side, pos[s].stop, range)
               /\ g \in Updated(pos[s].stop, x)
               /\ NearlyAhead(pos[s].side, g, pos[s].stop)
  <1>1. Follow(s, bar) \in Trails
    BY FollowType DEF Trail
  <1>2. PICK d \in {1, 0, -1}, stop \in Int : d = pos[s].side /\ stop = pos[s].stop
    BY DEF TypeOK
  <1>3. PICK x \in Int : x = NewStop(Follow(s, bar), d, stop, range) /\ d * x >= d * stop
    BY <1>1, NewStopIs
  <1>4. PICK g \in Updated(stop, x) : pos' = [pos EXCEPT ![s].stop = g]
    BY <1>2, <1>3 DEF Trail
  <1>5. g \in Int /\ NearlyAhead(d, g, stop)
    BY <1>3, <1>4, Settles, ExitAssumption
  <1>6. QED
    BY <1>2, <1>3, <1>4, <1>5

TypeInv == TypeOK /\ Sided

\* A trail state that is put for a symbol is one.
TrailTyped ==
    /\ trail \in [Symbols -> Trails]
    /\ \A s \in Symbols : trail[s] # NoTrail => trail[s].risk > 0

LEMMA TrailPut ==
    ASSUME TypeOK, NEW s \in Symbols, NEW t \in Trails, t # NoTrail => t.risk > 0,
           trail' = [trail EXCEPT ![s] = t]
    PROVE  TrailTyped'
  BY DEF TypeOK, TrailTyped, Trails

LEMMA TypedSoFar == TypeOK => TrailTyped /\ NoTrail \in Trails
  BY DEF TypeOK, TrailTyped, Trails, NoTrail

LEMMA OutcomeTypes ==
    ASSUME ExitAssumption, TypeInv, NEW s \in Symbols, s \in todo, NEW bar \in NatBars,
           Outcome(s, bar)
    PROVE  TypeInv'
  <1> USE DEF TypeInv
  <1>1. s \in Held /\ bar.close \in Nat /\ NoTrail \in Trails
    BY TypedSoFar DEF TypeOK, NatBars
  <1>2. CASE Exit(s, bar)
    <2>1. Closed({s}) /\ Looked(s, bar.close) /\ trail' = [trail EXCEPT ![s] = NoTrail]
      BY <1>2 DEF Exit
    <2>2. /\ pos' \in [Symbols -> Positions]
          /\ best' \in [Symbols -> Nat] /\ risked' \in [Symbols -> Nat]
          /\ Held' = Held \ {s} /\ Sided'
          /\ trailed' \subseteq Held' /\ inherited' \subseteq Held'
      BY <2>1, ClosedTypes
    <2>3. marks' \in [Symbols -> Nat] /\ seen' \in [Symbols -> Nat] /\ todo' = todo \ {s}
      BY <1>1, <2>1, LookedTypes
    <2>4. TrailTyped'
      BY <1>1, <2>1, TrailPut
    <2>5. QED
      BY <2>2, <2>3, <2>4 DEF TypeOK, TrailTyped, Positions, Trails
  <1>3. CASE Hold(s, bar)
    <2>1. marks' \in [Symbols -> Nat] /\ seen' \in [Symbols -> Nat] /\ todo' = todo \ {s}
      BY <1>1, <1>3, LookedTypes DEF Hold
    <2>2. best' \in [Symbols -> Nat]
      BY <1>3, SeenType DEF Hold
    <2>3. TrailTyped'
      <3>1. CASE TrailOf(s) = NoTrail
        BY <1>1, <1>3, <3>1, TrailPut DEF Hold
      <3>2. CASE TrailOf(s) # NoTrail
        BY <1>3, <3>2, FollowType, TrailPut DEF Hold
      <3>3. QED
        BY <3>1, <3>2
    <2>4. UNCHANGED <<pos, risked, trailed, inherited>>
      BY <1>3 DEF Hold
    <2>5. Held' = Held /\ Sided'
      BY <2>4 DEF Held, Sided
    <2>6. QED
      BY <2>1, <2>2, <2>3, <2>4, <2>5 DEF TypeOK, TrailTyped, Trails
  <1>4. ASSUME NEW range \in Nat, Trail(s, bar, range)
        PROVE  TypeInv'
    <2>1. marks' \in [Symbols -> Nat] /\ seen' \in [Symbols -> Nat] /\ todo' = todo \ {s}
      BY <1>1, <1>4, LookedTypes DEF Trail
    <2>2. best' \in [Symbols -> Nat]
      BY <1>4, SeenType DEF Trail
    <2>3. TrailTyped'
      BY <1>4, FollowType, TrailPut DEF Trail
    <2>4. PICK g \in Int : pos' = [pos EXCEPT ![s].stop = g]
      BY <1>4, TrailMoves
    <2>5. pos' \in [Symbols -> Positions] /\ Held' = Held /\ Sided'
      <3>1. pos \in [Symbols -> Positions] /\ pos[s].side \in {1, -1}
        BY <1>1 DEF TypeOK, Positions, Sided
      <3>2. /\ pos' \in [Symbols -> Positions]
            /\ \A x \in Symbols : /\ pos'[x].side = pos[x].side
                                  /\ x # s => pos'[x] = pos[x]
        BY <2>4, <3>1 DEF Positions
      <3>3. pos'[s] # Flat /\ pos[s] # Flat
        BY <3>1, <3>2 DEF Flat
      <3>4. Held' = Held
        BY <3>2, <3>3 DEF Held
      <3>5. QED
        BY <3>2, <3>4 DEF Sided, Held
    <2>6. /\ UNCHANGED <<risked, inherited>> /\ trailed' = trailed \cup {s}
      BY <1>4 DEF Trail
    <2>7. QED
      BY <1>1, <2>1, <2>2, <2>3, <2>5, <2>6 DEF TypeOK, TrailTyped, Positions, Trails
  <1>5. CASE Raise(s, bar)
    <2>1. best' \in [Symbols -> Nat]
      BY <1>5, SeenType DEF Raise
    <2>2. TrailTyped'
      BY <1>5, FollowType, TrailPut DEF Raise
    <2>3. /\ UNCHANGED <<pos, marks, risked, trailed, inherited>>
          /\ todo' = {} /\ seen' = NoMarks
      BY <1>5 DEF Raise
    <2>4. Held' = Held /\ Sided'
      BY <2>3 DEF Held, Sided
    <2>5. QED
      BY <2>1, <2>2, <2>3, <2>4 DEF TypeOK, TrailTyped, Trails, NoMarks
  <1>6. QED
    BY <1>2, <1>3, <1>4, <1>5 DEF Outcome

\* What an entry puts in place.
LEMMA EnterTypes ==
    ASSUME ExitAssumption, TypeInv, NEW s \in Symbols, Enter(s)
    PROVE  /\ TypeInv'
           /\ \E d \in {1, -1}, p \in Nat, r \in StopDists, t \in Nat :
                  /\ pos' = [pos EXCEPT ![s] =
                         [side |-> d, avg |-> p, stop |-> p - d * r, take |-> p + d * t]]
                  /\ best' = [best EXCEPT ![s] = p] /\ risked' = [risked EXCEPT ![s] = r]
           /\ Held' = Held \cup {s}
  <1> USE DEF TypeInv
  <1>1. PICK d \in {1, -1}, p \in Nat, r \in StopDists, t \in Nat :
            /\ pos' = [pos EXCEPT ![s] =
                   [side |-> d, avg |-> p, stop |-> p - d * r, take |-> p + d * t]]
            /\ best' = [best EXCEPT ![s] = p] /\ risked' = [risked EXCEPT ![s] = r]
    BY DEF Enter, ExitAssumption
  <1> DEFINE new == [side |-> d, avg |-> p, stop |-> p - d * r, take |-> p + d * t]
  <1>2. r \in Nat /\ new \in Positions /\ new # Flat
    <2>1. r \in Nat
      BY DEF ExitAssumption
    <2>2. p - d * r \in Int /\ p + d * t \in Int
      BY <2>1
    <2>3. QED
      BY <2>1, <2>2 DEF Positions, Flat
  <1>3. pos' = [pos EXCEPT ![s] = new] /\ new.side \in {1, -1}
    BY <1>1
  <1> HIDE DEF new
  <1>4. Held' = Held \cup {s} /\ pos' \in [Symbols -> Positions] /\ Sided'
    BY <1>2, <1>3 DEF TypeOK, Positions, Sided, Held
  <1>5. /\ UNCHANGED <<trail, marks, todo, seen, trailed>>
        /\ inherited' \subseteq inherited \cup {s}
    BY DEF Enter
  <1>6. TypeOK'
    BY <1>1, <1>2, <1>4, <1>5 DEF TypeOK, Positions
  <1>7. QED
    BY <1>1, <1>4, <1>6

LEMMA TypeStep ==
    ASSUME ExitAssumption, TypeInv, [Next]_vars
    PROVE  TypeInv'
  <1> USE DEF TypeInv
  <1>1. ASSUME NEW s \in Symbols, Enter(s) PROVE TypeInv'
    BY <1>1, EnterTypes
  <1>2. ASSUME NEW s \in Symbols, Manage(s) PROVE TypeInv'
    <2>1. CASE Unmanaged(s)
      <3>1. marks' \in [Symbols -> Nat] /\ seen' \in [Symbols -> Nat] /\ todo' = todo \ {s}
        BY <2>1, LookedTypes DEF Unmanaged
      <3>2. QED
        BY <2>1, <3>1 DEF Unmanaged, history, TypeOK, Held, Sided
    <2>2. CASE s \in todo /\ \E bar \in NatBars : Outcome(s, bar)
      BY <2>2, OutcomeTypes, ExitAssumption
    <2>3. QED
      BY <1>2, <2>1, <2>2, Managed, ExitAssumption
  <1>3. CASE BeginPass
    <2>1. /\ trail' = [s \in Symbols |-> IF s \in Held THEN trail[s] ELSE NoTrail]
          /\ todo' = Held /\ UNCHANGED <<pos, marks, seen, history>>
      BY <1>3 DEF BeginPass
    <2>2. Held' = Held /\ Sided'
      BY <2>1 DEF Held, Sided
    <2>3. TrailTyped'
      BY <2>1, TypedSoFar DEF TrailTyped
    <2>4. QED
      BY <2>1, <2>2, <2>3 DEF TypeOK, TrailTyped, Trails, history
  <1>4. CASE UpdateMarks
    BY <1>4 DEF UpdateMarks, history, TypeOK, Held, Sided, ExitAssumption
  <1>5. CASE EndOfDay
    <2>1. PICK q \in [Held -> Quotes \cup {0}] :
              marks' = [s \in Symbols |-> IF s \in Held /\ q[s] # 0 THEN q[s] ELSE marks[s]]
      BY <1>5 DEF EndOfDay
    <2>2. marks' \in [Symbols -> Nat]
      BY <2>1 DEF TypeOK, ExitAssumption
    <2>3. Held \in SUBSET Symbols /\ Closed(Held) /\ todo = {} /\ UNCHANGED <<trail, todo, seen>>
      BY <1>5 DEF EndOfDay, Held
    <2>4. QED
      BY <2>2, <2>3, ClosedTypes DEF TypeOK, Positions
  <1>6. CASE LockIn
    <2>1. /\ Held \in SUBSET Symbols /\ Closed(Held) /\ todo = {}
          /\ trail' = [s \in Symbols |-> NoTrail] /\ UNCHANGED <<marks, todo, seen>>
      BY <1>6 DEF LockIn, Held
    <2>2. TrailTyped'
      BY <2>1, TypedSoFar DEF TrailTyped
    <2>3. QED
      BY <2>1, <2>2, ClosedTypes DEF TypeOK, Positions, TrailTyped, Trails
  <1>7. CASE Restart
    <2>1. /\ trail' = [s \in Symbols |-> NoTrail]
          /\ marks' = NoMarks /\ todo' = {} /\ seen' = NoMarks
      BY <1>7 DEF Restart
    <2>2. TrailTyped'
      BY <2>1, TypedSoFar DEF TrailTyped
    <2>3. CASE Closed(Held)
      <3>1. Held \in SUBSET Symbols
        BY DEF Held
      <3>2. QED
        BY <2>1, <2>2, <2>3, <3>1, ClosedTypes
           DEF TypeOK, Positions, TrailTyped, Trails, NoMarks
    <2>4. CASE UNCHANGED <<pos, history>>
      BY <2>1, <2>2, <2>4 DEF TypeOK, TrailTyped, Trails, NoMarks, history, Held, Sided
    <2>5. QED
      BY <1>7, <2>3, <2>4 DEF Restart
  <1>8. CASE UNCHANGED vars
    BY <1>8 DEF vars, TypeOK, Held, Sided
  <1>9. QED
    BY <1>1, <1>2, <1>3, <1>4, <1>5, <1>6, <1>7, <1>8 DEF Next

LEMMA TypeInit == ExitAssumption => (Init => TypeInv)
  BY DEF ExitAssumption, Init, TypeInv, TypeOK, Sided, Held, Flat, NoTrail, NoMarks

\* Types, and that a held position is long or short.
THEOREM TypeCorrect == Spec => [](TypeOK /\ Sided)
  <1>1. Init => TypeInv
    BY TypeInit, ExitAssumption
  <1>2. TypeInv /\ [Next]_vars => TypeInv'
    BY TypeStep, ExitAssumption
  <1>3. QED
    BY <1>1, <1>2, PTL DEF Spec, TypeInv

-------------------------------------------------------------------------------
(* Stops are only tightened.                                               *)

StopKept(s) ==
    pos[s] # Flat /\ pos'[s] # Flat => NearlyAhead(pos[s].side, pos'[s].stop, pos[s].stop)

LEMMA SameIsKept ==
    ASSUME ExitAssumption, TypeOK, NEW s \in Symbols, pos'[s] \in {pos[s], Flat}
    PROVE  StopKept(s)
  <1>1. PICK d \in Int, stop \in Int : d = pos[s].side /\ stop = pos[s].stop
    BY DEF TypeOK
  <1>2. d * (stop - stop) = 0 /\ Tick \in Nat
    BY DEF ExitAssumption
  <1>3. NearlyAhead(d, stop, stop)
    BY <1>2 DEF NearlyAhead
  <1>4. QED
    BY <1>1, <1>3 DEF StopKept

LEMMA NoStepLoosens ==
    ASSUME ExitAssumption, TypeInv, [Next]_vars, NEW s \in Symbols
    PROVE  StopKept(s)
  <1> USE DEF TypeInv
  <1>1. ASSUME NEW gone \in SUBSET Symbols, Closed(gone) PROVE StopKept(s)
    BY <1>1, SameIsKept, ExitAssumption DEF Closed
  <1>2. ASSUME UNCHANGED pos PROVE StopKept(s)
    BY <1>2, SameIsKept, ExitAssumption
  <1>3. ASSUME NEW x \in Symbols, Enter(x) PROVE StopKept(s)
    <2>1. CASE x = s
      BY <1>3, <2>1 DEF Enter, StopKept
    <2>2. CASE x # s
      <3>1. pos'[s] = pos[s]
        BY <1>3, <2>2 DEF Enter, TypeOK
      <3>2. QED
        BY <3>1, SameIsKept, ExitAssumption
    <2>3. QED
      BY <2>1, <2>2
  <1>4. ASSUME NEW x \in Symbols, Manage(x) PROVE StopKept(s)
    <2>1. CASE Unmanaged(x)
      BY <1>2, <2>1 DEF Unmanaged
    <2>2. ASSUME NEW bar \in NatBars, Outcome(x, bar) PROVE StopKept(s)
      <3>1. CASE Exit(x, bar)
        BY <1>1, <3>1 DEF Exit
      <3>2. CASE Hold(x, bar) \/ Raise(x, bar)
        BY <1>2, <3>2 DEF Hold, Raise
      <3>3. ASSUME NEW range \in Nat, Trail(x, bar, range) PROVE StopKept(s)
        <4>1. PICK g \in Int : /\ pos' = [pos EXCEPT ![x].stop = g]
                               /\ NearlyAhead(pos[x].side, g, pos[x].stop)
          BY <3>3, TrailMoves, ExitAssumption
        <4>2. CASE x = s
          <5>1. pos'[s].stop = g
            BY <4>1, <4>2 DEF TypeOK
          <5>2. QED
            BY <4>1, <4>2, <5>1 DEF StopKept
        <4>3. CASE x # s
          <5>1. pos'[s] = pos[s]
            BY <4>1, <4>3 DEF TypeOK
          <5>2. QED
            BY <5>1, SameIsKept, ExitAssumption
        <4>4. QED
          BY <4>2, <4>3
      <3>4. QED
        BY <2>2, <3>1, <3>2, <3>3 DEF Outcome
    <2>3. QED
      BY <1>4, <2>1, <2>2, Managed, ExitAssumption
  <1>5. CASE BeginPass \/ UpdateMarks
    BY <1>2, <1>5 DEF BeginPass, UpdateMarks
  <1>6. CASE EndOfDay \/ LockIn
    <2>1. Held \in SUBSET Symbols
      BY DEF Held
    <2>2. QED
      BY <1>1, <1>6, <2>1 DEF EndOfDay, LockIn
  <1>7. CASE Restart
    <2>1. Held \in SUBSET Symbols
      BY DEF Held
    <2>2. QED
      BY <1>1, <1>2, <1>7, <2>1 DEF Restart
  <1>8. CASE UNCHANGED vars
    BY <1>2, <1>8 DEF vars
  <1>9. QED
    BY <1>3, <1>4, <1>5, <1>6, <1>7, <1>8 DEF Next

\* executor.py:574 and 580: a held position's stop never moves against it, but
\* for half a tick of rounding.
THEOREM StopsOnlyTighten == Spec => NeverLoosened
  <1>1. TypeInv /\ [Next]_vars =>
            [\A s \in Symbols : pos[s] # Flat /\ pos'[s] # Flat =>
                 NearlyAhead(pos[s].side, pos'[s].stop, pos[s].stop)]_vars
    BY NoStepLoosens, ExitAssumption DEF StopKept
  <1>2. QED
    BY <1>1, TypeCorrect, PTL DEF Spec, TypeInv, NeverLoosened

-------------------------------------------------------------------------------
(* What is locked in, and the best price: the invariant of a position whose *)
(* trail is its own.                                                        *)

Locked(s) ==
    LET p == pos[s]
    IN  NearlyAhead(p.side, p.stop, p.avg + p.side * (risked[s] \div LockDen))

\* The trail's peak has been seen, and an active trail has its R of profit.
TrailEarned(s) ==
    LET p == pos[s] t == trail[s] IN
    t # NoTrail => /\ t.entry = p.avg /\ p.side * t.peak <= p.side * best[s]
                   /\ t.active => p.side * (t.peak - t.entry) >= t.risk

\* Until it is trailed, a stop is where it was placed, and R is its distance;
\* afterwards it is on a tick, and any trail is active.
StopPlaced(s) ==
    LET p == pos[s] IN
    /\ s \in trailed => /\ Locked(s) /\ OnTick(p.stop)
                        /\ trail[s] # NoTrail => trail[s].active
    /\ s \notin trailed => /\ p.stop = p.avg - p.side * risked[s]
                           /\ trail[s] # NoTrail => trail[s].risk = risked[s]

Own(s) ==
    /\ risked[s] \in StopDists
    /\ pos[s].side * best[s] >= pos[s].side * pos[s].avg
    /\ NearlyAhead(pos[s].side, best[s], pos[s].stop)
    /\ TrailEarned(s) /\ StopPlaced(s)

IInv == TypeInv /\ \A s \in Held \ inherited : Own(s)

LEMMA Signed == \A d \in {1, -1}, x \in Int : d * x \in Int
  OBVIOUS

\* Signed prices: a side only says which of two prices is the better one.
LEMMA Sides ==
    ASSUME NEW d \in {1, -1}, NEW x \in Int, NEW y \in Int
    PROVE  /\ d * x \in Int /\ d * d = 1
           /\ d * (x - y) = d * x - d * y /\ d * (x + y) = d * x + d * y
           /\ d * (d * x) = x
           /\ NearlyAhead(d, x, y) <=> 2 * (d * x - d * y) >= -Tick
  <1>1. CASE d = 1
    BY <1>1 DEF NearlyAhead
  <1>2. CASE d = -1
    BY <1>2 DEF NearlyAhead
  <1>3. QED
    BY <1>1, <1>2

\* The share of the R of an entry is at least what rounding may take.
LEMMA LockShare ==
    ASSUME ExitAssumption, NEW r \in StopDists
    PROVE  \E k \in Nat : k = r \div LockDen /\ k <= r /\ 2 * k >= Tick /\ r \in Nat /\ r > 0
  <1>1. r \in Nat /\ r > 0 /\ 2 * (r \div LockDen) >= Tick
    BY DEF ExitAssumption
  <1>2. r \div LockDen \in Nat /\ r \div LockDen <= r
    BY <1>1, Shares, ExitAssumption
  <1>3. QED
    BY <1>1, <1>2

\* The numbers of an own position.
LEMMA OwnNumbers ==
    ASSUME ExitAssumption, TypeInv, NEW s \in Held, Own(s)
    PROVE  \E d \in {1, -1}, a \in Nat, z \in Int, b \in Nat, r \in Nat, k \in Nat :
               /\ d = pos[s].side /\ a = pos[s].avg /\ z = pos[s].stop /\ b = best[s]
               /\ r = risked[s] /\ k = r \div LockDen /\ k <= r /\ 2 * k >= Tick /\ r > 0
               /\ d * b >= d * a /\ 2 * (d * b - d * z) >= -Tick
               /\ s \in trailed => 2 * (d * z - d * a - k) >= -Tick /\ d * z >= d * a
               /\ s \notin trailed => z = a - d * r /\ d * z = d * a - r
  <1>1. s \in Symbols
    BY DEF Held
  <1>2. PICK d \in {1, -1}, a \in Nat, z \in Int, b \in Nat :
            d = pos[s].side /\ a = pos[s].avg /\ z = pos[s].stop /\ b = best[s]
    BY <1>1 DEF TypeInv, TypeOK, Sided
  <1>3. PICK r \in Nat, k \in Nat :
            r = risked[s] /\ k = r \div LockDen /\ k <= r /\ 2 * k >= Tick /\ r > 0
    BY LockShare DEF Own, ExitAssumption
  <1>4. d * b >= d * a /\ NearlyAhead(d, b, z)
    BY <1>2 DEF Own
  <1>5. 2 * (d * b - d * z) >= -Tick
    BY <1>4, Sides
  <1>6. ASSUME s \in trailed
        PROVE  2 * (d * z - d * a - k) >= -Tick /\ d * z >= d * a
    <2>1. NearlyAhead(d, z, a + d * k)
      BY <1>2, <1>3, <1>6 DEF Own, StopPlaced, Locked
    <2>2. CASE d = 1
      BY <1>3, <2>1, <2>2 DEF NearlyAhead, ExitAssumption
    <2>3. CASE d = -1
      BY <1>3, <2>1, <2>3 DEF NearlyAhead, ExitAssumption
    <2>4. QED
      BY <2>2, <2>3
  <1>7. ASSUME s \notin trailed
        PROVE  z = a - d * r /\ d * z = d * a - r
    <2>1. z = a - d * r
      BY <1>2, <1>3, <1>7 DEF Own, StopPlaced
    <2>2. QED
      BY <2>1
  <1>8. QED
    BY <1>2, <1>3, <1>4, <1>5, <1>6, <1>7

\* The trail of an own position, new or not: rebuilt after a restart it has as
\* its R the distance to the stop as it stands.
LEMMA OwnTrailOf ==
    ASSUME ExitAssumption, TypeInv, NEW s \in Held, Own(s), TrailOf(s) # NoTrail,
           NEW d \in {1, -1}, d = pos[s].side
    PROVE  LET t == TrailOf(s) IN
           /\ t.entry = pos[s].avg /\ d * t.peak <= d * best[s]
           /\ t.active => d * (t.peak - t.entry) >= t.risk
           /\ s \notin trailed => t.risk = risked[s]
           /\ s \in trailed => t.active \/ t.risk = d * pos[s].stop - d * pos[s].avg
  <1> DEFINE t == TrailOf(s)
  <1>1. PICK a \in Nat, z \in Int, b \in Nat, r \in Nat :
            /\ a = pos[s].avg /\ z = pos[s].stop /\ b = best[s] /\ r = risked[s]
            /\ d * b >= d * a
            /\ s \in trailed => d * z >= d * a
            /\ s \notin trailed => z = a - d * r
    <2>1. PICK g \in {1, -1}, a \in Nat, z \in Int, b \in Nat, r \in Nat, k \in Nat :
              /\ g = pos[s].side /\ a = pos[s].avg /\ z = pos[s].stop /\ b = best[s]
              /\ r = risked[s] /\ k = r \div LockDen /\ k <= r /\ 2 * k >= Tick /\ r > 0
              /\ g * b >= g * a /\ 2 * (g * b - g * z) >= -Tick
              /\ s \in trailed => 2 * (g * z - g * a - k) >= -Tick /\ g * z >= g * a
              /\ s \notin trailed => z = a - g * r /\ g * z = g * a - r
      BY OwnNumbers, ExitAssumption
    <2>2. g = d
      BY <2>1
    <2>3. QED
      BY <2>1, <2>2
  <1>2. CASE trail[s] # NoTrail
    BY <1>2 DEF TrailOf, Own, TrailEarned, StopPlaced
  <1>3. CASE trail[s] = NoTrail
    <2>1. t = [entry |-> a, risk |-> Abs(a - z), peak |-> a, active |-> FALSE]
      BY <1>1, <1>3 DEF TrailOf
    <2>2. s \notin trailed => Abs(a - z) = r
      <3>1. d * r = r \/ d * r = -r
        OBVIOUS
      <3>2. QED
        BY <1>1, <3>1 DEF Abs
    <2>3. s \in trailed => Abs(a - z) = d * z - d * a
      <3>1. CASE d = 1
        BY <1>1, <3>1 DEF Abs
      <3>2. CASE d = -1
        BY <1>1, <3>2 DEF Abs
      <3>3. QED
        BY <3>1, <3>2
    <2>4. QED
      BY <1>1, <2>1, <2>2, <2>3
  <1>4. QED
    BY <1>2, <1>3

\* Followed by a bar that did not hit the stop, the trail is still the
\* position's, and active if the stop has been trailed.
LEMMA OwnFollow ==
    ASSUME ExitAssumption, TypeInv, NEW s \in Held, Own(s), TrailOf(s) # NoTrail,
           NEW bar \in NatBars, ~StopHit(pos[s], bar),
           NEW d \in {1, -1}, d = pos[s].side,
           NEW b \in Nat, d * b >= d * best[s], d * b >= d * Extreme(d, bar)
    PROVE  LET t == Follow(s, bar) IN
           /\ t \in Trails /\ t # NoTrail
           /\ t.entry = pos[s].avg /\ d * t.peak <= d * b
           /\ t.active => d * (t.peak - t.entry) >= t.risk
           /\ s \notin trailed => t.risk = risked[s]
           /\ s \in trailed => t.active
  <1> DEFINE o == TrailOf(s)
             t == Follow(s, bar)
  <1>1. s \in Symbols
    BY DEF Held
  <1>2. t \in Trails /\ t # NoTrail /\ o \in Trails
    BY <1>1, TrailOfType, FollowType DEF TypeInv, NoTrail
  <1>3. PICK a \in Nat, z \in Int, c \in Nat, e \in Nat, k \in Nat, r \in Nat :
            /\ a = pos[s].avg /\ z = pos[s].stop /\ c = best[s] /\ e = Extreme(d, bar)
            /\ k = o.peak /\ r = o.risk
    BY <1>1, <1>2 DEF TypeInv, TypeOK, NatBars, Extreme, Trails
  <1>4. /\ o.entry = a /\ d * k <= d * c
        /\ o.active => d * (k - a) >= r
        /\ s \notin trailed => r = risked[s]
        /\ s \in trailed => o.active \/ r = d * z - d * a
    BY <1>3, OwnTrailOf, ExitAssumption
  <1>5. PICK peak \in Nat :
            /\ t = [entry |-> a, risk |-> r, peak |-> peak,
                    active |-> o.active \/ d * (peak - a) >= r]
            /\ peak \in {e, k} /\ d * peak >= d * e /\ d * peak >= d * k
    BY <1>2, <1>3, <1>4, FollowedIs DEF Follow, NatBars
  <1>6. PICK dp \in Int, dk \in Int, de \in Int, dc \in Int, db \in Int, da \in Int, dz \in Int :
            /\ dp = d * peak /\ dk = d * k /\ de = d * e /\ dc = d * c /\ db = d * b
            /\ da = d * a /\ dz = d * z
            /\ d * (peak - a) = dp - da /\ d * (k - a) = dk - da
    <2>1. /\ d * peak \in Int /\ d * k \in Int /\ d * e \in Int /\ d * c \in Int
          /\ d * b \in Int /\ d * a \in Int /\ d * z \in Int
      <3>1. /\ d \in {1, -1} /\ peak \in Int /\ k \in Int /\ e \in Int /\ c \in Int
            /\ b \in Int /\ a \in Int /\ z \in Int
        OBVIOUS
      <3>2. QED
        BY ONLY <3>1, Signed
    <2>2. d * (peak - a) = d * peak - d * a /\ d * (k - a) = d * k - d * a
      <3>1. CASE d = 1
        BY <3>1
      <3>2. CASE d = -1
        BY <3>2
      <3>3. QED
        BY <3>1, <3>2
    <2>3. QED
      BY <2>1, <2>2
  <1>7. dp <= db /\ dp >= dk
    <2>1. dk <= dc /\ dc <= db /\ de <= db /\ dp >= dk /\ (dp = de \/ dp = dk)
      BY <1>3, <1>4, <1>5, <1>6
    <2>2. QED
      BY <2>1
  <1>8. o.active => dp - da >= r
    BY <1>4, <1>6, <1>7
  <1>9. ASSUME s \in trailed, r = d * z - d * a PROVE dp - da >= r
    <2>1. dz < de
      <3>1. ~(d * z >= d * Extreme(-d, bar)) /\ bar.low <= bar.high
        BY <1>3 DEF StopHit, Ahead, NatBars
      <3>2. bar.low \in Nat /\ bar.high \in Nat
        BY DEF NatBars
      <3>3. CASE d = 1
        BY <1>3, <1>6, <3>1, <3>2, <3>3 DEF Extreme
      <3>4. CASE d = -1
        BY <1>3, <1>6, <3>1, <3>2, <3>4 DEF Extreme
      <3>5. QED
        BY <3>3, <3>4
    <2>2. dp >= de /\ r = dz - da
      BY <1>5, <1>6, <1>9
    <2>3. QED
      BY <2>1, <2>2
  <1>10. /\ t.entry = a /\ t.risk = r /\ t.peak = peak
         /\ t.active <=> o.active \/ dp - da >= r
    <2> DEFINE far == d * (peak - a) >= r
    <2>1. t = [entry |-> a, risk |-> r, peak |-> peak, active |-> o.active \/ far]
      BY <1>5
    <2>2. far <=> dp - da >= r
      BY <1>6
    <2> HIDE DEF far, t, o
    <2>3. t.entry = a /\ t.risk = r /\ t.peak = peak /\ t.active = (o.active \/ far)
      BY <2>1, Zenon
    <2>4. QED
      BY <2>2, <2>3, Zenon
  <1> HIDE DEF t, o
  <1>11. s \in trailed => t.active
    BY <1>4, <1>9, <1>10
  <1>12. t.active => d * (t.peak - t.entry) >= t.risk
    BY <1>6, <1>8, <1>10
  <1>13. QED
    BY <1>2, <1>3, <1>4, <1>6, <1>7, <1>10, <1>11, <1>12 DEF t

\* A position that is left alone, with its trail or without, stays in order.
LEMMA OwnFrame ==
    ASSUME NEW s \in Symbols, Own(s), pos'[s] = pos[s], best'[s] = best[s],
           risked'[s] = risked[s], trail'[s] \in {trail[s], NoTrail},
           s \in trailed' <=> s \in trailed
    PROVE  Own(s)'
  <1>1. TrailEarned(s)'
    BY DEF Own, TrailEarned
  <1>2. StopPlaced(s)'
    BY DEF Own, StopPlaced, Locked, NearlyAhead
  <1>3. QED
    BY <1>1, <1>2 DEF Own, NearlyAhead

\* The best price of a pass, in the position's direction.
LEMMA OwnSeen ==
    ASSUME TypeInv, NEW s \in Held, NEW bar \in NatBars, Seen(s, bar),
           NEW d \in {1, -1}, d = pos[s].side
    PROVE  /\ best'[s] \in Nat /\ d * best'[s] >= d * best[s]
           /\ d * best'[s] >= d * Extreme(d, bar)
  <1>1. s \in Symbols
    BY DEF Held
  <1>2. QED
    BY <1>1, SeenType DEF TypeInv

\* A held position is passed, and its stop stays: Hold and Raise.
LEMMA OwnPassed ==
    ASSUME ExitAssumption, TypeInv, NEW s \in Held, Own(s), NEW bar \in NatBars,
           ~StopHit(pos[s], bar), Seen(s, bar), UNCHANGED <<pos, risked, trailed>>,
           trail'[s] = IF TrailOf(s) = NoTrail THEN NoTrail ELSE Follow(s, bar)
    PROVE  Own(s)'
  <1>1. PICK d \in {1, -1}, a \in Nat, z \in Int, b \in Nat, r \in Nat, k \in Nat :
            /\ d = pos[s].side /\ a = pos[s].avg /\ z = pos[s].stop /\ b = best[s]
            /\ r = risked[s] /\ k = r \div LockDen /\ k <= r /\ 2 * k >= Tick /\ r > 0
            /\ d * b >= d * a /\ 2 * (d * b - d * z) >= -Tick
            /\ s \in trailed => 2 * (d * z - d * a - k) >= -Tick /\ d * z >= d * a
            /\ s \notin trailed => z = a - d * r /\ d * z = d * a - r
    BY OwnNumbers, ExitAssumption
  <1>2. PICK c \in Nat : c = best'[s] /\ d * c >= d * b /\ d * c >= d * Extreme(d, bar)
    BY <1>1, OwnSeen
  <1>3. pos'[s] = pos[s] /\ risked'[s] = risked[s] /\ trailed' = trailed
    OBVIOUS
  <1>4. d * c >= d * a /\ NearlyAhead(d, c, z)
    <2>1. PICK da \in Int, db \in Int, dc \in Int, dz \in Int :
              da = d * a /\ db = d * b /\ dc = d * c /\ dz = d * z
      BY Signed
    <2>2. Tick \in Nat
      BY DEF ExitAssumption
    <2>3. dc >= db /\ db >= da /\ 2 * (db - dz) >= -Tick
      BY <1>1, <1>2, <2>1
    <2>4. dc >= da /\ 2 * (dc - dz) >= -Tick
      BY <2>2, <2>3
    <2>5. c \in Int /\ (NearlyAhead(d, c, z) <=> 2 * (d * c - d * z) >= -Tick)
      BY Sides
    <2>6. QED
      BY <2>1, <2>4, <2>5
  <1>5. CASE TrailOf(s) = NoTrail
    <2>1. trail'[s] = NoTrail
      BY <1>5
    <2>2. TrailEarned(s)' /\ StopPlaced(s)'
      BY <1>3, <2>1 DEF Own, TrailEarned, StopPlaced, Locked, NearlyAhead
    <2>3. QED
      BY <1>1, <1>2, <1>3, <1>4, <2>2 DEF Own, NearlyAhead
  <1>6. CASE TrailOf(s) # NoTrail
    <2> DEFINE t == Follow(s, bar)
    <2>1. /\ t.entry = a /\ d * t.peak <= d * c
          /\ t.active => d * (t.peak - t.entry) >= t.risk
          /\ s \notin trailed => t.risk = r
          /\ s \in trailed => t.active
      BY <1>1, <1>2, <1>6, OwnFollow, ExitAssumption
    <2>2. trail'[s] = t
      BY <1>6
    <2> HIDE DEF t
    <2>3. TrailEarned(s)'
      BY <1>1, <1>2, <1>3, <2>1, <2>2 DEF TrailEarned
    <2>4. StopPlaced(s)'
      BY <1>1, <1>3, <2>1, <2>2 DEF Own, StopPlaced, Locked, NearlyAhead
    <2>5. QED
      BY <1>1, <1>2, <1>3, <1>4, <2>3, <2>4 DEF Own, NearlyAhead
  <1>7. QED
    BY <1>5, <1>6

\* The stop is trailed: the floors are what the trail has earned.
LEMMA OwnTrailed ==
    ASSUME ExitAssumption, TypeInv, NEW s \in Held, Own(s), NEW bar \in NatBars,
           NEW range \in Nat, Trail(s, bar, range)
    PROVE  Own(s)'
  <1> DEFINE t == Follow(s, bar)
  <1>0. s \in Symbols /\ TypeOK
    BY DEF Held, TypeInv
  <1>1. PICK d \in {1, -1}, a \in Nat, z \in Int, b \in Nat, r \in Nat, k \in Nat :
            /\ d = pos[s].side /\ a = pos[s].avg /\ z = pos[s].stop /\ b = best[s]
            /\ r = risked[s] /\ k = r \div LockDen /\ k <= r /\ 2 * k >= Tick /\ r > 0
            /\ d * b >= d * a /\ 2 * (d * b - d * z) >= -Tick
            /\ s \in trailed => 2 * (d * z - d * a - k) >= -Tick /\ d * z >= d * a
            /\ s \notin trailed => z = a - d * r /\ d * z = d * a - r
    BY OwnNumbers, ExitAssumption
  <1>2. PICK c \in Nat : c = best'[s] /\ d * c >= d * b /\ d * c >= d * Extreme(d, bar)
    BY <1>1, OwnSeen DEF Trail
  <1>3. /\ t \in Trails /\ t.entry = a /\ d * t.peak <= d * c /\ t.active
        /\ d * (t.peak - a) >= t.risk
        /\ s \notin trailed => t.risk = r
    BY <1>1, <1>2, OwnFollow, ExitAssumption DEF Trail, Stays
  <1>4. PICK g \in Int, x \in Int : /\ pos' = [pos EXCEPT ![s].stop = g]
                                    /\ x = NewStop(t, d, z, range) /\ g \in Updated(z, x)
    BY <1>0, <1>1, TrailMoves, ExitAssumption
  <1> HIDE DEF t
  <1>5. PICK peak \in Nat, n \in Nat, m \in Nat :
            peak = t.peak /\ n = t.risk /\ m = n \div LockDen /\ m <= n
    BY <1>3, Shares, ExitAssumption DEF Trails
  <1>6. PICK dist \in Nat, lock \in Int :
            /\ lock = a + d * m
            /\ d * x >= d * z /\ d * x >= d * lock
            /\ x # z => x \in {peak - d * dist, lock}
    <2>1. d \in {1, 0, -1} /\ x = NewStop(t, d, z, range)
      BY <1>4
    <2>2. PICK dist \in Nat, lock \in Int :
              /\ dist = Distance(t, range) /\ lock = LockStop(t, d)
              /\ d * x >= d * z /\ d * x >= d * lock
              /\ x # z => x \in {t.peak - d * dist, lock}
      BY <1>3, <2>1, NewStopIs, ExitAssumption
    <2>3. lock = a + d * m
      BY <1>3, <1>5, <2>2 DEF LockStop
    <2>4. QED
      BY <1>5, <2>2, <2>3
  <1>7. PICK dg \in Int, dx \in Int, dz \in Int, da \in Int, db \in Int, dc \in Int, dp \in Int :
            /\ dg = d * g /\ dx = d * x /\ dz = d * z /\ da = d * a
            /\ db = d * b /\ dc = d * c /\ dp = d * peak
            /\ d * lock = da + m /\ d * (peak - d * dist) = dp - dist
            /\ d * (peak - a) = dp - da
    <2>1. /\ d * lock = d * a + m /\ d * (peak - d * dist) = d * peak - dist
          /\ d * (peak - a) = d * peak - d * a
      <3>1. CASE d = 1
        BY <1>6, <3>1
      <3>2. CASE d = -1
        BY <1>6, <3>2
      <3>3. QED
        BY <3>1, <3>2
    <2>2. /\ d * g \in Int /\ d * x \in Int /\ d * z \in Int /\ d * a \in Int
          /\ d * b \in Int /\ d * c \in Int /\ d * peak \in Int
      BY Signed
    <2>3. QED
      BY <2>1, <2>2
  <1>8. /\ 2 * (dg - dx) >= -Tick /\ 2 * (dx - dg) >= -Tick
        /\ x = z => g = z
        /\ x # z => OnTick(g)
        /\ OnTick(z) => dg >= dz
    <2>1. /\ NearlyAhead(d, g, x) /\ NearlyAhead(d, x, g)
          /\ x = z => g = z
          /\ x # z => OnTick(g)
          /\ OnTick(z) => d * g >= d * z
      BY <1>4, <1>6, Settles, ExitAssumption
    <2>2. QED
      BY <1>7, <2>1, Sides
  <1>9. Tick \in Nat /\ (s \in trailed => OnTick(z)) /\ dx >= dz /\ dx >= da + m
    BY <1>1, <1>6, <1>7 DEF ExitAssumption, Own, StopPlaced
  <1>10. 2 * (dc - dg) >= -Tick /\ dc >= da
    <2>1. dc >= db /\ db >= da /\ 2 * (db - dz) >= -Tick /\ dp <= dc /\ dp - da >= n
      BY <1>1, <1>2, <1>3, <1>5, <1>7
    <2>2. CASE x = z
      <3>1. dg = dz
        BY <1>7, <1>8, <2>2
      <3>2. QED
        BY <1>9, <2>1, <3>1
    <2>3. CASE x # z
      <3>1. dx = dp - dist \/ dx = da + m
        BY <1>6, <1>7, <2>3
      <3>2. dx <= dc
        BY <1>5, <2>1, <3>1
      <3>3. QED
        BY <1>8, <1>9, <2>1, <3>2
    <2>4. QED
      BY <2>2, <2>3
  <1>11. 2 * (dg - da - k) >= -Tick /\ OnTick(g)
    <2>1. CASE s \in trailed
      <3>1. 2 * (dz - da - k) >= -Tick /\ dg >= dz
        BY <1>1, <1>7, <1>8, <1>9, <2>1
      <3>2. OnTick(g)
        BY <1>8, <1>9, <2>1
      <3>3. QED
        BY <1>9, <3>1, <3>2
    <2>2. CASE s \notin trailed
      <3>1. m = k /\ dz = da - r
        BY <1>1, <1>3, <1>5, <1>7, <2>2
      <3>2. x # z
        BY <1>1, <1>7, <1>9, <3>1
      <3>3. QED
        BY <1>8, <1>9, <3>1, <3>2
    <2>3. QED
      BY <2>1, <2>2
  <1>12. /\ pos'[s].side = d /\ pos'[s].avg = a /\ pos'[s].stop = g
         /\ risked'[s] = r /\ s \in trailed' /\ trail'[s] = t
    BY <1>0, <1>1, <1>4 DEF Trail, TypeOK, t
  <1>13. TrailEarned(s)'
    BY <1>2, <1>3, <1>12 DEF TrailEarned
  <1>14. StopPlaced(s)'
    <2>1. NearlyAhead(d, g, a + d * k)
      <3>1. d * (g - (a + d * k)) = dg - da - k
        <4>1. CASE d = 1
          BY <1>7, <4>1
        <4>2. CASE d = -1
          BY <1>7, <4>2
        <4>3. QED
          BY <4>1, <4>2
      <3>2. 2 * d * (g - (a + d * k)) = 2 * (d * (g - (a + d * k)))
        OBVIOUS
      <3>3. QED
        BY <1>11, <3>1, <3>2 DEF NearlyAhead
    <2>2. Locked(s)'
      BY <1>1, <1>12, <2>1 DEF Locked, NearlyAhead
    <2>3. QED
      BY <1>3, <1>11, <1>12, <2>2 DEF StopPlaced
  <1>15. NearlyAhead(d, c, g) /\ d * c >= d * a
    <2>1. c \in Int /\ (NearlyAhead(d, c, g) <=> 2 * (d * c - d * g) >= -Tick)
      BY Sides
    <2>2. QED
      BY <1>7, <1>10, <2>1
  <1>16. r \in StopDists
    BY <1>1 DEF Own
  <1>17. QED
    BY <1>2, <1>12, <1>13, <1>14, <1>15, <1>16 DEF Own, NearlyAhead

\* What a position has been since the state before.
Untouched(s) ==
    /\ pos'[s] = pos[s] /\ best'[s] = best[s] /\ risked'[s] = risked[s]
    /\ trail'[s] \in {trail[s], NoTrail}
    /\ s \in trailed' <=> s \in trailed
    /\ s \in inherited' <=> s \in inherited

LEMMA UntouchedKeeps ==
    ASSUME IInv, NEW s \in Symbols, Untouched(s), s \in Held' \ inherited'
    PROVE  Own(s)'
  <1>1. s \in Held \ inherited
    BY DEF Untouched, Held
  <1>2. QED
    BY <1>1, OwnFrame DEF IInv, Untouched

LEMMA ClosedUntouched ==
    ASSUME TypeOK, NEW gone \in SUBSET Symbols, Closed(gone), NEW s \in Symbols,
           trail'[s] \in {trail[s], NoTrail}, s \in Held'
    PROVE  Untouched(s)
  <1>1. s \notin gone
    BY DEF Closed, Held
  <1>2. QED
    BY <1>1 DEF Closed, Untouched

LEMMA OutcomeKeeps ==
    ASSUME ExitAssumption, IInv, NEW x \in Symbols, x \in todo, NEW bar \in NatBars,
           Outcome(x, bar), NEW s \in Symbols, s \in Held' \ inherited'
    PROVE  Own(s)'
  <1>1. x \in Held /\ TypeInv /\ TypeOK
    BY DEF IInv, TypeInv, TypeOK
  <1>2. CASE Exit(x, bar)
    <2>1. trail' = [trail EXCEPT ![x] = NoTrail] /\ Closed({x})
      BY <1>2 DEF Exit
    <2>2. trail'[s] \in {trail[s], NoTrail}
      BY <1>1, <2>1 DEF TypeOK
    <2>3. QED
      BY <1>1, <2>1, <2>2, ClosedUntouched, UntouchedKeeps
  <1>3. ASSUME Hold(x, bar) \/ Raise(x, bar) PROVE Own(s)'
    <2>1. /\ UNCHANGED <<pos, risked, trailed, inherited>> /\ Seen(x, bar)
          /\ trail' = [trail EXCEPT ![x] =
                 IF TrailOf(x) = NoTrail THEN NoTrail ELSE Follow(x, bar)]
          /\ ~StopHit(pos[x], bar)
      BY <1>3 DEF Hold, Raise, Stays
    <2>2. CASE s = x
      <3>1. Own(x) /\ trail'[x] = IF TrailOf(x) = NoTrail THEN NoTrail ELSE Follow(x, bar)
        BY <1>1, <2>1, <2>2 DEF IInv, Held, TypeOK
      <3>2. QED
        BY <1>1, <2>1, <2>2, <3>1, OwnPassed, ExitAssumption
    <2>3. CASE s # x
      <3>1. Untouched(s)
        BY <1>1, <2>1, <2>3 DEF Untouched, Seen, TypeOK
      <3>2. QED
        BY <3>1, UntouchedKeeps
    <2>4. QED
      BY <2>2, <2>3
  <1>4. ASSUME NEW range \in Nat, Trail(x, bar, range) PROVE Own(s)'
    <2>1. PICK g \in Int : pos' = [pos EXCEPT ![x].stop = g]
      BY <1>1, <1>4, TrailMoves, ExitAssumption
    <2>2. CASE s = x
      <3>1. Own(x)
        BY <1>1, <1>4, <2>2 DEF IInv, Trail
      <3>2. QED
        BY <1>1, <1>4, <2>2, <3>1, OwnTrailed, ExitAssumption
    <2>3. CASE s # x
      <3>1. Untouched(s)
        BY <1>1, <1>4, <2>1, <2>3 DEF Untouched, Trail, Seen, TypeOK
      <3>2. QED
        BY <3>1, UntouchedKeeps
    <2>4. QED
      BY <2>2, <2>3
  <1>5. QED
    BY <1>2, <1>3, <1>4 DEF Outcome

\* A new position without a trail of before.
LEMMA EnterKeeps ==
    ASSUME ExitAssumption, IInv, NEW x \in Symbols, Enter(x),
           NEW s \in Symbols, s \in Held' \ inherited'
    PROVE  Own(s)'
  <1>0. TypeInv /\ TypeOK
    BY DEF IInv, TypeInv
  <1>1. PICK d \in {1, -1}, p \in Nat, r \in StopDists, t \in Nat :
            /\ pos' = [pos EXCEPT ![x] =
                   [side |-> d, avg |-> p, stop |-> p - d * r, take |-> p + d * t]]
            /\ best' = [best EXCEPT ![x] = p] /\ risked' = [risked EXCEPT ![x] = r]
    BY <1>0, EnterTypes, ExitAssumption
  <1>2. /\ UNCHANGED <<trail, marks, todo, seen, trailed>> /\ pos[x] = Flat
        /\ inherited' = IF trail[x] = NoTrail THEN inherited ELSE inherited \cup {x}
    BY DEF Enter
  <1>3. CASE s = x
    <2>1. trail'[s] = NoTrail /\ s \notin trailed'
      BY <1>0, <1>2, <1>3 DEF TypeOK, Held
    <2>2. /\ pos'[s].side = d /\ pos'[s].avg = p /\ pos'[s].stop = p - d * r
          /\ best'[s] = p /\ risked'[s] = r
      BY <1>0, <1>1, <1>3 DEF TypeOK
    <2>3. r \in Nat /\ Tick \in Nat
      BY DEF ExitAssumption
    <2>4. NearlyAhead(d, p, p - d * r)
      <3>1. CASE d = 1
        BY <2>3, <3>1 DEF NearlyAhead
      <3>2. CASE d = -1
        BY <2>3, <3>2 DEF NearlyAhead
      <3>3. QED
        BY <3>1, <3>2
    <2>5. TrailEarned(s)' /\ StopPlaced(s)'
      BY <2>1, <2>2 DEF TrailEarned, StopPlaced
    <2>6. d * p >= d * p
      OBVIOUS
    <2>7. QED
      BY <2>2, <2>4, <2>5, <2>6 DEF Own, NearlyAhead
  <1>4. CASE s # x
    <2>1. Untouched(s)
      BY <1>0, <1>1, <1>2, <1>4 DEF Untouched, TypeOK
    <2>2. QED
      BY <2>1, UntouchedKeeps
  <1>5. QED
    BY <1>3, <1>4

LEMMA InvStep ==
    ASSUME ExitAssumption, IInv, [Next]_vars
    PROVE  IInv'
  <1>0. TypeInv /\ TypeOK /\ TypeInv'
    BY TypeStep, ExitAssumption DEF IInv, TypeInv
  <1> SUFFICES ASSUME NEW s \in Symbols, s \in Held' \ inherited'
               PROVE  Own(s)'
    BY <1>0 DEF IInv, Held
  <1>1. ASSUME NEW x \in Symbols, Enter(x) PROVE Own(s)'
    BY <1>1, EnterKeeps, ExitAssumption
  <1>2. ASSUME NEW x \in Symbols, Manage(x) PROVE Own(s)'
    <2>1. CASE Unmanaged(x)
      <3>1. Untouched(s)
        BY <2>1 DEF Unmanaged, history, Untouched
      <3>2. QED
        BY <3>1, UntouchedKeeps
    <2>2. CASE x \in todo /\ \E bar \in NatBars : Outcome(x, bar)
      BY <2>2, OutcomeKeeps, ExitAssumption
    <2>3. QED
      BY <1>0, <1>2, <2>1, <2>2, Managed, ExitAssumption
  <1>3. CASE BeginPass \/ UpdateMarks
    <2>1. Untouched(s)
      BY <1>3 DEF BeginPass, UpdateMarks, history, Untouched
    <2>2. QED
      BY <2>1, UntouchedKeeps
  <1>4. CASE EndOfDay \/ LockIn
    <2>1. Held \in SUBSET Symbols /\ Closed(Held) /\ trail'[s] \in {trail[s], NoTrail}
      BY <1>4 DEF EndOfDay, LockIn, Held
    <2>2. QED
      BY <1>0, <2>1, ClosedUntouched, UntouchedKeeps
  <1>5. CASE Restart
    <2>1. Held \in SUBSET Symbols /\ trail'[s] \in {trail[s], NoTrail}
      BY <1>5 DEF Restart, Held
    <2>2. CASE Closed(Held)
      BY <1>0, <2>1, <2>2, ClosedUntouched, UntouchedKeeps
    <2>3. CASE UNCHANGED <<pos, history>>
      <3>1. Untouched(s)
        BY <2>1, <2>3 DEF history, Untouched
      <3>2. QED
        BY <3>1, UntouchedKeeps
    <2>4. QED
      BY <1>5, <2>2, <2>3 DEF Restart
  <1>6. CASE UNCHANGED vars
    <2>1. Untouched(s)
      BY <1>6 DEF vars, Untouched
    <2>2. QED
      BY <2>1, UntouchedKeeps
  <1>7. QED
    BY <1>1, <1>2, <1>3, <1>4, <1>5, <1>6 DEF Next

\* The strengthened invariant: an own trail has seen its peak and earned its
\* activation, and a stop is where it was placed or on a tick of the floor.
THEOREM Invariance == Spec => []IInv
  <1>1. Init => IInv
    <2>1. Init => TypeInv /\ Held = {}
      BY TypeInit, ExitAssumption DEF Init, Held
    <2>2. QED
      BY <2>1 DEF IInv
  <1>2. IInv /\ [Next]_vars => IInv'
    BY InvStep, ExitAssumption
  <1>3. QED
    BY <1>1, <1>2, PTL DEF Spec

\* executor.py:560-574: once trailed, a position keeps its share of the R it
\* was entered with, also after restarts, and its trail is active.
THEOREM ShareLockedIn == Spec => []LockedIn
  <1>1. IInv => LockedIn
    <2> SUFFICES ASSUME IInv, NEW s \in trailed \ inherited
                 PROVE  Locked(s) /\ (trail[s] # NoTrail => trail[s].active)
      BY DEF LockedIn, Locked
    <2>1. s \in Held \ inherited
      BY DEF IInv, TypeInv, TypeOK
    <2>2. QED
      BY <2>1 DEF IInv, Own, StopPlaced
  <1>2. QED
    BY <1>1, Invariance, PTL

\* A stop is never set beyond the best price since entry.
THEOREM StopBehindBest == Spec => []BehindBest
  <1>1. IInv => BehindBest
    BY DEF IInv, Own, BehindBest
  <1>2. QED
    BY <1>1, Invariance, PTL
===============================================================================
