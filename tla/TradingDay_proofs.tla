--------------------------- MODULE TradingDay_proofs ---------------------------
(***************************************************************************)
(* Proofs about TradingDay, for any set of symbols, any caps, any range of *)
(* equities and any number of days and restarts.                           *)
(***************************************************************************)
EXTENDS TradingDay, FiniteSetTheorems, TLAPS

\* Sizes of the sets the model counts.
LEMMA SubsetSizes ==
    ASSUME NEW h \in SUBSET Symbols
    PROVE  /\ IsFiniteSet(h)
           /\ Cardinality(h) \in Nat
           /\ Cardinality(h) = 0 <=> h = {}
  BY ConfigAssumption, FS_Subset, FS_CardinalityType, FS_EmptySet

LEMMA SmallerSubset ==
    ASSUME NEW h \in SUBSET Symbols, NEW g \in SUBSET h
    PROVE  Cardinality(g) <= Cardinality(h)
  BY SubsetSizes, FS_Subset

LEMMA UnionSize ==
    ASSUME NEW h \in SUBSET Symbols, NEW g \in SUBSET Symbols, g \cap h = {}
    PROVE  Cardinality(h \cup g) = Cardinality(h) + Cardinality(g)
<1>1. IsFiniteSet(h) /\ IsFiniteSet(g)
  BY SubsetSizes
<1>2. Cardinality(h \cup g)
        = Cardinality(h) + Cardinality(g) - Cardinality(h \cap g)
  BY <1>1, FS_Union
<1>3. Cardinality(h \cap g) = 0
  <2>1. h \cap g = {}
    OBVIOUS
  <2> QED BY <2>1, FS_EmptySet
<1> QED
  BY <1>2, <1>3, SubsetSizes

-------------------------------------------------------------------------------
(* Types.                                                                  *)

\* What the helpers of the handlers write has the right type.
LEMMA SnapshotType ==
    ASSUME TypeOK, NEW h \in SUBSET Symbols, NEW e \in Equities
    PROVE  Snapshot(h, e) \in Snapshots
  BY ConfigAssumption DEF TypeOK, Snapshot, Snapshots

LEMMA BookType ==
    ASSUME TypeOK, NEW h \in SUBSET Symbols, NEW e \in Equities,
           Book(h, e) \/ ManagedBook(h, e)
    PROVE  /\ held' \in SUBSET Symbols
           /\ equity' \in Equities
           /\ snap' \in Snapshots \cup {None}
           /\ missed' \in 0..MaxMissed
  BY SnapshotType, ConfigAssumption DEF TypeOK, Book, ManagedBook, Save

\* The same when the last write was lost.
LEMMA LostSaveType ==
    ASSUME TypeOK, NEW g \in SUBSET Symbols, NEW h \in SUBSET Symbols,
           NEW e \in Equities, LostSave(g, h, e)
    PROVE  /\ held' \in SUBSET Symbols
           /\ equity' \in Equities
           /\ snap' \in Snapshots \cup {None}
           /\ missed' \in 0..MaxMissed
  BY SnapshotType, ConfigAssumption DEF TypeOK, LostSave

\* Books that differ in one symbol at most.
OneApart(h, g) == \E s : Apart(h, g) \subseteq {s}

\* Exits that are cut short leave a smaller book, saved or one close ahead
\* of its snapshot.
LEMMA CutExitsBook ==
    ASSUME TypeOK, NEW m \in SUBSET held, NEW h, NEW e \in Equities,
           CutExits(m, h, e)
    PROVE  /\ h \in SUBSET held
           /\ \E g \in SUBSET held :
                 /\ OneApart(h, g)
                 /\ Book(h, e) \/ ManagedBook(h, e) \/ LostSave(g, h, e)
<1>1. h \in SUBSET held
  BY DEF CutExits
<1>2. CASE Book(h, e) \/ ManagedBook(h, e)
  <2>1. OneApart(h, h)
    BY DEF Apart, OneApart
  <2> QED BY <1>1, <1>2, <2>1
<1>3. CASE \E s \in m \ h : LostSave(h \cup {s}, h, e)
  <2>1. PICK s \in m \ h : LostSave(h \cup {s}, h, e)
    BY <1>3
  <2>2. h \cup {s} \in SUBSET held /\ OneApart(h, h \cup {s})
    BY <1>1, <2>1 DEF Apart, OneApart
  <2> QED BY <1>1, <2>1, <2>2
<1> QED
  BY <1>1, <1>2, <1>3 DEF CutExits

LEMMA RiskReadType ==
    ASSUME TypeOK, NEW e \in Equities, NEW n \in Nat,
           RiskRead(e, n), TradesNow + n <= MaxTrades
    PROVE  /\ riskDay' \in 0..MaxDay
           /\ trades' \in 0..MaxTrades
           /\ startEq' \in Equities \cup {None}
           /\ baseMark' \in Baselines \cup {None}
  BY ConfigAssumption
     DEF TypeOK, RiskRead, Base, BaseNow, TradesNow, Baselines

LEMMA RiskQuietType ==
    ASSUME TypeOK,
           \/ RiskReset \/ RiskIdle \/ ResetRaises
           \/ \E e \in Equities :
                 RiskRead(e, 0) \/ CaptureRaises(e) \/ PublishRead(e)
    PROVE  /\ riskDay' \in 0..MaxDay
           /\ trades' \in 0..MaxTrades
           /\ startEq' \in Equities \cup {None}
           /\ baseMark' \in Baselines \cup {None}
<1>1. TradesNow + 0 <= MaxTrades
  BY ConfigAssumption DEF TypeOK, TradesNow
<1>2. CASE RiskReset
  BY <1>2, ConfigAssumption DEF TypeOK, RiskReset, BaseNow, TradesNow
<1>3. CASE RiskIdle
  BY <1>3 DEF TypeOK, RiskIdle, riskVars
<1>4. CASE \E e \in Equities : RiskRead(e, 0)
  BY <1>1, <1>4, RiskReadType
<1>5. CASE ResetRaises
  BY <1>5, ConfigAssumption DEF TypeOK, ResetRaises
<1>6. CASE \E e \in Equities : CaptureRaises(e)
  BY <1>6, ConfigAssumption DEF TypeOK, CaptureRaises, TradesNow
<1> QED BY <1>2, <1>3, <1>4, <1>5, <1>6 DEF PublishRead

LEMMA EndOfDayType ==
    ASSUME TypeOK, NEW m \in BOOLEAN, NEW h \in SUBSET Symbols,
           NEW h2, NEW e \in Equities, NEW e2 \in Equities,
           EndOfDay(m, h, e, h2, e2)
    PROVE  /\ eodMark' \in 0..MaxDay
           /\ h2 \in SUBSET Symbols
           /\ Rejections(m, h, h2) \in SUBSET Reasons
  BY DEF TypeOK, EndOfDay, Rejections, Reasons

LEMMA RolloverType ==
    ASSUME TypeOK, Rollover
    PROVE  profitLocked' \in BOOLEAN /\ lockMark' \in 0..MaxDay
  BY ConfigAssumption DEF TypeOK, Rollover, LockedNow

LEMMA TypeInit == Init => TypeOK
<1> SUFFICES ASSUME Init
             PROVE  TypeOK
  OBVIOUS
<1>1. day \in 1..MaxDay /\ riskDay \in 0..MaxDay /\ equity \in Equities
  BY ConfigAssumption DEF Init
<1>2. trades \in 0..MaxTrades /\ starts \in 0..MaxStarts
  BY ConfigAssumption DEF Init
<1>3. hit \in 0..MaxDay /\ missed \in 0..MaxMissed
  BY ConfigAssumption DEF Init
<1>4. eodMark \in 0..MaxDay /\ lockMark \in 0..MaxDay
  BY ConfigAssumption DEF Init
<1> QED
  BY <1>1, <1>2, <1>3, <1>4 DEF Init, TypeOK, Phases

\* What a tick that is cut short leaves alone.
LEMMA CutFrame ==
    ASSUME TickCut
    PROVE  /\ up /\ phase' = phase /\ day' = day /\ up' = up
           /\ killFile' = killFile /\ cacheUp' = FALSE /\ starts' = starts
           /\ eodMark' = eodMark /\ eodDue' = eodDue /\ excuses' = excuses
  BY DEF TickCut, TickRuns, CutShort, RolloverRaises, ManageRaises, ReadRaises,
         ClosesRaise, LockInRaises, EntryRaises, SquareOffRaises

\* How far it can have come with the book: the last change may be unsaved.
LEMMA CutBook ==
    ASSUME TypeOK, TickCut
    PROVE  \E g \in SUBSET Symbols, h \in SUBSET Symbols, e \in Equities :
              /\ OneApart(h, g)
              /\ Book(h, e) \/ ManagedBook(h, e) \/ LostSave(g, h, e)
<1>1. \A h : OneApart(h, h)
  BY DEF Apart, OneApart
<1>2. CASE \E m \in SUBSET held, h \in SUBSET held, e \in Equities : CutExits(m, h, e)
  BY <1>2, CutExitsBook DEF TypeOK
<1>3. CASE \E h \in SUBSET held, e \in Equities : ManagedBook(h, e) \/ LostSave(h, h, e)
  BY <1>1, <1>3 DEF TypeOK
<1>4. CASE RolloverRaises
  <2>1. Book(held, equity)
    BY <1>4 DEF RolloverRaises, Book
  <2> QED BY <1>1, <2>1 DEF TypeOK
<1>5. CASE ManageRaises
  BY <1>2, <1>3, <1>5 DEF ManageRaises
<1>6. CASE ReadRaises
  BY <1>3, <1>6 DEF ReadRaises
<1>7. CASE ClosesRaise
  BY <1>2, <1>7 DEF ClosesRaise
<1>8. CASE LockInRaises
  BY <1>3, <1>8 DEF LockInRaises
<1>9. CASE EntryRaises
  <2>1. PICK h \in SUBSET held, new \in SUBSET Symbols, e \in Equities :
           \/ ManagedBook(h \cup new, e)
           \/ \E s \in new : LostSave((h \cup new) \ {s}, h \cup new, e)
    BY <1>9 DEF EntryRaises
  <2>2. h \cup new \in SUBSET Symbols
    BY DEF TypeOK
  <2>3. CASE ManagedBook(h \cup new, e)
    BY <1>1, <2>2, <2>3
  <2>4. CASE \E s \in new : LostSave((h \cup new) \ {s}, h \cup new, e)
    <3>1. PICK s \in new : LostSave((h \cup new) \ {s}, h \cup new, e)
      BY <2>4
    <3>2. /\ (h \cup new) \ {s} \in SUBSET Symbols
          /\ OneApart(h \cup new, (h \cup new) \ {s})
      BY <2>2 DEF Apart, OneApart
    <3> QED BY <2>2, <3>1, <3>2
  <2> QED BY <2>1, <2>3, <2>4
<1>10. CASE SquareOffRaises
  BY <1>2, <1>10 DEF SquareOffRaises, EodCut
<1> QED
  BY <1>4, <1>5, <1>6, <1>7, <1>8, <1>9, <1>10 DEF TickCut

\* And with the counters of the day.
LEMMA CutRisk ==
    ASSUME TypeOK, TickCut
    PROVE  \/ RiskIdle \/ RiskReset \/ ResetRaises
           \/ \E e \in Equities : CaptureRaises(e) \/ RiskRead(e, 0)
           \/ \E e \in Equities, n \in Nat :
                 RiskRead(e, n) /\ TradesNow + n <= MaxTrades
<1>1. CASE EntryRaises
  <2>1. PICK h \in SUBSET held, new \in (SUBSET Symbols) \ {{}},
             e \in Equities, e2 \in Equities, e3 \in Equities :
           /\ Admitted(new, h, Base(e), e2, e3)
           /\ RiskRead(e, Cardinality(new) - 1)
    BY <1>1 DEF EntryRaises
  <2>2. Cardinality(new) \in Nat \ {0}
    <3>1. new \in SUBSET Symbols /\ new # {}
      BY <2>1
    <3> QED BY <3>1, SubsetSizes
  <2>3. TradesNow + Cardinality(new) <= MaxTrades
    BY <2>1 DEF Admitted
  <2>4. TradesNow \in Nat
    BY ConfigAssumption DEF TypeOK, TradesNow
  <2>5. Cardinality(new) - 1 \in Nat /\ TradesNow + (Cardinality(new) - 1) <= MaxTrades
    BY <2>2, <2>3, <2>4, ConfigAssumption
  <2> QED BY <2>1, <2>5
<1>2. CASE RolloverRaises \/ ManageRaises \/ SquareOffRaises
  BY <1>2 DEF RolloverRaises, ManageRaises, SquareOffRaises, RiskIdle
<1>3. CASE ReadRaises \/ ClosesRaise \/ LockInRaises
  BY <1>3 DEF ReadRaises, ClosesRaise, LockInRaises
<1> QED
  BY <1>1, <1>2, <1>3 DEF TickCut

\* And with the lock.
LEMMA CutLock ==
    ASSUME TypeOK, TickCut
    PROVE  \/ Rollover /\ hit' = hit
           \/ /\ RolloverRaises /\ ~LockedNow
              /\ profitLocked' = FALSE /\ lockMark' \in {lockMark, 0} /\ hit' = hit
           \/ /\ LockInRaises
              /\ profitLocked' = TRUE /\ lockMark' \in {lockMark, 0} /\ hit' = day
  BY DEF TickCut, RolloverRaises, ManageRaises, ReadRaises, ClosesRaise,
         LockInRaises, EntryRaises, SquareOffRaises

\* No tick that is cut short opens anything but an entry.
LEMMA CutShrinks ==
    ASSUME TypeOK, TickCut, ~EntryRaises
    PROVE  /\ held' \in SUBSET held
           /\ snap' = snap \/ snap'.held \in SUBSET held
<1>1. CASE RolloverRaises
  BY <1>1 DEF RolloverRaises
<1>2. CASE \E g \in SUBSET held, h \in SUBSET held, e \in Equities :
              Book(h, e) \/ ManagedBook(h, e) \/ LostSave(g, h, e)
  BY <1>2 DEF Book, ManagedBook, LostSave, Save, Snapshot
<1>3. CASE ManageRaises
  BY <1>2, <1>3, CutExitsBook DEF ManageRaises
<1>4. CASE ReadRaises \/ LockInRaises
  BY <1>2, <1>4 DEF ReadRaises, LockInRaises
<1>5. CASE ClosesRaise
  BY <1>2, <1>5, CutExitsBook DEF ClosesRaise
<1>6. CASE SquareOffRaises
  BY <1>2, <1>6, CutExitsBook DEF SquareOffRaises, EodCut
<1> QED
  BY <1>1, <1>3, <1>4, <1>5, <1>6 DEF TickCut

LEMMA TypeCut == TypeOK /\ TickCut => TypeOK'
<1> SUFFICES ASSUME TypeOK, TickCut
             PROVE  TypeOK'
  OBVIOUS
<1>1. /\ held' \in SUBSET Symbols /\ equity' \in Equities
      /\ snap' \in Snapshots \cup {None} /\ missed' \in 0..MaxMissed
  BY CutBook, BookType, LostSaveType
<1>2. /\ riskDay' \in 0..MaxDay /\ trades' \in 0..MaxTrades
      /\ startEq' \in Equities \cup {None}
      /\ baseMark' \in Baselines \cup {None}
  BY CutRisk, RiskQuietType, RiskReadType
<1>3. /\ profitLocked' \in BOOLEAN /\ lockMark' \in 0..MaxDay
      /\ hit' \in 0..MaxDay
  <2>1. CASE Rollover /\ hit' = hit
    BY <2>1, RolloverType DEF TypeOK
  <2>2. CASE ~Rollover
    <3>1. /\ profitLocked' \in BOOLEAN /\ lockMark' \in {lockMark, 0}
          /\ hit' \in {hit, day}
      BY <2>2, CutLock
    <3> QED BY <3>1, ConfigAssumption DEF TypeOK
  <2>3. CASE Rollover /\ hit' # hit
    <3>1. hit' = day
      BY <2>3, CutLock
    <3> QED BY <2>3, <3>1, RolloverType, ConfigAssumption DEF TypeOK
  <2> QED BY <2>1, <2>2, <2>3
<1>4. /\ day' \in 1..MaxDay /\ phase' \in Phases /\ killFile' \in BOOLEAN
      /\ cacheUp' \in BOOLEAN /\ up' \in BOOLEAN /\ starts' \in 0..MaxStarts
      /\ eodMark' \in 0..MaxDay /\ eodDue' \in BOOLEAN
      /\ excuses' \in SUBSET Reasons
  BY CutFrame DEF TypeOK
<1> QED
  BY <1>1, <1>2, <1>3, <1>4 DEF TypeOK

LEMMA TypeTick == TypeOK /\ Tick => TypeOK'
<1> SUFFICES ASSUME TypeOK, Tick
             PROVE  TypeOK'
  OBVIOUS
<1>1. CASE TickSquareOff
  <2>1. PICK h2 \in SUBSET held, e2 \in Equities :
           /\ EndOfDay(TRUE, held, equity, h2, e2)
           /\ Book(h2, e2)
           /\ (RiskIdle /\ UNCHANGED cacheUp) \/ PublishRead(e2)
           /\ excuses' = excuses \cup Rejections(TRUE, held, h2)
    BY <1>1 DEF TickSquareOff
  <2>2. held \in SUBSET Symbols /\ equity \in Equities /\ cacheUp' \in BOOLEAN
    BY <2>1 DEF TypeOK, PublishRead
  <2> QED
    BY <1>1, <2>1, <2>2, BookType, RiskQuietType, EndOfDayType, RolloverType
       DEF TickSquareOff, TypeOK, envVars
<1>2. CASE TickKill
  <2>1. PICK h \in SUBSET held, h2 \in SUBSET held,
             e \in Equities, e2 \in Equities :
           /\ EndOfDay(TRUE, h, e, h2, e2)
           /\ ManagedBook(h2, e2)
           /\ RiskReset \/ RiskRead(e, 0) \/ RiskRead(e2, 0) \/ CaptureRaises(e2)
           /\ cacheUp' \in {cacheUp, FALSE}
           /\ excuses' = excuses \cup Rejections(TRUE, h, h2)
                                 \cup (IF EodSkips(TRUE) THEN {} ELSE {"killed"})
    BY <1>2 DEF TickKill
  <2>2. h \in SUBSET Symbols /\ h2 \in SUBSET Symbols /\ cacheUp' \in BOOLEAN
    BY <2>1 DEF TypeOK
  <2>3. RiskReset \/ (\E x \in Equities : RiskRead(x, 0) \/ CaptureRaises(x))
    BY <2>1
  <2>4. excuses' \in SUBSET Reasons
    BY <2>1, <2>2, EndOfDayType DEF TypeOK, Reasons
  <2> QED
    BY <1>2, <2>1, <2>2, <2>3, <2>4, BookType, RiskQuietType, EndOfDayType,
       RolloverType
       DEF TickKill, TypeOK, envVars
<1>3. CASE TickManage
  <2>1. PICK h \in SUBSET held, e \in Equities :
           ManagedBook(h, e) /\ RiskRead(e, 0)
    BY <1>3 DEF TickManage
  <2>2. h \in SUBSET Symbols
    BY DEF TypeOK
  <2> QED
    BY <1>3, <2>1, <2>2, BookType, RiskQuietType, RolloverType
       DEF TickManage, TypeOK, envVars
<1>4. CASE TickLockIn
  <2>1. PICK h2 \in SUBSET held, e \in Equities, e2 \in Equities :
           ManagedBook(h2, e2) /\ RiskRead(e, 0)
    BY <1>4 DEF TickLockIn
  <2>2. h2 \in SUBSET Symbols
    BY DEF TypeOK
  <2>3. hit' \in 0..MaxDay
    BY <1>4, ConfigAssumption DEF TickLockIn, TypeOK
  <2>4. profitLocked' \in BOOLEAN /\ lockMark' \in 0..MaxDay
    BY <1>4, ConfigAssumption DEF TickLockIn, TypeOK
  <2> QED
    BY <1>4, <2>1, <2>2, <2>3, <2>4, BookType, RiskQuietType
       DEF TickLockIn, TypeOK, envVars
<1>5. CASE TickLocked
  <2>1. PICK h \in SUBSET held, e \in Equities :
           /\ ManagedBook(h, e)
           /\ IF held # {} THEN RiskRead(e, 0) ELSE RiskIdle
    BY <1>5 DEF TickLocked
  <2>2. h \in SUBSET Symbols
    BY DEF TypeOK
  <2> QED
    BY <1>5, <2>1, <2>2, BookType, RiskQuietType, RolloverType
       DEF TickLocked, TypeOK, envVars
<1>6. CASE TickTrade
  <2>1. PICK h \in SUBSET held, new \in SUBSET Symbols,
             e \in Equities, e2 \in Equities, e3 \in Equities :
           /\ IF new = {} THEN e3 = e2 ELSE Admitted(new, h, Base(e), e2, e3)
           /\ ManagedBook(h \cup new, e3)
           /\ RiskRead(e, Cardinality(new))
    BY <1>6 DEF TickTrade
  <2>2. h \cup new \in SUBSET Symbols /\ Cardinality(new) \in Nat
    BY SubsetSizes DEF TypeOK
  <2>3. TradesNow + Cardinality(new) <= MaxTrades
    <3>1. CASE new = {}
      BY <3>1, SubsetSizes, ConfigAssumption DEF TypeOK, TradesNow
    <3>2. CASE new # {}
      BY <2>1, <3>2 DEF Admitted
    <3> QED BY <3>1, <3>2
  <2>5. /\ riskDay' \in 0..MaxDay
        /\ trades' \in 0..MaxTrades
        /\ startEq' \in Equities \cup {None}
        /\ baseMark' \in Baselines \cup {None}
    BY <2>1, <2>2, <2>3, RiskReadType
  <2>6. /\ held' \in SUBSET Symbols
        /\ equity' \in Equities
        /\ snap' \in Snapshots \cup {None}
        /\ missed' \in 0..MaxMissed
    BY <2>1, <2>2, BookType
  <2> QED
    BY <1>6, <2>5, <2>6, RolloverType DEF TickTrade, TypeOK, envVars
<1>7. CASE TickCut
  BY <1>7, TypeCut
<1> QED
  BY <1>1, <1>2, <1>3, <1>4, <1>5, <1>6, <1>7 DEF Tick

\* What a square-off job that raises leaves of the book.
LEMMA EodCutBook ==
    ASSUME TypeOK, EodJobRaises
    PROVE  \E g \in SUBSET Symbols, h \in SUBSET held, e \in Equities :
              /\ OneApart(h, g)
              /\ Book(h, e) \/ ManagedBook(h, e) \/ LostSave(g, h, e)
<1>1. CASE UNCHANGED <<held, equity, snap, missed>>
  <2>1. Book(held, equity) /\ OneApart(held, held)
    BY <1>1 DEF Book, Apart, OneApart
  <2> QED BY <2>1 DEF TypeOK
<1>2. CASE EodCut
  BY <1>2, CutExitsBook DEF EodCut, TypeOK
<1> QED
  BY <1>1, <1>2 DEF EodJobRaises

LEMMA TypeJobs ==
    TypeOK /\ (EodJob \/ EodJobRaises \/ Oversleep \/ DailyResetJob) => TypeOK'
<1> SUFFICES ASSUME TypeOK,
                    EodJob \/ EodJobRaises \/ Oversleep \/ DailyResetJob
             PROVE  TypeOK'
  OBVIOUS
<1>1. CASE EodJob
  <2>1. PICK h2 \in SUBSET held, e2 \in Equities :
           /\ EndOfDay(TRUE, held, equity, h2, e2)
           /\ Book(h2, e2)
           /\ (RiskIdle /\ UNCHANGED cacheUp) \/ PublishRead(e2)
           /\ excuses' = excuses \cup Rejections(TRUE, held, h2)
    BY <1>1 DEF EodJob
  <2>2. held \in SUBSET Symbols /\ equity \in Equities /\ cacheUp' \in BOOLEAN
    BY <2>1 DEF TypeOK, PublishRead
  <2>3. /\ held' \in SUBSET Symbols /\ equity' \in Equities
        /\ snap' \in Snapshots \cup {None} /\ missed' \in 0..MaxMissed
    BY <2>1, <2>2, BookType
  <2>4. /\ riskDay' \in 0..MaxDay /\ trades' \in 0..MaxTrades
        /\ startEq' \in Equities \cup {None}
        /\ baseMark' \in Baselines \cup {None}
    BY <2>1, RiskQuietType
  <2>5. eodMark' \in 0..MaxDay /\ excuses' \in SUBSET Reasons
    BY <2>1, <2>2, EndOfDayType DEF TypeOK
  <2> QED
    BY <1>1, <2>2, <2>3, <2>4, <2>5 DEF EodJob, TypeOK
<1>2. CASE EodJobRaises
  <2>1. /\ held' \in SUBSET Symbols /\ equity' \in Equities
        /\ snap' \in Snapshots \cup {None} /\ missed' \in 0..MaxMissed
    <3>1. PICK g \in SUBSET Symbols, h \in SUBSET held, e \in Equities :
             Book(h, e) \/ ManagedBook(h, e) \/ LostSave(g, h, e)
      BY <1>2, EodCutBook
    <3>2. h \in SUBSET Symbols
      BY DEF TypeOK
    <3> QED BY <3>1, <3>2, BookType, LostSaveType
  <2> QED
    BY <1>2, <2>1 DEF EodJobRaises, CutShort, TypeOK, riskVars, Reasons
<1>3. CASE Oversleep
  BY <1>3 DEF Oversleep, TypeOK, envVars, riskVars, Reasons
<1>4. CASE DailyResetJob
  BY <1>4, ConfigAssumption DEF DailyResetJob, TypeOK, envVars, riskVars
<1> QED
  BY <1>1, <1>2, <1>3, <1>4

LEMMA GoneType ==
    ASSUME Gone
    PROVE  /\ up' \in BOOLEAN
           /\ held' \in SUBSET Symbols
           /\ equity' \in Equities
           /\ missed' \in 0..MaxMissed
           /\ riskDay' \in 0..MaxDay
           /\ trades' \in 0..MaxTrades
           /\ startEq' \in Equities \cup {None}
           /\ profitLocked' \in BOOLEAN
           /\ hit' \in 0..MaxDay
           /\ eodDue' \in BOOLEAN
<1>1. trades' \in 0..MaxTrades /\ missed' \in 0..MaxMissed
  BY ConfigAssumption DEF Gone
<1>2. riskDay' \in 0..MaxDay /\ hit' \in 0..MaxDay
  BY ConfigAssumption DEF Gone
<1>3. equity' \in Equities
  BY ConfigAssumption DEF Gone
<1> QED
  BY <1>1, <1>2, <1>3 DEF Gone

\* A start that raises leaves a snapshot of today with fewer positions.
LEMMA StartRaisesSnap ==
    ASSUME TypeOK, StartRaises
    PROVE  \/ snap' \in {snap, None}
           \/ \E g \in SUBSET Symbols, e \in Equities :
                 snap' = Snapshot(g, e) /\ snap # None /\ g \subseteq snap.held
<1>1. PICK s \in {snap, None} :
         \/ snap' = s
         \/ Todays(s) /\ \E g \in SUBSET s.held, e \in Equities : snap' = Snapshot(g, e)
         \/ ~Todays(s) /\ snap' = None
  BY DEF StartRaises
<1>2. CASE Todays(s) /\ \E g \in SUBSET s.held, e \in Equities : snap' = Snapshot(g, e)
  <2>1. s = snap /\ snap # None /\ snap.held \in SUBSET Symbols
    BY <1>2 DEF Todays, TypeOK, Snapshots
  <2> QED BY <1>2, <2>1
<1> QED BY <1>1, <1>2

LEMMA TypeLifecycle ==
    TypeOK /\ (Start \/ StartRaises \/ Crash \/ Shutdown \/ ShutdownRaises)
      => TypeOK'
<1> SUFFICES ASSUME TypeOK,
                    Start \/ StartRaises \/ Crash \/ Shutdown \/ ShutdownRaises
             PROVE  TypeOK'
  OBVIOUS
<1>1. CASE Start
  <2>1. PICK s \in {snap, None}, l \in {lockMark, 0},
             h \in SUBSET Symbols, h2 \in SUBSET Symbols,
             e \in Equities, e2 \in Equities : RestoredFrom(s, l, h, e, h2, e2)
    BY <1>1 DEF Start
  <2>2. snap' \in Snapshots \cup {None}
    <3>1. s \in Snapshots \cup {None}
      BY DEF TypeOK
    <3>2. Snapshot(h2, e2) \in Snapshots
      BY SnapshotType
    <3>3. snap' \in {None, s, Snapshot(h2, e2)}
      BY <2>1 DEF RestoredFrom, RestoredSnap
    <3> QED BY <3>1, <3>2, <3>3
  <2>3. RestoredBase \in Equities \cup {None}
    BY DEF RestoredBase, TypeOK, Baselines
  <2>4. /\ startEq' \in Equities \cup {None}
        /\ baseMark' \in Baselines \cup {None}
    BY <2>1, <2>3 DEF RestoredFrom, TypeOK, Baselines
  <2>5. eodMark' \in 0..MaxDay /\ excuses' \in SUBSET Reasons
    BY <2>1, EndOfDayType DEF RestoredFrom, TypeOK
  <2>6. /\ profitLocked' \in BOOLEAN /\ lockMark' \in 0..MaxDay
        /\ hit' \in 0..MaxDay /\ missed' \in 0..MaxMissed
    BY <2>1, ConfigAssumption DEF RestoredFrom, RestoredLock, TypeOK
  <2>7. /\ riskDay' \in 0..MaxDay
        /\ trades' \in 0..MaxTrades
        /\ starts' \in 0..MaxStarts
    BY <1>1, ConfigAssumption DEF Start, TypeOK
  <2> QED
    BY <1>1, <2>1, <2>2, <2>4, <2>5, <2>6, <2>7
       DEF RestoredFrom, Start, TypeOK, envVars
<1>2. CASE Crash
  BY <1>2, GoneType DEF Crash, TypeOK, envVars
<1>3. CASE Shutdown
  <2>1. PICK h2 \in SUBSET held, e2 \in Equities :
           /\ EndOfDay(FALSE, held, equity, h2, e2)
           /\ snap' = IF h2 = held THEN snap ELSE Snapshot(h2, e2)
           /\ baseMark' = IF EodPublishes(FALSE, held) /\ BaseNow = None
                          THEN [day |-> day, val |-> e2] ELSE baseMark
    BY <1>3 DEF Shutdown
  <2>2. h2 \in SUBSET Symbols
    BY DEF TypeOK
  <2>3. snap' \in Snapshots \cup {None}
    BY <2>1, <2>2, SnapshotType DEF TypeOK
  <2>4. baseMark' \in Baselines \cup {None}
    BY <2>1 DEF TypeOK, Baselines
  <2>5. eodMark' = eodMark
    BY <2>1 DEF EndOfDay
  <2> QED
    BY <1>3, <2>3, <2>4, <2>5, GoneType DEF Shutdown, TypeOK, envVars
<1>4. CASE ShutdownRaises
  <2>1. snap' \in Snapshots \cup {None}
    BY <1>4, SnapshotType DEF ShutdownRaises, TypeOK
  <2> QED
    BY <1>4, <2>1, GoneType DEF ShutdownRaises, TypeOK
<1>5. CASE StartRaises
  <2>1. snap' \in Snapshots \cup {None}
    BY <1>5, StartRaisesSnap, SnapshotType DEF TypeOK
  <2>2. lockMark' \in 0..MaxDay /\ starts' \in 0..MaxStarts
    BY <1>5, ConfigAssumption DEF StartRaises, TypeOK
  <2> QED
    BY <1>5, <2>1, <2>2 DEF StartRaises, TypeOK, riskVars
<1> QED
  BY <1>1, <1>2, <1>3, <1>4, <1>5

LEMMA TypeEnvironment ==
    TypeOK /\ (ClockAdvances \/ NewDay \/ OperatorTogglesKillFile \/ CacheToggles)
      => TypeOK'
<1> SUFFICES ASSUME TypeOK, ClockAdvances \/ NewDay
                            \/ OperatorTogglesKillFile \/ CacheToggles
             PROVE  TypeOK'
  OBVIOUS
<1>1. CASE ClockAdvances
  <2>1. phase' \in Phases
    BY <1>1 DEF ClockAdvances, NextPhase, TypeOK, Phases
  <2>2. eodDue' \in BOOLEAN
    BY <1>1 DEF ClockAdvances, TypeOK
  <2> QED
    BY <1>1, <2>1, <2>2 DEF ClockAdvances, TypeOK, riskVars
<1>2. CASE NewDay
  <2>1. day' \in 1..MaxDay
    BY <1>2, ConfigAssumption DEF NewDay, TypeOK
  <2> QED
    BY <1>2, <2>1 DEF NewDay, TypeOK, riskVars, Phases
<1>3. CASE OperatorTogglesKillFile
  BY <1>3 DEF OperatorTogglesKillFile, TypeOK, riskVars
<1>4. CASE CacheToggles
  BY <1>4 DEF CacheToggles, TypeOK, riskVars
<1> QED
  BY <1>1, <1>2, <1>3, <1>4

LEMMA TypeStep == TypeOK /\ [Next]_vars => TypeOK'
<1>1. TypeOK /\ UNCHANGED vars => TypeOK'
  BY DEF TypeOK, vars
<1> QED
  BY <1>1, TypeTick, TypeJobs, TypeLifecycle, TypeEnvironment DEF Next

\* Every reachable state is well typed: whatever the caps and the number of
\* days, ticks, restarts and outages, the counted trades stay within the cap
\* the risk gate enforces and every stamp is a date.
THEOREM TypeCorrect == Spec => []TypeOK
  BY TypeInit, TypeStep, PTL DEF Spec

-------------------------------------------------------------------------------
(* The inductive invariant.                                                *)

\* No stamp lies in the future.
StampsInv ==
    /\ eodMark <= day /\ riskDay <= day /\ lockMark <= day /\ hit <= day
    /\ baseMark # None => baseMark.day <= day
    /\ snap # None => snap.day <= day

\* Today's marker and the square-off: who may write the marker before
\* "close", and what is left when the day's firing is dealt with.
SquareOffInv ==
    /\ ~up => held = {} /\ ~eodDue
    /\ eodDue => phase = "close"
    /\ eodMark = day /\ "killed" \notin excuses => phase = "close"
    /\ MarkerMeansFlat
    /\ phase = "close" /\ ~eodDue /\ excuses = {} => held = {}

\* The baseline of a day in memory and in the cache are one.
BaselineInv ==
    /\ BaselinesAgree
    /\ up /\ baseMark # None /\ baseMark.day = day => riskDay = day

\* The lock flag and the lock-in it stems from.
LockInv ==
    /\ LockIsTodays
    /\ up /\ hit = day => LockedNow

\* The snapshot a restart would restore respects the cap as well.
CapInv ==
    /\ OpenCap
    /\ snap # None => Cardinality(snap.held) <= MaxOpen

IInv ==
    /\ TypeOK /\ StampsInv /\ SquareOffInv /\ SnapshotLag
    /\ BaselineInv /\ LockInv /\ CapInv

-------------------------------------------------------------------------------
(* The invariant is preserved, one group of conjuncts at a time.           *)

\* A snapshot or baseline that a handler writes is stamped with the day.
LEMMA WrittenToday ==
    ASSUME TypeOK, StampsInv, day' = day,
           \/ snap' \in {snap, None}
           \/ \E h \in SUBSET Symbols, e \in Equities : snap' = Snapshot(h, e),
           \/ baseMark' \in {baseMark, None}
           \/ \E e \in Equities : baseMark' = [day |-> day, val |-> e]
    PROVE  /\ snap' # None => snap'.day <= day'
           /\ baseMark' # None => baseMark'.day <= day'
  BY DEF TypeOK, StampsInv, Snapshot

\* Only the handlers called with the marker write it: no start does.
LEMMA StartKeepsMarker == Start => eodMark' = eodMark
<1> SUFFICES ASSUME Start
             PROVE  eodMark' = eodMark
  OBVIOUS
<1>1. PICK s \in {snap, None}, l \in {lockMark, 0},
           h \in SUBSET Symbols, h2 \in SUBSET Symbols,
           e \in Equities, e2 \in Equities : RestoredFrom(s, l, h, e, h2, e2)
  BY DEF Start
<1>2. CASE Catchup(h)
  BY <1>1, <1>2 DEF RestoredFrom, EndOfDay
<1>3. CASE ~Catchup(h)
  BY <1>1, <1>3 DEF RestoredFrom
<1> QED BY <1>2, <1>3

LEMMA StampsStep ==
    ASSUME TypeOK, StampsInv, [Next]_vars
    PROVE  StampsInv'
<1> USE DEF TypeOK, StampsInv
<1>1. CASE TickSquareOff
  <2>1. \/ snap' \in {snap, None}
        \/ \E h \in SUBSET Symbols, e \in Equities : snap' = Snapshot(h, e)
    BY <1>1 DEF TickSquareOff, Book, Save
  <2>2. \/ baseMark' \in {baseMark, None}
        \/ \E e \in Equities : baseMark' = [day |-> day, val |-> e]
    BY <1>1 DEF TickSquareOff, PublishRead, ResetRaises, CaptureRaises,
                RiskRead, RiskIdle, riskVars
  <2>3. day' = day /\ hit' = hit
    BY <1>1 DEF TickSquareOff
  <2>4. eodMark' \in {eodMark, day} /\ riskDay' \in {riskDay, day}
    BY <1>1 DEF TickSquareOff, EndOfDay, PublishRead, ResetRaises,
                CaptureRaises, RiskRead, RiskIdle, riskVars
  <2>5. lockMark' \in {lockMark, 0}
    BY <1>1 DEF TickSquareOff, Rollover
  <2> QED
    BY <2>1, <2>2, <2>3, <2>4, <2>5, WrittenToday
<1>2. CASE TickKill
  <2>1. \/ snap' \in {snap, None}
        \/ \E h \in SUBSET Symbols, e \in Equities : snap' = Snapshot(h, e)
    BY <1>2 DEF TickKill, ManagedBook, Save
  <2>2. \/ baseMark' \in {baseMark, None}
        \/ \E e \in Equities : baseMark' = [day |-> day, val |-> e]
    BY <1>2 DEF TickKill, RiskRead, RiskReset, CaptureRaises
  <2>3. day' = day /\ hit' = hit
    BY <1>2 DEF TickKill
  <2>4. eodMark' \in {eodMark, day} /\ riskDay' \in {riskDay, day}
    BY <1>2 DEF TickKill, EndOfDay, RiskRead, RiskReset, CaptureRaises
  <2>5. lockMark' \in {lockMark, 0}
    BY <1>2 DEF TickKill, Rollover
  <2> QED
    BY <2>1, <2>2, <2>3, <2>4, <2>5, WrittenToday
<1>3. CASE TickManage
  BY <1>3, ConfigAssumption
     DEF TickManage, ManagedBook, Save, Rollover, RiskRead, envVars, Snapshot
<1>4. CASE TickLockIn
  BY <1>4, ConfigAssumption
     DEF TickLockIn, ManagedBook, Save, RiskRead, envVars, Snapshot
<1>5. CASE TickLocked
  BY <1>5, ConfigAssumption
     DEF TickLocked, ManagedBook, Save, Rollover, RiskRead, RiskIdle, riskVars,
         envVars, Snapshot
<1>6. CASE TickTrade
  BY <1>6, ConfigAssumption
     DEF TickTrade, ManagedBook, Save, Rollover, RiskRead, envVars, Snapshot
<1>7. CASE EodJob
  <2>1. \/ snap' \in {snap, None}
        \/ \E h \in SUBSET Symbols, e \in Equities : snap' = Snapshot(h, e)
    BY <1>7 DEF EodJob, Book, Save
  <2>2. \/ baseMark' \in {baseMark, None}
        \/ \E e \in Equities : baseMark' = [day |-> day, val |-> e]
    BY <1>7 DEF EodJob, PublishRead, ResetRaises, CaptureRaises, RiskRead,
                RiskIdle, riskVars
  <2>3. day' = day /\ hit' = hit
    BY <1>7 DEF EodJob
  <2>4. eodMark' \in {eodMark, day} /\ riskDay' \in {riskDay, day}
    BY <1>7 DEF EodJob, EndOfDay, PublishRead, ResetRaises, CaptureRaises,
                RiskRead, RiskIdle, riskVars
  <2>5. lockMark' \in {lockMark, 0}
    BY <1>7 DEF EodJob
  <2> QED
    BY <2>1, <2>2, <2>3, <2>4, <2>5, WrittenToday
<1>8. CASE EodJobRaises
  <2>1. \/ snap' \in {snap, None}
        \/ \E h \in SUBSET Symbols, e \in Equities : snap' = Snapshot(h, e)
    BY <1>8, EodCutBook DEF Book, ManagedBook, Save, LostSave
  <2> QED
    BY <1>8, <2>1, WrittenToday DEF EodJobRaises, CutShort, riskVars
<1>9. CASE Oversleep
  BY <1>9, ConfigAssumption DEF Oversleep, riskVars, envVars
<1>10. CASE DailyResetJob
  BY <1>10, ConfigAssumption DEF DailyResetJob, riskVars, envVars
<1>11. CASE Start
  <2>1. \/ snap' \in {snap, None}
        \/ \E h \in SUBSET Symbols, e \in Equities : snap' = Snapshot(h, e)
    BY <1>11 DEF Start, RestoredFrom, RestoredSnap
  <2>2. \/ baseMark' \in {baseMark, None}
        \/ \E e \in Equities : baseMark' = [day |-> day, val |-> e]
    BY <1>11 DEF Start, RestoredFrom
  <2>3. day' = day /\ hit' = lockMark'
    BY <1>11 DEF Start, RestoredFrom, envVars
  <2>4. eodMark' \in {eodMark, day} /\ riskDay' \in {riskDay, day}
    BY <1>11, StartKeepsMarker DEF Start
  <2>5. lockMark' \in {lockMark, 0}
    BY <1>11 DEF Start, RestoredFrom
  <2> QED
    BY <2>1, <2>2, <2>3, <2>4, <2>5, WrittenToday
<1>12. CASE Crash
  BY <1>12, ConfigAssumption DEF Crash, Gone, envVars
<1>13. CASE Shutdown
  <2>1. \/ snap' \in {snap, None}
        \/ \E h \in SUBSET Symbols, e \in Equities : snap' = Snapshot(h, e)
    BY <1>13 DEF Shutdown
  <2>2. \/ baseMark' \in {baseMark, None}
        \/ \E e \in Equities : baseMark' = [day |-> day, val |-> e]
    BY <1>13 DEF Shutdown
  <2>3. day' = day /\ hit' = 0
    BY <1>13 DEF Shutdown, Gone, envVars
  <2>4. eodMark' \in {eodMark, day} /\ riskDay' = 0
    BY <1>13 DEF Shutdown, Gone, EndOfDay
  <2>5. lockMark' \in {lockMark, 0}
    BY <1>13 DEF Shutdown
  <2> QED
    BY <2>1, <2>2, <2>3, <2>4, <2>5, WrittenToday
<1>14. CASE ShutdownRaises
  <2>1. \/ snap' \in {snap, None}
        \/ \E h \in SUBSET Symbols, e \in Equities : snap' = Snapshot(h, e)
    BY <1>14 DEF ShutdownRaises
  <2> QED
    BY <1>14, <2>1, WrittenToday, ConfigAssumption DEF ShutdownRaises, Gone
<1>15. CASE ClockAdvances
  BY <1>15, ConfigAssumption DEF ClockAdvances, riskVars
<1>16. CASE NewDay
  BY <1>16, ConfigAssumption DEF NewDay, riskVars, Snapshots, Baselines
<1>17. CASE OperatorTogglesKillFile
  BY <1>17, ConfigAssumption DEF OperatorTogglesKillFile, riskVars
<1>18. CASE CacheToggles
  BY <1>18, ConfigAssumption DEF CacheToggles, riskVars
<1>19. CASE UNCHANGED vars
  BY <1>19 DEF vars
<1>20. CASE TickCut
  <2>1. \/ snap' \in {snap, None}
        \/ \E h \in SUBSET Symbols, e \in Equities : snap' = Snapshot(h, e)
    BY <1>20, CutBook DEF Book, ManagedBook, Save, LostSave
  <2>2. \/ baseMark' \in {baseMark, None}
        \/ \E e \in Equities : baseMark' = [day |-> day, val |-> e]
    BY <1>20, CutRisk DEF RiskRead, RiskReset, ResetRaises, CaptureRaises,
                          RiskIdle, riskVars
  <2>3. day' = day /\ eodMark' = eodMark /\ hit' \in {hit, day}
    BY <1>20, CutFrame, CutLock
  <2>4. riskDay' \in {riskDay, day}
    BY <1>20, CutRisk DEF RiskRead, RiskReset, ResetRaises, CaptureRaises,
                          RiskIdle, riskVars
  <2>5. lockMark' \in {lockMark, 0}
    BY <1>20, CutLock DEF Rollover
  <2> QED
    BY <2>1, <2>2, <2>3, <2>4, <2>5, WrittenToday
<1>21. CASE StartRaises
  <2>1. \/ snap' \in {snap, None}
        \/ \E h \in SUBSET Symbols, e \in Equities : snap' = Snapshot(h, e)
    BY <1>21, StartRaisesSnap
  <2>2. /\ day' = day /\ eodMark' = eodMark /\ hit' = hit
        /\ riskDay' = riskDay /\ baseMark' = baseMark
        /\ lockMark' \in {lockMark, 0}
    BY <1>21 DEF StartRaises, riskVars
  <2> QED
    BY <2>1, <2>2, WrittenToday
<1> QED
  BY <1>1, <1>2, <1>3, <1>4, <1>5, <1>6, <1>7, <1>8, <1>9, <1>10, <1>11,
     <1>12, <1>13, <1>14, <1>15, <1>16, <1>17, <1>18, <1>19, <1>20,
     <1>21
     DEF Next, Tick

LEMMA SquareOffStep ==
    ASSUME TypeOK, StampsInv, SquareOffInv, [Next]_vars
    PROVE  SquareOffInv'
<1> USE DEF TypeOK, SquareOffInv, MarkerMeansFlat, Todays
<1>1. CASE TickSquareOff
  <2>1. PICK h2 \in SUBSET held, e2 \in Equities :
           /\ EndOfDay(TRUE, held, equity, h2, e2)
           /\ Book(h2, e2)
           /\ excuses' = excuses \cup Rejections(TRUE, held, h2)
    BY <1>1 DEF TickSquareOff
  <2>2. CASE EodSkips(TRUE)
    BY <1>1, <2>1, <2>2
       DEF TickSquareOff, TickRuns, Book, EndOfDay, EodPublishes, EodSkips
  <2>3. CASE ~EodSkips(TRUE)
    <3>1. excuses' \cap {"killed", "rejected"} = {} => held' = {}
      BY <2>1, <2>3 DEF Book, EndOfDay, EodPublishes, Rejections
    <3> QED
      BY <1>1, <2>1, <3>1 DEF TickSquareOff, TickRuns
  <2> QED BY <2>2, <2>3
<1>2. CASE TickKill
  BY <1>2
     DEF TickKill, TickRuns, ManagedBook, EndOfDay, EodPublishes, EodSkips,
         Rejections
<1>3. CASE TickManage
  BY <1>3 DEF TickManage, TickRuns, ManagedBook, envVars
<1>4. CASE TickLockIn
  BY <1>4 DEF TickLockIn, TickRuns, ManagedBook, envVars
<1>5. CASE TickLocked
  BY <1>5 DEF TickLocked, TickRuns, ManagedBook, envVars
<1>6. CASE TickTrade
  <2>1. eodMark' = day' => "killed" \in excuses'
    BY <1>6 DEF TickTrade, envVars
  <2> QED
    BY <1>6, <2>1 DEF TickTrade, TickRuns, envVars
<1>7. CASE EodJob
  <2>1. PICK h2 \in SUBSET held, e2 \in Equities :
           /\ EndOfDay(TRUE, held, equity, h2, e2)
           /\ Book(h2, e2)
           /\ excuses' = excuses \cup Rejections(TRUE, held, h2)
    BY <1>7 DEF EodJob
  <2> QED
    BY <1>7, <2>1
       DEF EodJob, Book, EndOfDay, EodPublishes, EodSkips, Rejections
<1>8. CASE EodJobRaises
  <2>1. held' \in SUBSET held
    BY <1>8, EodCutBook DEF Book, ManagedBook, LostSave
  <2> QED
    BY <1>8, <2>1 DEF EodJobRaises, CutShort
<1>9. CASE Oversleep
  BY <1>9 DEF Oversleep, riskVars, envVars
<1>10. CASE DailyResetJob
  BY <1>10 DEF DailyResetJob, riskVars, envVars
<1>11. CASE Start
  <2>1. PICK s \in {snap, None}, l \in {lockMark, 0},
             h \in SUBSET Symbols, h2 \in SUBSET Symbols,
             e \in Equities, e2 \in Equities : RestoredFrom(s, l, h, e, h2, e2)
    BY <1>11 DEF Start
  <2>2. phase = "close" => h2 = {} \/ "rejected" \in excuses'
    BY <2>1 DEF RestoredFrom, Catchup, EndOfDay, EodPublishes, EodSkips,
                Rejections
  <2>3. /\ up' /\ eodDue' = eodDue /\ day' = day /\ phase' = phase
        /\ eodMark' = eodMark /\ held' = h2
    BY <1>11, <2>1, StartKeepsMarker DEF Start, RestoredFrom, envVars
  <2>4. excuses \subseteq excuses'
    BY <2>1 DEF RestoredFrom
  <2> QED BY <2>2, <2>3, <2>4
<1>12. CASE Crash
  BY <1>12 DEF Crash, Gone, envVars
<1>13. CASE Shutdown
  BY <1>13 DEF Shutdown, Gone, EndOfDay, envVars
<1>14. CASE ShutdownRaises
  BY <1>14 DEF ShutdownRaises, Gone
<1>15. CASE ClockAdvances
  BY <1>15 DEF ClockAdvances, riskVars, NextPhase, Phases
<1>16. CASE NewDay
  BY <1>16 DEF NewDay, riskVars, StampsInv
<1>17. CASE OperatorTogglesKillFile
  BY <1>17 DEF OperatorTogglesKillFile, riskVars
<1>18. CASE CacheToggles
  BY <1>18 DEF CacheToggles, riskVars
<1>19. CASE UNCHANGED vars
  BY <1>19 DEF vars
<1>20. CASE TickCut
  <2>1. CASE EntryRaises
    BY <1>20, <2>1, CutFrame DEF EntryRaises
  <2>2. CASE ~EntryRaises
    BY <1>20, <2>2, CutFrame, CutShrinks
  <2> QED BY <2>1, <2>2
<1>21. CASE StartRaises
  BY <1>21 DEF StartRaises, riskVars
<1> QED
  BY <1>1, <1>2, <1>3, <1>4, <1>5, <1>6, <1>7, <1>8, <1>9, <1>10, <1>11,
     <1>12, <1>13, <1>14, <1>15, <1>16, <1>17, <1>18, <1>19, <1>20,
     <1>21
     DEF Next, Tick

\* Sizes of what a book and its snapshot differ by.
LEMMA OneApartSize ==
    ASSUME NEW h \in SUBSET Symbols, NEW g \in SUBSET Symbols,
           NEW x \in SUBSET Symbols, OneApart(h, g)
    PROVE  /\ Cardinality(Apart(h, x)) <= Cardinality(Apart(g, x)) + 1
           /\ Cardinality(Apart(h, g)) <= 1
           /\ Cardinality(Apart(h, h)) = 0
<1>1. PICK s : Apart(h, g) \subseteq {s}
  BY DEF OneApart
<1>2. /\ Apart(h, x) \in SUBSET Symbols /\ Apart(g, x) \in SUBSET Symbols
      /\ Apart(h, g) \in SUBSET Symbols /\ Apart(h, h) = {}
  BY DEF Apart
<1>3. Cardinality({s}) = 1 /\ IsFiniteSet({s})
  BY FS_Singleton
<1>4. Cardinality(Apart(h, g)) <= 1
  BY <1>1, <1>3, FS_Subset
<1>5. Apart(h, x) \subseteq Apart(g, x) \cup {s}
  BY <1>1 DEF Apart
<1>6. IsFiniteSet(Apart(g, x)) /\ Cardinality(Apart(g, x)) \in Nat
  BY <1>2, SubsetSizes
<1>7. /\ IsFiniteSet(Apart(g, x) \cup {s})
      /\ Cardinality(Apart(g, x) \cup {s})
           = Cardinality(Apart(g, x)) + Cardinality({s})
             - Cardinality(Apart(g, x) \cap {s})
  BY <1>3, <1>6, FS_Union
<1>8. Cardinality(Apart(g, x) \cap {s}) \in Nat
  <2>1. IsFiniteSet(Apart(g, x) \cap {s})
    BY <1>6, FS_Subset
  <2> QED BY <2>1, FS_CardinalityType
<1>9. Cardinality(Apart(h, x)) <= Cardinality(Apart(g, x) \cup {s})
  BY <1>5, <1>7, FS_Subset
<1>10. Cardinality(Apart(h, x)) \in Nat
  BY <1>2, SubsetSizes
<1>11. Cardinality(Apart(g, x) \cup {s}) \in Nat
  BY <1>7, FS_CardinalityType
<1>12. Cardinality(Apart(h, x)) <= Cardinality(Apart(g, x)) + 1
  BY <1>3, <1>6, <1>7, <1>8, <1>9, <1>10, <1>11
<1> QED
  BY <1>2, <1>4, <1>12, FS_EmptySet

\* A handler that ran to its end, or up to a write, lets the snapshot fall
\* behind by the write it lost and no more.
LEMMA LagBook ==
    ASSUME TypeOK, SnapshotLag, up,
           NEW g \in SUBSET Symbols, NEW h \in SUBSET Symbols,
           NEW e \in Equities, OneApart(h, g),
           Book(h, e) \/ ManagedBook(h, e) \/ LostSave(g, h, e)
    PROVE  SnapshotLag'
<1> SUFFICES ASSUME snap' # None
             PROVE  Cardinality(Apart(held', snap'.held)) <= missed'
  BY DEF SnapshotLag
<1>1. held \in SUBSET Symbols /\ missed \in Nat
  BY ConfigAssumption DEF TypeOK
<1>2. snap # None => snap.held \in SUBSET Symbols
  BY DEF TypeOK, Snapshots
<1>3. CASE held' = held /\ UNCHANGED <<snap, missed>>
  BY <1>3 DEF SnapshotLag
<1>4. CASE held' = h /\ Save(h, e)
  <2>1. snap'.held = h /\ missed' = 0
    BY <1>4 DEF Save, Snapshot
  <2>2. Cardinality(Apart(h, h)) = 0
    BY OneApartSize
  <2> QED BY <1>4, <2>1, <2>2
<1>5. CASE g = held /\ held' = h /\ snap' = snap /\ missed' = missed + 1
  <2>1. snap.held \in SUBSET Symbols
    BY <1>2, <1>5
  <2>2. Cardinality(Apart(held, snap.held)) <= missed
    BY <1>5 DEF SnapshotLag
  <2>3. Cardinality(Apart(h, snap.held)) <= Cardinality(Apart(held, snap.held)) + 1
    BY <1>5, <2>1, OneApartSize
  <2>4. /\ Apart(held, snap.held) \in SUBSET Symbols
        /\ Apart(h, snap.held) \in SUBSET Symbols
    BY <1>1, <2>1 DEF Apart
  <2>5. /\ Cardinality(Apart(held, snap.held)) \in Nat
        /\ Cardinality(Apart(h, snap.held)) \in Nat
    BY <2>4, SubsetSizes
  <2>6. Cardinality(Apart(h, snap.held)) <= missed + 1
    BY <1>1, <2>2, <2>3, <2>5
  <2> QED BY <1>5, <2>6
<1>6. CASE held' = h /\ missed' = 1 /\ \E e1 \in Equities : snap' = Snapshot(g, e1)
  <2>1. snap'.held = g
    BY <1>6 DEF Snapshot
  <2>2. Cardinality(Apart(h, g)) <= 1
    BY OneApartSize
  <2> QED BY <1>6, <2>1, <2>2
<1> QED
  BY <1>3, <1>4, <1>5, <1>6 DEF Book, ManagedBook, LostSave

LEMMA LagStep ==
    ASSUME TypeOK, SquareOffInv, SnapshotLag, [Next]_vars
    PROVE  SnapshotLag'
<1>0. \A h : OneApart(h, h)
  BY DEF Apart, OneApart
<1>1. CASE Tick
  <2>1. up
    BY <1>1, CutFrame DEF Tick, TickSquareOff, TickKill, TickManage,
         TickLockIn, TickLocked, TickTrade, TickRuns
  <2>2. CASE TickCut
    BY <2>1, <2>2, CutBook, LagBook
  <2>3. CASE ~TickCut
    <3>1. \E h \in SUBSET Symbols, e \in Equities : Book(h, e) \/ ManagedBook(h, e)
      <4>1. CASE TickSquareOff \/ TickKill
        BY <4>1 DEF TickSquareOff, TickKill, TypeOK
      <4>2. CASE TickManage \/ TickLockIn \/ TickLocked
        BY <4>2 DEF TickManage, TickLockIn, TickLocked, TypeOK
      <4>3. CASE TickTrade
        <5>1. PICK h \in SUBSET held, new \in SUBSET Symbols, e \in Equities :
                 ManagedBook(h \cup new, e)
          BY <4>3 DEF TickTrade
        <5>2. h \cup new \in SUBSET Symbols
          BY DEF TypeOK
        <5> QED BY <5>1, <5>2
      <4> QED BY <1>1, <2>3, <4>1, <4>2, <4>3 DEF Tick
    <3> QED BY <1>0, <2>1, <3>1, LagBook
  <2> QED BY <2>2, <2>3
<1>2. CASE EodJob
  <2>1. \E h \in SUBSET Symbols, e \in Equities : Book(h, e)
    BY <1>2 DEF EodJob, TypeOK
  <2> QED BY <1>0, <1>2, <2>1, LagBook DEF EodJob
<1>3. CASE EodJobRaises
  <2>1. \A h \in SUBSET held : h \in SUBSET Symbols
    BY DEF TypeOK
  <2> QED BY <1>3, <2>1, EodCutBook, LagBook DEF EodJobRaises
<1>4. CASE DailyResetJob
  BY <1>4 DEF DailyResetJob, SnapshotLag
<1>5. CASE Start
  <2>1. PICK s \in {snap, None}, l \in {lockMark, 0},
             h \in SUBSET Symbols, h2 \in SUBSET Symbols,
             e \in Equities, e2 \in Equities : RestoredFrom(s, l, h, e, h2, e2)
    BY <1>5 DEF Start
  <2>2. snap' # None => snap'.held = h2
    BY <2>1 DEF RestoredFrom, RestoredSnap, Snapshot
  <2>3. held' = h2 /\ missed' = 0
    BY <2>1 DEF RestoredFrom
  <2>4. Cardinality(Apart(h2, h2)) = 0
    BY <1>0, OneApartSize
  <2> QED BY <2>2, <2>3, <2>4 DEF SnapshotLag
<1>6. CASE Crash \/ Shutdown \/ ShutdownRaises
  BY <1>6 DEF Crash, Shutdown, ShutdownRaises, Gone, SnapshotLag
<1>7. CASE StartRaises
  BY <1>7 DEF StartRaises, SnapshotLag
<1>8. CASE \/ Oversleep \/ ClockAdvances \/ NewDay \/ OperatorTogglesKillFile
           \/ CacheToggles
  BY <1>8 DEF Oversleep, ClockAdvances, NewDay, OperatorTogglesKillFile,
              CacheToggles, envVars, SnapshotLag
<1>9. CASE UNCHANGED vars
  BY <1>9 DEF vars, SnapshotLag
<1> QED
  BY <1>1, <1>2, <1>3, <1>4, <1>5, <1>6, <1>7, <1>8, <1>9 DEF Next

\* Memory and cache stay together whatever a handler does with the counters,
\* and whichever of its writes is lost.
LEMMA BaselineRead ==
    ASSUME TypeOK, StampsInv, BaselineInv, up, day' = day,
           \/ RiskIdle \/ RiskReset \/ ResetRaises
           \/ \E e \in Equities : CaptureRaises(e)
           \/ \E e \in Equities, n \in Nat : RiskRead(e, n)
    PROVE  BaselineInv'
<1> USE DEF TypeOK, BaselineInv, BaselinesAgree, Baselines
<1>1. CASE \E e \in Equities, n \in Nat : RiskRead(e, n)
  <2>1. PICK e \in Equities, n \in Nat : RiskRead(e, n)
    BY <1>1
  <2>2. e # None
    BY ConfigAssumption
  <2>3. CASE BaseNow = None
    BY <2>1, <2>2, <2>3 DEF RiskRead, Base
  <2>4. CASE BaseNow # None
    BY <2>1, <2>4 DEF RiskRead, Base, BaseNow
  <2> QED BY <2>3, <2>4
<1>2. CASE RiskReset
  BY <1>2 DEF RiskReset, BaseNow, StampsInv
<1>3. CASE RiskIdle
  BY <1>3 DEF RiskIdle, riskVars
<1>4. CASE ResetRaises
  BY <1>4 DEF ResetRaises
<1>5. CASE \E e \in Equities : CaptureRaises(e)
  <2>1. PICK e \in Equities : CaptureRaises(e)
    BY <1>5
  <2>2. \A x \in Equities : x # None
    BY ConfigAssumption
  <2> QED BY <2>1, <2>2 DEF CaptureRaises, BaseNow
<1> QED BY <1>1, <1>2, <1>3, <1>4, <1>5

LEMMA BaselineStep ==
    ASSUME TypeOK, StampsInv, BaselineInv, [Next]_vars
    PROVE  BaselineInv'
<1> DEFINE Read == \/ RiskIdle \/ RiskReset \/ ResetRaises
                   \/ \E e \in Equities : CaptureRaises(e)
                   \/ \E e \in Equities, n \in Nat : RiskRead(e, n)
<1>0. ASSUME up, day' = day, Read
      PROVE  BaselineInv'
  BY <1>0, BaselineRead
<1>1. CASE TickSquareOff
  <2>1. Read
    BY <1>1 DEF TickSquareOff, PublishRead
  <2> QED BY <1>0, <1>1, <2>1 DEF TickSquareOff, TickRuns
<1>2. CASE TickKill
  <2>1. Read
    BY <1>2 DEF TickKill
  <2> QED BY <1>0, <1>2, <2>1 DEF TickKill, TickRuns
<1>3. CASE TickManage
  <2>1. Read
    BY <1>3 DEF TickManage
  <2> QED BY <1>0, <1>3, <2>1 DEF TickManage, TickRuns, envVars
<1>4. CASE TickLockIn
  <2>1. Read
    BY <1>4 DEF TickLockIn
  <2> QED BY <1>0, <1>4, <2>1 DEF TickLockIn, TickRuns, envVars
<1>5. CASE TickLocked
  <2>1. Read
    BY <1>5 DEF TickLocked
  <2> QED BY <1>0, <1>5, <2>1 DEF TickLocked, TickRuns, envVars
<1>6. CASE TickTrade
  <2>1. PICK new \in SUBSET Symbols, e \in Equities :
           RiskRead(e, Cardinality(new))
    BY <1>6 DEF TickTrade
  <2>2. Cardinality(new) \in Nat
    BY SubsetSizes
  <2> QED
    BY <1>0, <1>6, <2>1, <2>2 DEF TickTrade, TickRuns, envVars
<1>7. CASE EodJob
  <2>1. Read
    BY <1>7 DEF EodJob, PublishRead
  <2> QED BY <1>0, <1>7, <2>1 DEF EodJob
<1>8. CASE EodJobRaises \/ Oversleep \/ DailyResetJob
  <2>1. up /\ day' = day /\ RiskIdle
    BY <1>8 DEF EodJobRaises, Oversleep, DailyResetJob, CutShort, RiskIdle, envVars
  <2> QED BY <1>0, <2>1
<1>11. CASE Start
  BY <1>11
     DEF Start, RestoredFrom, RestoredSnap, EndOfDay, envVars, TypeOK,
         BaselineInv, BaselinesAgree, Baselines, RestoredBase
<1>12. CASE Crash \/ Shutdown \/ ShutdownRaises
  <2>1. ~up'
    BY <1>12 DEF Crash, Shutdown, ShutdownRaises, Gone
  <2> QED BY <2>1 DEF BaselineInv, BaselinesAgree
<1>15. CASE ClockAdvances \/ OperatorTogglesKillFile \/ CacheToggles
  <2>1. up' = up /\ day' = day /\ UNCHANGED riskVars
    BY <1>15 DEF ClockAdvances, OperatorTogglesKillFile, CacheToggles
  <2> QED BY <2>1 DEF riskVars, BaselineInv, BaselinesAgree
<1>16. CASE NewDay
  BY <1>16
     DEF NewDay, riskVars, TypeOK, BaselineInv, BaselinesAgree,
         Baselines, StampsInv
<1>19. CASE UNCHANGED vars
  BY <1>19 DEF vars, BaselineInv, BaselinesAgree
<1>20. CASE TickCut
  <2>1. Read
    BY <1>20, CutRisk, SubsetSizes DEF TypeOK
  <2> QED BY <1>0, <1>20, <2>1, CutFrame
<1>21. CASE StartRaises
  <2>1. ~up'
    BY <1>21 DEF StartRaises
  <2> QED BY <2>1 DEF BaselineInv, BaselinesAgree
<1> QED
  BY <1>1, <1>2, <1>3, <1>4, <1>5, <1>6, <1>7, <1>8, <1>11, <1>12, <1>15,
     <1>16, <1>19, <1>20, <1>21
     DEF Next, Tick

\* The tick's rollover keeps today's lock and drops an older one.
LEMMA RolloverLock ==
    ASSUME TypeOK, StampsInv, LockInv, Rollover,
           day' = day, phase' = phase, up' = up, hit' = hit,
           riskDay' \in {riskDay, day}
    PROVE  LockInv'
<1>1. profitLocked' <=> profitLocked /\ riskDay = day
  BY DEF Rollover, LockedNow
<1>2. riskDay = day => riskDay' = day
  OBVIOUS
<1> QED
  BY <1>1, <1>2 DEF LockInv, LockIsTodays, LockedNow

LEMMA LockStep ==
    ASSUME TypeOK, StampsInv, SquareOffInv, LockInv, [Next]_vars
    PROVE  LockInv'
<1>0. ASSUME \/ RiskIdle \/ RiskReset \/ ResetRaises
             \/ \E e \in Equities : CaptureRaises(e)
             \/ \E e \in Equities, n \in Nat : RiskRead(e, n)
      PROVE  riskDay' \in {riskDay, day}
  BY <1>0 DEF RiskIdle, RiskReset, ResetRaises, CaptureRaises, RiskRead, riskVars
<1>1. CASE TickSquareOff
  <2>1. riskDay' \in {riskDay, day}
    BY <1>0, <1>1 DEF TickSquareOff, PublishRead
  <2> QED
    BY <1>1, <2>1, RolloverLock DEF TickSquareOff
<1>2. CASE TickKill
  <2>1. riskDay' \in {riskDay, day}
    BY <1>0, <1>2 DEF TickKill
  <2> QED
    BY <1>2, <2>1, RolloverLock DEF TickKill
<1>3. CASE TickManage
  <2>1. riskDay' \in {riskDay, day}
    BY <1>0, <1>3 DEF TickManage
  <2> QED
    BY <1>3, <2>1, RolloverLock DEF TickManage, envVars
<1>4. CASE TickLockIn
  <2>1. riskDay' = day /\ profitLocked' /\ hit' = day /\ day' = day
    BY <1>4 DEF TickLockIn, RiskRead, envVars
  <2> QED BY <2>1 DEF LockInv, LockIsTodays, LockedNow
<1>5. CASE TickLocked
  <2>1. riskDay' \in {riskDay, day}
    BY <1>0, <1>5 DEF TickLocked
  <2> QED
    BY <1>5, <2>1, RolloverLock DEF TickLocked, envVars
<1>6. CASE TickTrade
  <2>1. riskDay' \in {riskDay, day}
    BY <1>6 DEF TickTrade, RiskRead
  <2> QED
    BY <1>6, <2>1, RolloverLock DEF TickTrade, envVars
<1>7. CASE EodJob
  <2>1. riskDay' \in {riskDay, day}
    BY <1>0, <1>7 DEF EodJob, PublishRead
  <2>2. phase' = "close"
    BY <1>7 DEF EodJob, SquareOffInv
  <2> QED
    BY <1>7, <2>1, <2>2 DEF EodJob, LockInv, LockIsTodays, LockedNow
<1>8. CASE \/ EodJobRaises \/ Oversleep \/ DailyResetJob
           \/ OperatorTogglesKillFile \/ CacheToggles
  <2>1. UNCHANGED <<day, phase, up, riskDay, profitLocked, hit>>
    BY <1>8 DEF EodJobRaises, Oversleep, DailyResetJob, CutShort, envVars,
                riskVars, OperatorTogglesKillFile, CacheToggles
  <2> QED BY <2>1 DEF LockInv, LockIsTodays, LockedNow
<1>11. CASE Start
  <2>1. PICK l \in {lockMark, 0} :
           /\ profitLocked' = RestoredLock(l)
           /\ lockMark' = IF RestoredLock(l) THEN l ELSE 0
           /\ hit' = lockMark'
    BY <1>11 DEF Start, RestoredFrom
  <2>2. day' = day /\ riskDay' = day /\ day # 0
    BY <1>11 DEF Start, envVars, TypeOK
  <2> QED
    BY <2>1, <2>2 DEF RestoredLock, LockInv, LockIsTodays, LockedNow
<1>12. CASE Crash \/ Shutdown \/ ShutdownRaises
  <2>1. ~up'
    BY <1>12 DEF Crash, Shutdown, ShutdownRaises, Gone
  <2> QED BY <2>1 DEF LockInv, LockIsTodays
<1>15. CASE ClockAdvances
  BY <1>15 DEF ClockAdvances, riskVars, TypeOK, LockInv, LockIsTodays, LockedNow
<1>16. CASE NewDay
  BY <1>16
     DEF NewDay, riskVars, TypeOK, LockInv, LockIsTodays, LockedNow,
         StampsInv
<1>19. CASE UNCHANGED vars
  BY <1>19 DEF vars, LockInv, LockIsTodays, LockedNow
<1>20. CASE TickCut
  <2>1. riskDay' \in {riskDay, day}
    BY <1>0, <1>20, CutRisk, SubsetSizes
  <2>2. CASE Rollover /\ hit' = hit
    BY <1>20, <2>1, <2>2, CutFrame, RolloverLock
  <2>3. CASE RolloverRaises /\ ~LockedNow /\ profitLocked' = FALSE /\ hit' = hit
    <3>1. ~up \/ hit # day
      BY <2>3 DEF LockInv
    <3>2. hit' # day' /\ ~profitLocked'
      BY <1>20, <2>3, <3>1, CutFrame
    <3> QED BY <3>2 DEF LockInv, LockIsTodays, LockedNow
  <2>4. CASE LockInRaises /\ profitLocked' = TRUE /\ hit' = day
    <3>1. riskDay' = day
      BY <2>4 DEF LockInRaises, RiskRead
    <3>2. day' = day
      BY <1>20, CutFrame
    <3> QED BY <2>4, <3>1, <3>2 DEF LockInv, LockIsTodays, LockedNow
  <2> QED BY <1>20, <2>2, <2>3, <2>4, CutLock
<1>21. CASE StartRaises
  <2>1. ~up'
    BY <1>21 DEF StartRaises
  <2> QED BY <2>1 DEF LockInv, LockIsTodays
<1> QED
  BY <1>1, <1>2, <1>3, <1>4, <1>5, <1>6, <1>7, <1>8, <1>11, <1>12, <1>15,
     <1>16, <1>19, <1>20, <1>21
     DEF Next, Tick

\* A step that opens nothing keeps the cap.
LEMMA CapKept ==
    ASSUME TypeOK, CapInv, held' \in SUBSET held,
           snap' \in {snap, None} \/ snap'.held \in SUBSET held
    PROVE  CapInv'
<1>1. held \in SUBSET Symbols
  BY DEF TypeOK
<1>2. \A g \in SUBSET held : Cardinality(g) <= MaxOpen
  <2> TAKE g \in SUBSET held
  <2>1. Cardinality(g) <= Cardinality(held) /\ Cardinality(held) <= MaxOpen
    BY <1>1, SmallerSubset DEF CapInv, OpenCap
  <2>2. Cardinality(g) \in Nat /\ Cardinality(held) \in Nat
    BY <1>1, SubsetSizes
  <2> QED BY <2>1, <2>2, ConfigAssumption
<1> QED
  BY <1>2 DEF CapInv, OpenCap

\* A square-off that is cut short leaves a part of the book.
LEMMA EodCutShrinks ==
    ASSUME TypeOK, EodCut \/ UNCHANGED <<held, snap>>
    PROVE  /\ held' \in SUBSET held
           /\ snap' = snap \/ snap'.held \in SUBSET held
<1>1. CASE EodCut
  <2>1. \E g \in SUBSET held, h \in SUBSET held, e \in Equities :
           Book(h, e) \/ ManagedBook(h, e) \/ LostSave(g, h, e)
    BY <1>1, CutExitsBook DEF EodCut
  <2> QED BY <2>1 DEF Book, ManagedBook, LostSave, Save, Snapshot
<1> QED BY <1>1

LEMMA CapStep ==
    ASSUME TypeOK, CapInv, [Next]_vars
    PROVE  CapInv'
<1>1. CASE TickSquareOff
  <2>1. /\ held' \in SUBSET held
        /\ snap' \in {snap, None} \/ snap'.held \in SUBSET held
    BY <1>1 DEF TickSquareOff, Book, Save, Snapshot
  <2> QED BY <2>1, CapKept
<1>2. CASE TickKill
  <2>1. /\ held' \in SUBSET held
        /\ snap' \in {snap, None} \/ snap'.held \in SUBSET held
    BY <1>2 DEF TickKill, ManagedBook, Save, Snapshot
  <2> QED BY <2>1, CapKept
<1>3. CASE TickManage
  <2>1. /\ held' \in SUBSET held
        /\ snap' \in {snap, None} \/ snap'.held \in SUBSET held
    BY <1>3 DEF TickManage, ManagedBook, ManagePass, Save, Snapshot
  <2> QED BY <2>1, CapKept
<1>4. CASE TickLockIn
  <2>1. /\ held' \in SUBSET held
        /\ snap' \in {snap, None} \/ snap'.held \in SUBSET held
    BY <1>4 DEF TickLockIn, ManagedBook, Save, Snapshot
  <2> QED BY <2>1, CapKept
<1>5. CASE TickLocked
  <2>1. /\ held' \in SUBSET held
        /\ snap' \in {snap, None} \/ snap'.held \in SUBSET held
    BY <1>5 DEF TickLocked, ManagedBook, ManagePass, Save, Snapshot
  <2> QED BY <2>1, CapKept
<1>6. CASE TickTrade
  <2>1. PICK h \in SUBSET held, new \in SUBSET Symbols,
             e \in Equities, e2 \in Equities, e3 \in Equities :
           /\ new \cap h = {}
           /\ IF new = {} THEN e3 = e2 ELSE Admitted(new, h, Base(e), e2, e3)
           /\ ManagedBook(h \cup new, e3)
    BY <1>6 DEF TickTrade
  <2>2. h \in SUBSET Symbols
    BY DEF TypeOK
  <2>3. CASE new = {}
    <3>1. /\ held' \in SUBSET held
          /\ snap' \in {snap, None} \/ snap'.held \in SUBSET held
      BY <2>1, <2>3 DEF ManagedBook, Save, Snapshot
    <3> QED BY <3>1, CapKept
  <2>4. CASE new # {}
    <3>1. Cardinality(h) + Cardinality(new) <= MaxOpen
      BY <2>1, <2>4 DEF Admitted
    <3>2. Cardinality(h \cup new) <= MaxOpen
      BY <2>1, <2>2, <3>1, UnionSize
    <3>3. held' = h \cup new /\ (snap' = snap \/ snap'.held = h \cup new)
      BY <2>1 DEF ManagedBook, Save, Snapshot
    <3> QED BY <3>2, <3>3 DEF CapInv, OpenCap
  <2> QED BY <2>3, <2>4
<1>7. CASE EodJob
  <2>1. /\ held' \in SUBSET held
        /\ snap' \in {snap, None} \/ snap'.held \in SUBSET held
    BY <1>7 DEF EodJob, Book, Save, Snapshot
  <2> QED BY <2>1, CapKept
<1>8. CASE EodJobRaises
  <2>1. /\ held' \in SUBSET held
        /\ snap' \in {snap, None} \/ snap'.held \in SUBSET held
    BY <1>8, EodCutShrinks DEF EodJobRaises
  <2> QED BY <2>1, CapKept
<1>9. CASE Oversleep
  BY <1>9 DEF Oversleep, riskVars, envVars, CapInv, OpenCap
<1>10. CASE DailyResetJob
  BY <1>10 DEF DailyResetJob, riskVars, envVars, CapInv, OpenCap
<1>11. CASE Start
  <2>1. PICK s \in {snap, None}, l \in {lockMark, 0},
             h \in SUBSET Symbols, h2 \in SUBSET Symbols,
             e \in Equities, e2 \in Equities : RestoredFrom(s, l, h, e, h2, e2)
    BY <1>11 DEF Start
  <2>2. h2 \in SUBSET h
    BY <2>1 DEF RestoredFrom, EndOfDay
  <2>3. CASE Todays(s)
    <3>1. s = snap /\ snap # None /\ h \in SUBSET snap.held
      BY <2>1, <2>3 DEF RestoredFrom, Todays
    <3>2. snap.held \in SUBSET Symbols
      BY <3>1 DEF TypeOK, Snapshots
    <3>3. Cardinality(h2) <= Cardinality(snap.held)
      BY <2>2, <3>1, <3>2, SmallerSubset
    <3>4. Cardinality(h2) \in Nat /\ Cardinality(snap.held) \in Nat
      BY <3>2, SubsetSizes
    <3>5. Cardinality(h2) <= MaxOpen
      BY <3>1, <3>3, <3>4, ConfigAssumption DEF CapInv
    <3>6. held' = h2 /\ (snap' = snap \/ snap'.held = h2)
      BY <2>1, <2>3, <3>1 DEF RestoredFrom, RestoredSnap, Snapshot
    <3> QED BY <3>5, <3>6 DEF CapInv, OpenCap
  <2>4. CASE ~Todays(s)
    <3>1. held' = {} /\ snap' = None
      BY <2>1, <2>2, <2>4 DEF RestoredFrom, RestoredSnap
    <3> QED BY <3>1, CapKept
  <2> QED BY <2>3, <2>4
<1>12. CASE Crash
  <2>1. /\ held' \in SUBSET held
        /\ snap' \in {snap, None} \/ snap'.held \in SUBSET held
    BY <1>12 DEF Crash, Gone
  <2> QED BY <2>1, CapKept
<1>13. CASE Shutdown
  <2>1. /\ held' \in SUBSET held
        /\ snap' \in {snap, None} \/ snap'.held \in SUBSET held
    BY <1>13 DEF Shutdown, Gone, Snapshot
  <2> QED BY <2>1, CapKept
<1>14. CASE ShutdownRaises
  <2>1. /\ held' \in SUBSET held
        /\ snap' \in {snap, None} \/ snap'.held \in SUBSET held
    BY <1>14 DEF ShutdownRaises, Gone, Snapshot
  <2> QED BY <2>1, CapKept
<1>15. CASE ClockAdvances
  BY <1>15 DEF ClockAdvances, riskVars, CapInv, OpenCap
<1>16. CASE NewDay
  BY <1>16 DEF NewDay, riskVars, CapInv, OpenCap
<1>17. CASE OperatorTogglesKillFile
  BY <1>17 DEF OperatorTogglesKillFile, riskVars, CapInv, OpenCap
<1>18. CASE CacheToggles
  BY <1>18 DEF CacheToggles, riskVars, CapInv, OpenCap
<1>19. CASE UNCHANGED vars
  BY <1>19 DEF vars, CapInv, OpenCap
<1>20. CASE TickCut
  <2>1. CASE EntryRaises
    <3>1. PICK h \in SUBSET held, new \in (SUBSET Symbols) \ {{}},
               e \in Equities, e2 \in Equities, e3 \in Equities :
             /\ new \cap h = {}
             /\ Admitted(new, h, Base(e), e2, e3)
             /\ \/ ManagedBook(h \cup new, e3)
                \/ \E s \in new : LostSave((h \cup new) \ {s}, h \cup new, e3)
      BY <2>1 DEF EntryRaises
    <3> DEFINE H == h \cup new
    <3>2. h \in SUBSET Symbols /\ H \in SUBSET Symbols
      BY DEF TypeOK
    <3>3. Cardinality(H) <= MaxOpen
      BY <3>1, <3>2, UnionSize DEF Admitted
    <3>4. held' = H /\ (snap' = snap \/ snap'.held \in SUBSET H)
      BY <3>1 DEF ManagedBook, LostSave, Save, Snapshot
    <3>5. \A g \in SUBSET H : Cardinality(g) <= MaxOpen
      <4> TAKE g \in SUBSET H
      <4>1. Cardinality(g) <= Cardinality(H)
        BY <3>2, SmallerSubset
      <4>2. Cardinality(g) \in Nat /\ Cardinality(H) \in Nat
        BY <3>2, SubsetSizes
      <4> QED BY <3>3, <4>1, <4>2, ConfigAssumption
    <3> HIDE DEF H
    <3> QED BY <3>3, <3>4, <3>5 DEF CapInv, OpenCap
  <2>2. CASE ~EntryRaises
    BY <1>20, <2>2, CutShrinks, CapKept
  <2> QED BY <2>1, <2>2
<1>21. CASE StartRaises
  <2>1. held' = held
    BY <1>21 DEF StartRaises
  <2>2. \/ snap' \in {snap, None}
        \/ snap # None /\ snap'.held \in SUBSET snap.held
    BY <1>21 DEF StartRaises, Todays, Snapshot
  <2>3. CASE snap' \in {snap, None}
    BY <2>1, <2>3, CapKept
  <2>4. CASE snap # None /\ snap'.held \in SUBSET snap.held
    <3>1. snap.held \in SUBSET Symbols /\ snap'.held \in SUBSET Symbols
      BY <2>4 DEF TypeOK, Snapshots
    <3>2. Cardinality(snap'.held) <= Cardinality(snap.held)
      BY <2>4, <3>1, SmallerSubset
    <3>3. Cardinality(snap'.held) \in Nat /\ Cardinality(snap.held) \in Nat
      BY <3>1, SubsetSizes
    <3> QED
      BY <2>1, <2>4, <3>2, <3>3, ConfigAssumption DEF CapInv, OpenCap
  <2> QED BY <2>2, <2>3, <2>4
<1> QED
  BY <1>1, <1>2, <1>3, <1>4, <1>5, <1>6, <1>7, <1>8, <1>9, <1>10, <1>11,
     <1>12, <1>13, <1>14, <1>15, <1>16, <1>17, <1>18, <1>19, <1>20,
     <1>21
     DEF Next, Tick

LEMMA IInvInit == Init => IInv
<1> SUFFICES ASSUME Init
             PROVE  IInv
  OBVIOUS
<1>1. TypeOK
  BY TypeInit
<1>2. StampsInv
  BY DEF Init, StampsInv
<1>3. SquareOffInv
  BY DEF Init, SquareOffInv, MarkerMeansFlat
<1>4. BaselineInv /\ SnapshotLag
  BY DEF Init, BaselineInv, BaselinesAgree, SnapshotLag
<1>5. LockInv
  BY DEF Init, LockInv, LockIsTodays
<1>6. CapInv
  <2>1. Cardinality({}) = 0
    BY FS_EmptySet
  <2> QED BY <2>1, ConfigAssumption DEF Init, CapInv, OpenCap
<1> QED
  BY <1>1, <1>2, <1>3, <1>4, <1>5, <1>6 DEF IInv

LEMMA IInvStep == IInv /\ [Next]_vars => IInv'
  BY TypeStep, StampsStep, SquareOffStep, LagStep, BaselineStep, LockStep,
     CapStep
     DEF IInv

THEOREM Invariance == Spec => []IInv
  BY IInvInit, IInvStep, PTL DEF Spec

-------------------------------------------------------------------------------
(* What follows from it.                                                   *)

\* The end-of-day marker tells the truth: with today's date on it the live
\* book is flat, but for the kill path's marker and rejected closes.
THEOREM MarkerTruth == Spec => []MarkerMeansFlat
<1>1. IInv => MarkerMeansFlat
  BY DEF IInv, SquareOffInv
<1> QED BY <1>1, Invariance, PTL

\* A lock that blocks entries was earned on the same day, also when Redis
\* goes away in the rollover that clears it or in the lock-in that sets it.
THEOREM LockFresh == Spec => []LockIsTodays
<1>1. IInv => LockIsTodays
  BY DEF IInv, LockInv
<1> QED BY <1>1, Invariance, PTL

\* Whichever delete or write of the baseline is lost, what the cache says of
\* the day the process counts for is what the process counts with.
THEOREM BaselinesOfADayAgree == Spec => []BaselinesAgree
<1>1. IInv => BaselinesAgree
  BY DEF IInv, BaselineInv
<1> QED BY <1>1, Invariance, PTL

\* However the writes fail, paper:state is no further from the live book
\* than one symbol for each write lost since the last that succeeded.
THEOREM SnapshotLagBounded == Spec => []SnapshotLag
<1>1. IInv => SnapshotLag
  BY DEF IInv
<1> QED BY <1>1, Invariance, PTL

\* The cap on concurrent positions holds through partial exits, re-entries
\* in the same tick and restores, for any cap and any number of symbols.
THEOREM CapHolds == Spec => []OpenCap
<1>1. IInv => OpenCap
  BY DEF IInv, CapInv
<1> QED BY <1>1, Invariance, PTL

\* A day changes only over a flat book, or for a recorded reason.
THEOREM IntradayMandate == Spec => FlatOvernight
<1> DEFINE Flat == day' # day => held = {} \/ excuses # {}
<1>1. IInv /\ [Next]_vars => [Flat]_vars
  <2> SUFFICES ASSUME IInv, [Next]_vars
               PROVE  [Flat]_vars
    OBVIOUS
  <2>1. CASE NewDay
    BY <2>1 DEF NewDay, IInv, SquareOffInv
  <2>2. CASE ~NewDay
    <3>1. day' = day
      BY <2>2, CutFrame
         DEF Next, Tick, TickSquareOff, TickKill, TickManage, TickLockIn,
             TickLocked, TickTrade, EodJob, EodJobRaises, CutShort, Oversleep,
             DailyResetJob, Start, StartRaises, Crash, Shutdown,
             ShutdownRaises, ClockAdvances, OperatorTogglesKillFile,
             CacheToggles, envVars, vars
    <3> QED BY <3>1
  <2> QED BY <2>1, <2>2
<1> QED
  BY <1>1, Invariance, PTL DEF Spec, FlatOvernight

\* After a lock-in no entry is filled on that day, by the process that
\* locked it or one that restored the lock.
THEOREM TargetEndsEntries == Spec => NoEntryAfterTarget
<1> DEFINE Ended == (hit = day /\ up /\ up') => held' \subseteq held
<1>1. IInv /\ [Next]_vars => [Ended]_vars
  <2> SUFFICES ASSUME IInv, [Next]_vars,
                      hit = day, up, up'
               PROVE  held' \subseteq held \/ UNCHANGED vars
    OBVIOUS
  <2>1. LockedNow
    BY DEF IInv, LockInv
  <2>2. /\ ~TickTrade /\ ~EntryRaises
        /\ ~Start /\ ~StartRaises /\ ~Crash /\ ~Shutdown /\ ~ShutdownRaises
    BY <2>1 DEF TickTrade, EntryRaises, Start, StartRaises, Crash, Shutdown,
                ShutdownRaises, Gone
  <2>3. CASE TickSquareOff \/ EodJob
    BY <2>3 DEF TickSquareOff, EodJob, Book
  <2>6. CASE TickCut \/ EodJobRaises
    BY <2>2, <2>6, CutShrinks, EodCutShrinks DEF IInv, EodJobRaises
  <2>4. CASE TickKill \/ TickManage \/ TickLockIn \/ TickLocked
    BY <2>4 DEF TickKill, TickManage, TickLockIn, TickLocked, ManagedBook
  <2>5. CASE \/ Oversleep \/ DailyResetJob \/ ClockAdvances
              \/ NewDay \/ OperatorTogglesKillFile \/ CacheToggles
    BY <2>5 DEF Oversleep, DailyResetJob, ClockAdvances, NewDay,
                OperatorTogglesKillFile, CacheToggles
  <2> QED
    BY <2>2, <2>3, <2>4, <2>5, <2>6 DEF Next, Tick
<1> QED
  BY <1>1, Invariance, PTL DEF Spec, NoEntryAfterTarget

\* Once captured, the day's baseline is never replaced on that day.
THEOREM BaselineOnce == Spec => BaselineFixedForDay
<1> DEFINE Fixed == (baseMark # None /\ day' = day) =>
                       (baseMark.day = day => baseMark' = baseMark)
<1>1. IInv /\ [Next]_vars => [Fixed]_vars
  <2> SUFFICES ASSUME IInv, [Next]_vars,
                      baseMark # None, day' = day, baseMark.day = day
               PROVE  baseMark' = baseMark
    BY DEF vars
  <2>1. baseMark.val # None /\ RestoredBase = baseMark.val
    BY ConfigAssumption DEF IInv, TypeOK, Baselines, RestoredBase
  <2>2. up => BaseNow # None /\ riskDay = day
    BY <2>1 DEF IInv, BaselineInv, BaselinesAgree, BaseNow
  <2> DEFINE Read == \/ RiskIdle \/ RiskReset \/ ResetRaises
                     \/ \E e \in Equities : CaptureRaises(e)
                     \/ \E e \in Equities, n \in Nat : RiskRead(e, n)
  <2>3. ASSUME up, Read
        PROVE  baseMark' = baseMark
    BY <2>2, <2>3
       DEF RiskIdle, RiskReset, ResetRaises, CaptureRaises, RiskRead, riskVars
  <2>4. CASE Tick
    <3>1. CASE TickCut
      BY <2>3, <3>1, CutFrame, CutRisk DEF IInv
    <3>2. CASE TickSquareOff \/ TickKill
      BY <2>3, <3>2 DEF TickSquareOff, TickKill, TickRuns, PublishRead
    <3>3. CASE TickManage \/ TickLockIn \/ TickLocked
      BY <2>3, <3>3 DEF TickManage, TickLockIn, TickLocked, TickRuns
    <3>4. CASE TickTrade
      BY <2>3, <3>4, SubsetSizes DEF TickTrade, TickRuns
    <3> QED BY <2>4, <3>1, <3>2, <3>3, <3>4 DEF Tick
  <2>5. CASE EodJob
    BY <2>3, <2>5 DEF EodJob, PublishRead
  <2>6. CASE Start
    BY <2>1, <2>6 DEF Start, RestoredFrom
  <2>7. CASE Shutdown
    BY <2>2, <2>7 DEF Shutdown
  <2>8. CASE UNCHANGED vars
    BY <2>8 DEF vars
  <2>9. CASE \/ EodJobRaises \/ Oversleep \/ DailyResetJob \/ StartRaises
              \/ Crash \/ ShutdownRaises \/ ClockAdvances \/ NewDay
              \/ OperatorTogglesKillFile \/ CacheToggles
    BY <2>9 DEF EodJobRaises, Oversleep, DailyResetJob, StartRaises, Crash,
                ShutdownRaises, ClockAdvances, NewDay, OperatorTogglesKillFile, CacheToggles,
                riskVars
  <2> QED
    BY <2>4, <2>5, <2>6, <2>7, <2>8, <2>9 DEF Next
<1> QED
  BY <1>1, Invariance, PTL DEF Spec, BaselineFixedForDay
===============================================================================
