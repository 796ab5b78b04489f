--------------------------- MODULE Operations_proofs ---------------------------
(***************************************************************************)
(* What lets a bot start and what watches it.                              *)
(*                                                                         *)
(* The lock, for any number of starts and files: two bots of a segment     *)
(* need a theft of the lock file, the file names its holder, and the       *)
(* operator who acts on the preflight's advice steals from no running bot. *)
(* The strengthening: a kernel lock excludes others from its FILE, and a   *)
(* process whose open file is not the one the name leads to was robbed.    *)
(*                                                                         *)
(* The pre-flight and the health check, for any limit of the ages and any  *)
(* segments that may be running: a start is earned, books are sane, and a  *)
(* position nobody manages is reported.  The strengthening: a skipped      *)
(* critical step has a failure on record or is the books check without a   *)
(* cache, the books read by the ninth step stay as sane as it found them,  *)
(* and what leaves a position alone ages.                                  *)
(***************************************************************************)
EXTENDS BotLock, Upkeep, TLAPS


\* Past WritePid and before the unlock.
Settled(p) == pc[p] \in {"running", "exiting", "hangup"}

OnePerFile == \A p, q \in Procs : Holds(p) /\ Holds(q) /\ fd[p] = fd[q] => p = q
NamelessWasStolen == \A p \in Procs : fd[p] # None /\ fd[p] # path => stolen[p]
PidWritten == \A p \in Procs : Settled(p) => pid[fd[p]] = p

IInv == TypeOK /\ OnePerFile /\ NamelessWasStolen /\ PidWritten

-------------------------------------------------------------------------------
\* Every state the lock file's users reach is well typed, and a process has
\* the file open exactly from open to close.
LEMMA TypeInit == Init => TypeOK
BY LockAssumption DEF Init, TypeOK, Places, HasOpen

LEMMA TypeStep == TypeOK /\ [Next]_vars => TypeOK'
<1> SUFFICES ASSUME TypeOK, [Next]_vars PROVE TypeOK'
  OBVIOUS
<1> USE LockAssumption DEF LockAssumption, TypeOK, Places, HasOpen
<1>1. ASSUME NEW p \in Procs, Launch(p) PROVE TypeOK'
  <2>1. PICK f \in BOOLEAN : force' = [force EXCEPT ![p] = f]
    BY <1>1, Zenon DEF Launch
  <2>2. force' \in [Procs -> BOOLEAN]
    BY <2>1, Zenon
  <2>3. QED
    BY <1>1, <2>2 DEF Launch, Goto
<1>2. ASSUME NEW p \in Procs, Acquire(p) PROVE TypeOK'
  <2>1. CASE Open(p)
    <3>1. PICK f \in Files : fd' = [fd EXCEPT ![p] = f] /\ path' \in Files
                             /\ pid' \in [Files -> Procs \cup {None}]
      BY <2>1 DEF Open, Fresh
    <3>2. QED
      BY <2>1, <3>1 DEF Open, Goto
  <2>2. CASE Flock(p)
    BY <2>2 DEF Flock, Goto
  <2>3. CASE Refuse(p)
    BY <2>3 DEF Refuse, Goto
  <2>4. CASE ForceOpen(p)
    BY <2>4 DEF ForceOpen, Goto
  <2>5. CASE Break(p)
    BY <2>5 DEF Break, Remove, Goto
  <2>6. CASE WritePid(p)
    BY <2>6 DEF WritePid, Goto
  <2>7. QED
    BY <1>2, <2>1, <2>2, <2>3, <2>4, <2>5, <2>6 DEF Acquire
<1>3. ASSUME NEW p \in Procs, Exit(p) \/ Hangup(p) PROVE TypeOK'
  BY <1>3 DEF Exit, Hangup, Goto
<1>4. ASSUME NEW p \in Procs, Release(p) PROVE TypeOK'
  <2>1. CASE Unlock(p)
    BY <2>1 DEF Unlock, Goto
  <2>2. CASE Unlink(p)
    BY <2>2 DEF Unlink, Remove, Goto
  <2>3. CASE Die(p)
    BY <2>3 DEF Die, Goto
  <2>4. QED
    BY <1>4, <2>1, <2>2, <2>3 DEF Release
<1>5. ASSUME NEW p \in Procs, Crash(p) PROVE TypeOK'
  BY <1>5 DEF Crash, Goto
<1>6. CASE DeleteOrphan
  BY <1>6 DEF DeleteOrphan, Remove
<1>7. CASE UNCHANGED vars
  BY <1>7 DEF vars
<1>8. QED
  BY <1>1, <1>2, <1>3, <1>4, <1>5, <1>6, <1>7 DEF Next

THEOREM TypeCorrect == Spec => []TypeOK
<1>1. QED
  BY TypeInit, TypeStep, PTL DEF Spec

-------------------------------------------------------------------------------
\* A removal robs whoever has the removed file open, except its author.
LEMMA RemoveRobs ==
  ASSUME TypeOK, NamelessWasStolen, NEW by, Remove(by), UNCHANGED fd,
         by \in Procs => fd[by] = None
  PROVE  NamelessWasStolen'
BY DEF Remove, NamelessWasStolen, TypeOK

LEMMA InvStep == IInv /\ [Next]_vars => IInv'
<1> SUFFICES ASSUME IInv, [Next]_vars PROVE IInv'
  OBVIOUS
<1>0. TypeOK'
  BY TypeStep DEF IInv
<1> USE LockAssumption DEF IInv, TypeOK, HasOpen, Holds, Settled
<1>1. ASSUME NEW p \in Procs, Launch(p) PROVE IInv'
  BY <1>0, <1>1 DEF Launch, Goto, OnePerFile, NamelessWasStolen, PidWritten
<1>2. ASSUME NEW p \in Procs, Acquire(p) PROVE IInv'
  <2>1. CASE Open(p)
    <3>1. CASE path # None /\ fd' = [fd EXCEPT ![p] = path] /\ UNCHANGED <<path, pid>>
      BY <1>0, <2>1, <3>1 DEF Open, Goto, OnePerFile, NamelessWasStolen, PidWritten
    <3>2. ASSUME NEW f \in Fresh, path = None, path' = f,
                 pid' = [pid EXCEPT ![f] = None], fd' = [fd EXCEPT ![p] = f]
          PROVE  IInv'
      <4>1. f \in Files /\ \A q \in Procs : fd[q] # f
        BY <3>2 DEF Fresh
      <4>2. OnePerFile'
        BY <2>1, <3>2, <4>1 DEF Open, Goto, OnePerFile
      <4>3. NamelessWasStolen'
        BY <2>1, <3>2, <4>1 DEF Open, Goto, NamelessWasStolen
      <4>4. PidWritten'
        BY <2>1, <3>2, <4>1 DEF Open, Goto, PidWritten
      <4>5. QED
        BY <1>0, <4>2, <4>3, <4>4
    <3>3. QED
      BY <2>1, <3>1, <3>2 DEF Open
  <2>2. CASE Flock(p)
    BY <1>0, <2>2 DEF Flock, Blocked, Goto, OnePerFile, NamelessWasStolen, PidWritten
  <2>3. CASE Refuse(p) \/ ForceOpen(p)
    BY <1>0, <2>3 DEF Refuse, ForceOpen, Goto, OnePerFile, NamelessWasStolen, PidWritten
  <2>4. CASE Break(p)
    <3>1. NamelessWasStolen'
      BY <2>4, RemoveRobs DEF Break
    <3>2. QED
      BY <1>0, <2>4, <3>1 DEF Break, Remove, Goto, OnePerFile, PidWritten
  <2>5. CASE WritePid(p)
    <3>1. fd[p] \in Files /\ \A q \in Procs : Holds(q) /\ q # p => fd[q] # fd[p]
      BY <2>5 DEF WritePid, OnePerFile
    <3>2. PidWritten'
      BY <2>5, <3>1 DEF WritePid, Goto, PidWritten
    <3>3. QED
      BY <1>0, <2>5, <3>2 DEF WritePid, Goto, OnePerFile, NamelessWasStolen
  <2>6. QED
    BY <1>2, <2>1, <2>2, <2>3, <2>4, <2>5 DEF Acquire
<1>3. ASSUME NEW p \in Procs, Exit(p) \/ Hangup(p) PROVE IInv'
  BY <1>0, <1>3 DEF Exit, Hangup, Goto, OnePerFile, NamelessWasStolen, PidWritten
<1>4. ASSUME NEW p \in Procs, Release(p) PROVE IInv'
  <2>1. CASE Unlock(p) \/ Die(p)
    BY <1>0, <2>1 DEF Unlock, Die, Goto, OnePerFile, NamelessWasStolen, PidWritten
  <2>2. CASE Unlink(p)
    <3>1. NamelessWasStolen'
      BY <2>2, RemoveRobs DEF Unlink
    <3>2. QED
      BY <1>0, <2>2, <3>1 DEF Unlink, Remove, Goto, OnePerFile, PidWritten
  <2>3. QED
    BY <1>4, <2>1, <2>2 DEF Release
<1>5. ASSUME NEW p \in Procs, Crash(p) PROVE IInv'
  BY <1>0, <1>5 DEF Crash, Goto, OnePerFile, NamelessWasStolen, PidWritten
<1>6. CASE DeleteOrphan
  <2>1. NamelessWasStolen'
    BY <1>6, RemoveRobs DEF DeleteOrphan
  <2>2. QED
    BY <1>0, <1>6, <2>1 DEF DeleteOrphan, Remove, OnePerFile, PidWritten
<1>7. CASE UNCHANGED vars
  BY <1>0, <1>7 DEF vars, OnePerFile, NamelessWasStolen, PidWritten
<1>8. QED
  BY <1>1, <1>2, <1>3, <1>4, <1>5, <1>6, <1>7 DEF Next

\* The strengthened invariant of the lock: flock excludes per file, a file
\* without a name was stolen, a settled holder's process id is in its file.
THEOREM Invariance == Spec => []IInv
<1>1. Init => IInv
  BY TypeInit, LockAssumption
     DEF Init, IInv, OnePerFile, NamelessWasStolen, PidWritten, Holds, Settled
<1>2. QED
  BY <1>1, InvStep, PTL DEF Spec

\* Two bots of a segment run at once only after a theft of a lock file, or
\* past the early unlock of lock.py's signal handler.
THEOREM TheftNeeded == Spec => []TwoNeedTheft
<1>1. IInv => TwoNeedTheft
  <2> SUFFICES ASSUME IInv, NEW p \in Procs, NEW q \in Procs, Active(p), Active(q), p # q,
                      {pc[p], pc[q]} \cap {"cutting", "dying"} = {}
               PROVE  stolen[p] \/ stolen[q]
    BY DEF TwoNeedTheft
  <2>1. Holds(p) /\ Holds(q)
    BY DEF Active, Holds
  <2>2. fd[p] # None /\ fd[q] # None /\ fd[p] # fd[q]
    BY <2>1 DEF IInv, TypeOK, HasOpen, OnePerFile, Holds
  <2>3. QED
    BY <2>2 DEF IInv, NamelessWasStolen
<1>2. QED
  BY <1>1, Invariance, PTL

\* The process id in the lock file is that of the bot that holds it.
THEOREM FileNamesHolder == Spec => []PidNamesHolder
<1>1. IInv => PidNamesHolder
  BY DEF IInv, PidWritten, PidNamesHolder, Active, Holds, Settled
<1>2. QED
  BY <1>1, Invariance, PTL

\* Whoever deletes a supposed orphan takes the file from no running bot.
THEOREM OrphanSafe == Spec => OrphanHasNoBot
<1>1. ASSUME IInv, NEW p \in Procs, DeleteOrphan, Active(p)
      PROVE  stolen'[p] = stolen[p]
  <2>1. fd[p] = path => FALSE
    <3> SUFFICES ASSUME fd[p] = path PROVE FALSE
      OBVIOUS
    <3>1. Settled(p)
      BY <1>1 DEF DeleteOrphan, IInv, TypeOK, HasOpen, Active, Settled
    <3>2. QED
      BY <1>1, <3>1 DEF DeleteOrphan, IInv, PidWritten, Alive, Active
  <2>2. QED
    BY <1>1, <2>1 DEF DeleteOrphan, Remove, IInv, TypeOK
<1>2. IInv => (\A p \in Procs : DeleteOrphan /\ Active(p) => stolen'[p] = stolen[p])
  BY <1>1
<1>3. IInv => [\A p \in Procs : DeleteOrphan /\ Active(p) => stolen'[p] = stolen[p]]_vars
  BY <1>2
<1>4. QED
  BY <1>3, Invariance, PTL DEF OrphanHasNoBot

-------------------------------------------------------------------------------
(* The pre-flight and the health check.                                   *)

\* The critical steps by number, and the steps that skip themselves.
CriticalSteps == {3, 4, 6, 7, 8, 9, 11, 12}
MaySkip == {"power_source", "today_is_trading_day", "tomorrow_advisory"}

StepKinds == {"books", "critical", "other"}
Signs == {"none", "apr30", "may04", "may05"}
FailSeen == \E kind \in StepKinds : <<kind, "FAIL">> \in seen

\* A critical step is skipped only after a failure, which stays on record; the
\* check of the books also by itself.
SkipsFollowFailures ==
    /\ failed # {} => FailSeen
    /\ <<"critical", "SKIP">> \in seen => failed # {}
    /\ <<"books", "SKIP">> \in seen => failed # {} \/ unread
    /\ stage = "preflight" /\ i <= 14 /\ last = "SKIP" /\ i \in CriticalSteps
          => failed # {} \/ (i = 9 /\ unread)

\* From the end of paper_state_clean, the ninth step, on.
Unchecked == i < 9 \/ (i = 9 /\ last \in {"none", "FAIL", "SKIP"})
Corrupt(s) == books[s] \in {"gap", "blown"}
SoundBooks ==
    stage = "preflight" => Unchecked \/ FailSeen \/ unread \/ \A s \in Segments \ live : ~Corrupt(s)

\* The stall or the exception that leaves a position alone shows in an age.
AgesShow ==
    /\ cause = "none" => since = 0
    /\ cause = "stall" => heartbeat >= since /\ signals >= since
    /\ cause = "raise" => signals >= since

UpkeepInv == UpkeepTypeOK /\ SkipsFollowFailures /\ SoundBooks /\ AgesShow

-------------------------------------------------------------------------------
(* The steps of the pre-flight.                                            *)

LEMMA FourteenSteps ==
    /\ Len(Steps) = 14
    /\ \A j \in 1..14 : /\ Steps[j].critical \in BOOLEAN
                        /\ Steps[j].critical <=> j \in CriticalSteps
                        /\ Steps[j].name = "paper_state_clean" <=> j = 9
                        /\ Steps[j].name = "redis_session_freshness" <=> j = 10
                        /\ Steps[j].name \in MaySkip => j \in {2, 13, 14}
                        /\ Kind(Steps[j]) \in StepKinds
                        /\ Kind(Steps[j]) = "books" <=> j = 9
                        /\ Kind(Steps[j]) = "critical" <=> j \in CriticalSteps \ {9}
<1>1. Len(Steps) = 14
  BY DEF Steps
<1>2. ASSUME NEW j \in 1..14
      PROVE  Steps[j].critical \in BOOLEAN /\ (Steps[j].critical <=> j \in CriticalSteps)
  <2>1. /\ \A k \in CriticalSteps : Steps[k].critical = TRUE
        /\ \A k \in {1, 2, 5, 10, 13, 14} : Steps[k].critical = FALSE
    BY DEF Steps, Step, CriticalSteps
  <2>2. j \in CriticalSteps \/ (j \in {1, 2, 5, 10, 13, 14} /\ j \notin CriticalSteps)
    BY DEF CriticalSteps
  <2>3. QED
    BY <2>1, <2>2
<1>3. ASSUME NEW j \in 1..14
      PROVE  /\ Steps[j].name = "paper_state_clean" <=> j = 9
             /\ Steps[j].name = "redis_session_freshness" <=> j = 10
  BY DEF Steps, Step
<1>4. ASSUME NEW j \in 1..14, Steps[j].name \in MaySkip PROVE j \in {2, 13, 14}
  BY <1>4 DEF Steps, Step, MaySkip
<1>5. ASSUME NEW j \in 1..14
      PROVE  /\ Kind(Steps[j]) \in StepKinds
             /\ Kind(Steps[j]) = "books" <=> j = 9
             /\ Kind(Steps[j]) = "critical" <=> j \in CriticalSteps \ {9}
  <2>1. Kind(Steps[j]) = IF j = 9 THEN "books"
                         ELSE IF Steps[j].critical THEN "critical" ELSE "other"
    BY <1>3 DEF Kind
  <2>2. Steps[j].critical <=> j \in CriticalSteps
    BY <1>2
  <2>3. QED
    BY <2>1, <2>2 DEF StepKinds
<1>6. QED
  BY <1>1, <1>2, <1>3, <1>4, <1>5

\* What the check of the books gives.
LEMMA CleanIs ==
    ASSUME NEW b \in [Segments -> Kinds]
    PROVE  /\ StateClean(b) \in {"PASS", "WARN", "FAIL"}
           /\ StateClean(b) # "FAIL" => \A s \in Segments : b[s] \notin {"gap", "blown"}
           /\ Signature(b) \in Signs
<1>1. StateClean(b) \in {"PASS", "WARN", "FAIL"} /\ Signature(b) \in Signs
  BY DEF StateClean, Signature, Signs
<1>2. ASSUME NEW s \in Segments, b[s] \in {"gap", "blown"} PROVE StateClean(b) = "FAIL"
  <2>1. Held("blown", b) \/ (Held("gap", b) /\ ~Held("blown", b))
    BY <1>2, Zenon DEF Held
  <2>2. Signature(b) \in {"apr30", "may04"}
    BY <2>1 DEF Signature
  <2>3. QED
    BY <2>2 DEF StateClean
<1>3. QED
  BY <1>1, <1>2

\* A step gives a status; one that may be skipped is not critical, or follows
\* a failure.
LEMMA OutcomesAre ==
    ASSUME NEW j \in 1..14
    PROVE  /\ Outcomes(Steps[j]) \subseteq Status
           /\ j \in CriticalSteps /\ "SKIP" \in Outcomes(Steps[j]) => failed # {}
<1> DEFINE name == Steps[j].name
<1>1. Returned(name) \subseteq Status
  BY DEF Returned, PowerSource, PythonVenv, NoStaleProcesses, DiskSpace, SystemStep,
     SessionFreshness, RefreshHolidays, RegressionSuite, DayAdvice, Status
<1>2. name \notin MaySkip => "SKIP" \notin Returned(name)
  BY DEF Returned, PowerSource, PythonVenv, NoStaleProcesses, DiskSpace, SystemStep,
     SessionFreshness, RefreshHolidays, RegressionSuite, DayAdvice, MaySkip
<1>3. j \in CriticalSteps => name \notin MaySkip
  BY FourteenSteps DEF CriticalSteps
<1> HIDE DEF name
<1>4. \/ Outcomes(Steps[j]) = {"SKIP"} /\ failed # {}
      \/ Outcomes(Steps[j]) = Returned(name) \cup {"FAIL"}
  BY DEF Outcomes, name
<1>5. QED
  BY <1>1, <1>2, <1>3, <1>4 DEF Status

\* What the books check gives: what it read, a failure, or the word of a
\* process without a cache.
LEMMA BooksCheckGives ==
    ASSUME NEW b \in [Segments -> Kinds], BooksRead(b) \/ NothingRead, unread \in BOOLEAN
    PROVE  /\ last' \in Status /\ sign' \in Signs /\ unread' \in BOOLEAN
           /\ unread => unread'
           /\ ~unread' => /\ last' # "SKIP"
                          /\ last' # "FAIL" => \A s \in Segments : b[s] \notin {"gap", "blown"}
<1>1. CASE BooksRead(b)
  <2>1. \/ last' = StateClean(b) /\ sign' = Signature(b)
        \/ last' = "FAIL" /\ sign' = "none"
    BY <1>1 DEF BooksRead
  <2>2. unread' = unread
    BY <1>1 DEF BooksRead
  <2>3. last' \in Status /\ sign' \in Signs /\ last' # "SKIP"
    BY <2>1, CleanIs DEF Status, Signs
  <2>4. last' # "FAIL" => \A s \in Segments : b[s] \notin {"gap", "blown"}
    BY <2>1, CleanIs
  <2>5. unread' \in BOOLEAN /\ (unread => unread')
    BY <2>2, Zenon
  <2>6. QED
    BY <2>3, <2>4, <2>5
<1>2. CASE NothingRead
  BY <1>2 DEF NothingRead, Status, Signs
<1>3. QED
  BY <1>1, <1>2

\* A repair leaves books, and a wiped session no corrupt ones.
LEMMA RepairGives ==
    ASSUME books \in [Segments -> Kinds], stale \in BOOLEAN, Repair
    PROVE  /\ books' \in [Segments -> Kinds] /\ stale' \in BOOLEAN
           /\ last = "WARN" => \A s \in Segments : books'[s] = "absent"
<1>1. CASE last = "WARN"
  <2>1. WipeSession
    BY <1>1 DEF Repair
  <2>2. QED
    BY <2>1 DEF WipeSession, NoBooks, Kinds
<1>2. CASE last # "WARN"
  <2>1. CleanEquity \/ CleanFno
    BY <1>2 DEF Repair
  <2>2. QED
    BY <1>2, <2>1 DEF CleanEquity, CleanFno, Purge, Kinds, Segments
<1>3. QED
  BY <1>1, <1>2

-------------------------------------------------------------------------------
(* The type invariant in parts.                                            *)

Flags == [auto : BOOLEAN, clean : BOOLEAN]
PreflightTyped ==
    /\ i \in 1..15 /\ last \in Status \cup {"none"} /\ sign \in Signs
    /\ cleaned \in BOOLEAN /\ unread \in BOOLEAN
    /\ seen \subseteq StepKinds \X Status /\ failed \subseteq Needed
    /\ flags \in Flags /\ live \subseteq MayRun
    /\ books \in [Segments -> Kinds] /\ stale \in BOOLEAN

Holdings == {"none", "bars", "5m only", "blind"}
Causes == {"none", "stall", "raise", "blind"}
DayTyped ==
    /\ phase \in {"pre", "entry", "hold", "late"} /\ elapsed \in 0..Quiet
    /\ mode \in {"ticking", "stalled"} /\ locked \in BOOLEAN /\ position \in Holdings
    /\ cause \in Causes /\ heartbeat \in 0..Gone /\ signals \in 0..Quiet /\ since \in 0..Quiet

Reports == [overall : {"none", "OK", "DEGRADED", "FAILED"}, raised : SUBSET Watched]

LEMMA Parts ==
    UpkeepTypeOK <=> /\ stage \in {"preflight", "day", "over"}
                     /\ PreflightTyped /\ DayTyped /\ report \in Reports
<1>1. 1..Len(Steps) + 1 = 1..15
  BY FourteenSteps
<1>2. {signals, since} \subseteq 0..Quiet <=> signals \in 0..Quiet /\ since \in 0..Quiet
  OBVIOUS
<1>3. QED
  BY <1>1, <1>2, Zenon DEF UpkeepTypeOK, PreflightTyped, DayTyped, Flags, Holdings, Causes, Reports,
     StepKinds, Signs

LEMMA Gather ==
    /\ stage' \in {"preflight", "day", "over"}
    /\ PreflightTyped' /\ DayTyped' /\ report' \in Reports
    => UpkeepTypeOK'
<1>1. 1..Len(Steps) + 1 = 1..15
  BY FourteenSteps
<1>2. signals' \in 0..Quiet /\ since' \in 0..Quiet => {signals', since'} \subseteq 0..Quiet
  OBVIOUS
<1>3. QED
  BY <1>1, <1>2, Zenon DEF UpkeepTypeOK, PreflightTyped, DayTyped, Flags, Holdings, Causes, Reports,
     StepKinds, Signs

LEMMA PreflightKept == PreflightTyped /\ UNCHANGED preflight => PreflightTyped'
BY Zenon DEF PreflightTyped, preflight

LEMMA DayKept == DayTyped /\ UNCHANGED <<clock, executor>> => DayTyped'
<1> SUFFICES ASSUME DayTyped, UNCHANGED <<clock, executor>> PROVE DayTyped'
  OBVIOUS
<1>1. UNCHANGED <<phase, elapsed, mode, position, locked, heartbeat, signals, cause, since>>
  BY DEF clock, executor
<1>2. QED
  BY <1>1, Zenon DEF DayTyped

-------------------------------------------------------------------------------
(* The invariant.                                                          *)

LEMMA UpkeepInvInit == UpkeepInit => UpkeepInv
<1> SUFFICES ASSUME UpkeepInit PROVE UpkeepInv
  OBVIOUS
<1> USE UpkeepAssumption DEF UpkeepAssumption, UpkeepInit
<1>1. UpkeepTypeOK
  <2>1. Quiet \in 0..Quiet /\ 0 \in 0..Quiet /\ 1 \in 1..15 /\ Gone \in 0..Gone
    BY DEF Gone
  <2>2. PreflightTyped
    <3>1. /\ last \in Status \cup {"none"} /\ seen \subseteq StepKinds \X Status
          /\ sign \in Signs /\ failed \subseteq Needed /\ i \in 1..15
      BY <2>1 DEF Signs
    <3>2. cleaned \in BOOLEAN /\ unread \in BOOLEAN /\ stale \in BOOLEAN /\ flags \in Flags
          /\ books \in [Segments -> Kinds] /\ live \subseteq MayRun
      BY Zenon DEF Flags
    <3>3. QED
      BY <3>1, <3>2, Zenon DEF PreflightTyped
  <2>3. DayTyped
    <3>1. locked \in BOOLEAN
      BY Zenon
    <3>2. QED
      BY <2>1, <3>1 DEF DayTyped, Holdings, Causes
  <2>4. report \in Reports
    BY DEF Reports, NoReport
  <2>5. QED
    BY <2>2, <2>3, <2>4, Parts
<1>2. SkipsFollowFailures /\ SoundBooks /\ AgesShow
  BY DEF SkipsFollowFailures, SoundBooks, Unchecked, AgesShow
<1>3. QED
  BY <1>1, <1>2 DEF UpkeepInv

\* The steps of the pre-flight touch nothing of the day, and back.
LEMMA RunStepKeeps == UpkeepInv /\ RunStep => UpkeepInv'
<1> SUFFICES ASSUME UpkeepInv, RunStep PROVE UpkeepInv'
  OBVIOUS
<1>1. /\ i \in 1..14 /\ last = "none" /\ stage = "preflight"
      /\ UNCHANGED <<stage, i, cleaned, seen, failed, flags, live, books, stale,
                     clock, executor, report>>
  <2>1. i \in 1..15 /\ Len(Steps) = 14
    BY Parts, FourteenSteps DEF UpkeepInv, PreflightTyped
  <2>2. QED
    BY <2>1 DEF RunStep
<1>2. books \in [Segments -> Kinds] /\ unread \in BOOLEAN /\ sign \in Signs
  BY Parts, Zenon DEF UpkeepInv, PreflightTyped
<1>3. \/ /\ i # 9 \/ failed # {}
         /\ last' \in Outcomes(Steps[i]) /\ sign' = sign /\ unread' = unread
      \/ i = 9 /\ (BooksRead(books) \/ NothingRead)
  <2>1. Steps[i].name = "paper_state_clean" <=> i = 9
    BY <1>1, FourteenSteps
  <2>2. \/ /\ Steps[i].name # "paper_state_clean" \/ "redis_running" \in failed
           /\ last' \in Outcomes(Steps[i]) /\ UNCHANGED <<sign, unread>>
        \/ Steps[i].name = "paper_state_clean" /\ (BooksRead(books) \/ NothingRead)
    BY Zenon DEF RunStep
  <2>3. QED
    BY <2>1, <2>2
<1>4. CASE /\ i # 9 \/ failed # {}
           /\ last' \in Outcomes(Steps[i]) /\ sign' = sign /\ unread' = unread
  <2>1. last' \in Status /\ (i \in CriticalSteps /\ last' = "SKIP" => failed # {})
    BY <1>1, <1>4, OutcomesAre
  <2>2. UpkeepTypeOK'
    <3>1. last' \in Status \cup {"none"} /\ sign' \in Signs /\ unread' \in BOOLEAN
      BY <1>2, <1>4, <2>1, Zenon
    <3>2. PreflightTyped' /\ DayTyped'
      BY <1>1, <3>1, Parts, DayKept, Zenon DEF UpkeepInv, PreflightTyped
    <3>3. QED
      BY <1>1, <3>2, Parts, Gather DEF UpkeepInv
  <2>3. SkipsFollowFailures' /\ AgesShow'
    BY <1>1, <1>4, <2>1 DEF UpkeepInv, SkipsFollowFailures, FailSeen, AgesShow, executor
  <2>4. SoundBooks'
    <3>1. i = 9 => FailSeen
      BY <1>4 DEF UpkeepInv, SkipsFollowFailures
    <3>2. QED
      BY <1>1, <1>4, <3>1 DEF UpkeepInv, SoundBooks, Unchecked, Corrupt, FailSeen
  <2>5. QED
    BY <2>2, <2>3, <2>4 DEF UpkeepInv
<1>5. CASE i = 9 /\ (BooksRead(books) \/ NothingRead)
  <2>1. /\ last' \in Status /\ sign' \in Signs /\ unread' \in BOOLEAN /\ (unread => unread')
        /\ ~unread' => /\ last' # "SKIP"
                       /\ last' # "FAIL" => \A s \in Segments : ~Corrupt(s)
    BY <1>2, <1>5, BooksCheckGives DEF Corrupt
  <2>2. UpkeepTypeOK'
    <3>1. PreflightTyped' /\ DayTyped'
      <4>1. last' \in Status \cup {"none"}
        BY <2>1
      <4>2. QED
        BY <1>1, <2>1, <4>1, Parts, DayKept, Zenon DEF UpkeepInv, PreflightTyped
    <3>2. QED
      BY <1>1, <3>1, Parts, Gather DEF UpkeepInv
  <2>3. SkipsFollowFailures' /\ AgesShow'
    BY <1>1, <1>5, <2>1 DEF UpkeepInv, SkipsFollowFailures, FailSeen, AgesShow, executor
  <2>4. SoundBooks'
    BY <1>1, <1>5, <2>1 DEF SoundBooks, Unchecked, Corrupt, FailSeen
  <2>5. QED
    BY <2>2, <2>3, <2>4 DEF UpkeepInv
<1>6. QED
  BY <1>3, <1>4, <1>5

LEMMA CleanUpKeeps == UpkeepInv /\ CleanUp => UpkeepInv'
<1> SUFFICES ASSUME UpkeepInv, CleanUp PROVE UpkeepInv'
  OBVIOUS
<1>1. /\ i \in 1..14 /\ stage = "preflight" /\ Due
      /\ cleaned' = TRUE
      /\ \/ Repair /\ (Again(books') \/ UNCHANGED <<last, sign, unread>>)
         \/ UNCHANGED <<books, stale, last, sign, unread>>
      /\ UNCHANGED <<stage, i, seen, failed, flags, live, clock, executor, report>>
  <2>1. i \in 1..15 /\ Len(Steps) = 14
    BY Parts, FourteenSteps DEF UpkeepInv, PreflightTyped
  <2>2. /\ stage = "preflight" /\ i <= 14 /\ Due /\ cleaned' = TRUE
        /\ UNCHANGED <<stage, i, seen, failed, flags, live, clock, executor, report>>
    BY <2>1 DEF CleanUp
  <2>3. \/ Repair /\ (Again(books') \/ UNCHANGED <<last, sign, unread>>)
        \/ UNCHANGED <<books, stale, last, sign, unread>>
    BY Zenon DEF CleanUp
  <2>4. QED
    BY <2>1, <2>2, <2>3
<1>2. (i = 9 /\ last \in {"FAIL", "WARN"}) \/ (i = 10 /\ last = "WARN")
  <2>1. /\ Steps[i].name = "paper_state_clean" <=> i = 9
        /\ Steps[i].name = "redis_session_freshness" <=> i = 10
    BY <1>1, FourteenSteps
  <2>2. last \in {"FAIL", "WARN"}
    BY <1>1, Zenon DEF Due
  <2>3. QED
    BY <1>1, <2>1, <2>2 DEF Due
<1>3. CASE UNCHANGED <<books, stale, last, sign, unread>>
  <2>1. PreflightTyped' /\ DayTyped'
    BY <1>1, <1>3, Parts, DayKept, Zenon DEF UpkeepInv, PreflightTyped
  <2>2. UpkeepTypeOK'
    BY <1>1, <2>1, Parts, Gather DEF UpkeepInv
  <2>3. SkipsFollowFailures' /\ SoundBooks' /\ AgesShow'
    BY <1>1, <1>3, Zenon DEF UpkeepInv, executor, SkipsFollowFailures, FailSeen, SoundBooks,
       Unchecked, Corrupt, AgesShow
  <2>4. QED
    BY <2>2, <2>3 DEF UpkeepInv
<1>4. CASE Repair /\ (Again(books') \/ UNCHANGED <<last, sign, unread>>)
  <2>1. /\ books' \in [Segments -> Kinds] /\ stale' \in BOOLEAN
        /\ last = "WARN" => \A s \in Segments : ~Corrupt(s)'
    <3>1. books \in [Segments -> Kinds] /\ stale \in BOOLEAN
      BY Parts, Zenon DEF UpkeepInv, PreflightTyped
    <3>2. QED
      BY <1>4, <3>1, RepairGives DEF Corrupt
  <2>2. /\ last' \in Status /\ sign' \in Signs /\ unread' \in BOOLEAN /\ (unread => unread')
        /\ last' = "SKIP" => i = 9 /\ unread'
        /\ ~unread' /\ i = 9 /\ last' # "FAIL" => \A s \in Segments : ~Corrupt(s)'
    <3>1. last \in Status /\ sign \in Signs /\ unread \in BOOLEAN
      BY <1>2, Parts, Zenon DEF UpkeepInv, PreflightTyped, Status
    <3>2. CASE UNCHANGED <<last, sign, unread>>
      <4>1. last' = last /\ sign' = sign /\ unread' = unread
        BY <3>2
      <4>2. last' # "SKIP" /\ (i = 9 /\ last' # "FAIL" => last = "WARN")
        BY <1>2, <4>1
      <4>3. QED
        BY <2>1, <3>1, <4>1, <4>2, Zenon
    <3>3. CASE Again(books')
      <4>1. Steps[i].name = "paper_state_clean" <=> i = 9
        BY <1>1, FourteenSteps
      <4>2. CASE i = 9
        <5>1. BooksRead(books')
          BY <3>3, <4>1, <4>2 DEF Again
        <5>2. QED
          BY <2>1, <3>1, <4>2, <5>1, BooksCheckGives DEF Corrupt
      <4>3. CASE i # 9
        <5>1. last' \in {"PASS", "FAIL"} /\ sign' = sign /\ unread' = unread
          BY <3>3, <4>1, <4>3 DEF Again
        <5>2. last' \in Status /\ last' # "SKIP"
          BY <5>1 DEF Status
        <5>3. QED
          BY <3>1, <4>3, <5>1, <5>2, Zenon
      <4>4. QED
        BY <4>2, <4>3
    <3>4. QED
      BY <1>4, <3>2, <3>3
  <2>3. UpkeepTypeOK'
    <3>1. last' \in Status \cup {"none"}
      BY <2>2
    <3>2. cleaned' \in BOOLEAN
      BY <1>1, Zenon
    <3>3. PreflightTyped' /\ DayTyped'
      BY <1>1, <2>1, <2>2, <3>1, <3>2, Parts, DayKept, Zenon DEF UpkeepInv, PreflightTyped
    <3>4. QED
      BY <1>1, <3>3, Parts, Gather DEF UpkeepInv
  <2>4. SkipsFollowFailures' /\ AgesShow'
    BY <1>1, <2>2 DEF UpkeepInv, SkipsFollowFailures, FailSeen, AgesShow, executor
  <2>5. SoundBooks'
    <3>1. CASE i = 9 /\ last' = "FAIL"
      BY <1>1, <3>1 DEF SoundBooks, Unchecked
    <3>2. CASE i = 9 /\ last' # "FAIL"
      BY <1>1, <2>2, <3>2 DEF SoundBooks, Corrupt
    <3>3. CASE i = 10 /\ last = "WARN"
      BY <2>1, <3>3 DEF SoundBooks, Corrupt
    <3>4. QED
      BY <1>2, <3>1, <3>2, <3>3
  <2>6. QED
    BY <2>3, <2>4, <2>5 DEF UpkeepInv
<1>5. QED
  BY <1>1, <1>3, <1>4

LEMMA NextStepKeeps == UpkeepInv /\ NextStep => UpkeepInv'
<1> SUFFICES ASSUME UpkeepInv, NextStep PROVE UpkeepInv'
  OBVIOUS
<1> DEFINE kind == Kind(Steps[i])
<1>1. /\ i \in 1..14 /\ stage = "preflight" /\ last \in Status /\ i' = i + 1 /\ last' = "none"
      /\ sign' = "none" /\ cleaned' = FALSE
      /\ seen' = IF last = "PASS" THEN seen ELSE seen \cup {<<kind, last>>}
      /\ failed' = IF last = "FAIL" THEN failed \cup ({Steps[i].name} \cap Needed) ELSE failed
      /\ UNCHANGED <<stage, unread, flags, live, books, stale, clock, executor, report>>
  <2>1. i \in 1..15 /\ Len(Steps) = 14 /\ last \in Status \cup {"none"}
    BY Parts, FourteenSteps DEF UpkeepInv, PreflightTyped
  <2>2. QED
    BY <2>1 DEF NextStep
<1>2. /\ kind \in StepKinds /\ (kind = "books" <=> i = 9)
      /\ kind = "critical" <=> i \in CriticalSteps \ {9}
  BY <1>1, FourteenSteps
<1> HIDE DEF kind
<1>3. UpkeepTypeOK'
  <2>1. i' \in 1..15 /\ last' \in Status \cup {"none"} /\ sign' \in Signs
    BY <1>1 DEF Signs
  <2>2. seen' \subseteq StepKinds \X Status
    <3>1. <<kind, last>> \in StepKinds \X Status /\ seen \subseteq StepKinds \X Status
      BY <1>1, <1>2, Parts, Zenon DEF UpkeepInv, PreflightTyped
    <3>2. QED
      BY <1>1, <3>1, Zenon
  <2>3. failed' \subseteq Needed
    <3>1. failed \subseteq Needed
      BY Parts DEF UpkeepInv, PreflightTyped
    <3>2. QED
      BY <1>1, <3>1
  <2>4. PreflightTyped' /\ DayTyped'
    BY <1>1, <2>1, <2>2, <2>3, Parts, DayKept, Zenon DEF UpkeepInv, PreflightTyped
  <2>5. QED
    BY <1>1, <2>4, Parts, Gather DEF UpkeepInv
<1>4. FailSeen => FailSeen'
  BY <1>1 DEF FailSeen
<1>5. last = "FAIL" => FailSeen'
  BY <1>1, <1>2 DEF FailSeen
<1>6. SkipsFollowFailures'
  <2>1. failed' # {} => FailSeen'
    BY <1>1, <1>4, <1>5 DEF UpkeepInv, SkipsFollowFailures
  <2>2. failed \subseteq failed' /\ unread' = unread
    BY <1>1
  <2>3. ASSUME <<"critical", "SKIP">> \in seen' PROVE failed' # {}
    <3>1. <<"critical", "SKIP">> \in seen \/ (last = "SKIP" /\ kind = "critical")
      BY <1>1, <2>3, Zenon
    <3>2. last = "SKIP" /\ kind = "critical" => failed # {}
      BY <1>1, <1>2 DEF UpkeepInv, SkipsFollowFailures
    <3>3. QED
      BY <2>2, <3>1, <3>2 DEF UpkeepInv, SkipsFollowFailures
  <2>4. ASSUME <<"books", "SKIP">> \in seen' PROVE failed' # {} \/ unread'
    <3>1. <<"books", "SKIP">> \in seen \/ (last = "SKIP" /\ kind = "books")
      BY <1>1, <2>4, Zenon
    <3>2. last = "SKIP" /\ kind = "books" => failed # {} \/ unread
      BY <1>1, <1>2 DEF UpkeepInv, SkipsFollowFailures, CriticalSteps
    <3>3. QED
      BY <2>2, <3>1, <3>2 DEF UpkeepInv, SkipsFollowFailures
  <2>5. QED
    BY <1>1, <2>1, <2>3, <2>4 DEF SkipsFollowFailures
<1>7. SoundBooks'
  <2>1. CASE FailSeen
    BY <1>4, <2>1 DEF SoundBooks
  <2>2. CASE unread \/ \A s \in Segments \ live : ~Corrupt(s)
    BY <1>1, <2>2 DEF SoundBooks, Corrupt
  <2>3. CASE i < 9
    BY <1>1, <2>3 DEF SoundBooks, Unchecked
  <2>4. CASE i = 9 /\ last = "FAIL"
    BY <1>5, <2>4 DEF SoundBooks
  <2>5. CASE i = 9 /\ last = "SKIP"
    <3>1. FailSeen \/ unread
      BY <1>1, <2>5 DEF UpkeepInv, SkipsFollowFailures, CriticalSteps
    <3>2. QED
      BY <1>1, <1>4, <3>1 DEF SoundBooks
  <2>6. QED
    BY <1>1, <2>1, <2>2, <2>3, <2>4, <2>5 DEF UpkeepInv, SoundBooks, Unchecked, Status
<1>8. AgesShow'
  BY <1>1 DEF UpkeepInv, AgesShow, executor
<1>9. QED
  BY <1>3, <1>6, <1>7, <1>8 DEF UpkeepInv

LEMMA BotPublishesKeeps == UpkeepInv /\ BotPublishes => UpkeepInv'
<1> SUFFICES ASSUME UpkeepInv, BotPublishes PROVE UpkeepInv'
  OBVIOUS
<1>1. PICK s \in live, kind \in {"sane", "gap"} : books' = [books EXCEPT ![s] = kind]
  BY DEF BotPublishes, Purge
<1>2. /\ stage = "preflight"
      /\ UNCHANGED <<stage, i, last, sign, cleaned, unread, seen, failed, flags, live, stale>>
      /\ UNCHANGED <<clock, executor, report>>
  BY DEF BotPublishes
<1>3. books' \in [Segments -> Kinds] /\ \A t \in Segments \ live : books'[t] = books[t]
  BY <1>1, Parts DEF UpkeepInv, PreflightTyped, Kinds
<1>4. UpkeepTypeOK'
  <2>1. PreflightTyped' /\ DayTyped'
    BY <1>2, <1>3, Parts, DayKept, Zenon DEF UpkeepInv, PreflightTyped
  <2>2. QED
    BY <1>2, <2>1, Parts, Gather DEF UpkeepInv
<1>5. SkipsFollowFailures' /\ AgesShow'
  BY <1>2 DEF UpkeepInv, SkipsFollowFailures, FailSeen, AgesShow, executor
<1>6. SoundBooks'
  BY <1>2, <1>3 DEF UpkeepInv, SoundBooks, Unchecked, FailSeen, Corrupt
<1>7. QED
  BY <1>4, <1>5, <1>6 DEF UpkeepInv

LEMMA DecideKeeps == UpkeepInv /\ Decide => UpkeepInv'
<1> SUFFICES ASSUME UpkeepInv, Decide PROVE UpkeepInv'
  OBVIOUS
<1>1. /\ stage' \in {"over", "day"} /\ i' = 1 /\ unread' = FALSE /\ seen' = {} /\ failed' = {} /\ live' = {}
      /\ books' = NoBooks /\ stale' = FALSE /\ flags' = [auto |-> FALSE, clean |-> FALSE]
      /\ UNCHANGED <<last, sign, cleaned, clock, executor, report>>
  BY DEF Decide
<1>2. UpkeepTypeOK'
  <2>1. /\ i' \in 1..15 /\ seen' \subseteq StepKinds \X Status /\ failed' \subseteq Needed
        /\ live' \subseteq MayRun /\ books' \in [Segments -> Kinds]
    BY <1>1 DEF NoBooks, Kinds
  <2>2. flags' \in Flags /\ stale' \in BOOLEAN /\ unread' \in BOOLEAN
    BY <1>1 DEF Flags
  <2>3. PreflightTyped' /\ DayTyped'
    BY <1>1, <2>1, <2>2, Parts, DayKept, Zenon DEF UpkeepInv, PreflightTyped
  <2>4. QED
    BY <1>1, <2>3, Parts, Gather DEF UpkeepInv
<1>3. QED
  BY <1>1, <1>2 DEF UpkeepInv, SkipsFollowFailures, SoundBooks, AgesShow, executor

\* A minute of the day.
LEMMA AgesGrow ==
    ASSUME NEW a \in 0..Quiet
    PROVE  /\ Older(a) \in 0..Quiet /\ Older(a) >= 1
           /\ \A b \in 0..Quiet : a >= b => Older(a) >= Older(b)
BY UpkeepAssumption DEF UpkeepAssumption, Older

LEMMA DayKeeps ==
    ASSUME UpkeepInv, stage' = stage, stage = "day", UNCHANGED preflight
    PROVE  SkipsFollowFailures' /\ SoundBooks'
BY DEF UpkeepInv, SkipsFollowFailures, FailSeen, SoundBooks, preflight

LEMMA SilenceKeeps == UpkeepInv /\ Silence => UpkeepInv'
<1> SUFFICES ASSUME UpkeepInv, Silence PROVE UpkeepInv'
  OBVIOUS
<1>1. /\ heartbeat' \in IF heartbeat >= Quiet THEN {heartbeat, Gone} ELSE {Older(heartbeat)}
      /\ signals' = Older(signals)
      /\ IF position = "none" THEN Managed ELSE Unmanaged("stall")
      /\ elapsed' = Older(elapsed)
      /\ UNCHANGED <<stage, preflight, phase, mode, position, locked, report>>
  BY DEF Silence
<1>2. /\ heartbeat \in 0..Gone /\ signals \in 0..Quiet /\ since \in 0..Quiet
      /\ elapsed \in 0..Quiet /\ 0 \in 0..Quiet /\ 1 \in 0..Quiet
      /\ Gone = Quiet + 1 /\ Quiet \in Nat /\ Quiet > 3
  BY UpkeepAssumption, Parts DEF UpkeepInv, DayTyped, UpkeepAssumption, Gone
<1>3. \/ cause' = "none" /\ since' = 0
      \/ cause' = "stall" /\ cause = "stall" /\ since' = Older(since)
      \/ cause' = "stall" /\ since' = 1
  BY <1>1 DEF Managed, Unmanaged
<1>4. /\ heartbeat' \in 0..Gone /\ heartbeat' >= 1
      /\ \A b \in 0..Quiet : heartbeat >= b => heartbeat' >= Older(b)
  <2>1. CASE heartbeat >= Quiet
    <3>1. heartbeat' \in {heartbeat, Gone}
      BY <1>1, <2>1
    <3>2. \A b \in 0..Quiet : Older(b) \in 0..Quiet
      BY AgesGrow
    <3>3. heartbeat' >= Quiet /\ heartbeat' \in 0..Gone
      BY <1>2, <2>1, <3>1
    <3>4. QED
      BY <1>2, <3>2, <3>3
  <2>2. CASE heartbeat < Quiet
    <3>1. heartbeat' = Older(heartbeat) /\ heartbeat \in 0..Quiet
      BY <1>1, <1>2, <2>2
    <3>2. QED
      BY <1>2, <3>1, AgesGrow
  <2>3. QED
    BY <1>2, <2>1, <2>2
<1>5. UpkeepTypeOK'
  <2>1. signals' \in 0..Quiet /\ since' \in 0..Quiet /\ elapsed' \in 0..Quiet
    BY <1>1, <1>2, <1>3, AgesGrow
  <2>2. cause' \in Causes
    BY <1>3 DEF Causes
  <2>3. PreflightTyped' /\ DayTyped'
    BY <1>1, <1>4, <2>1, <2>2, Parts, PreflightKept, Zenon DEF UpkeepInv, DayTyped
  <2>4. QED
    BY <1>1, <2>3, Parts, Gather DEF UpkeepInv
<1>6. AgesShow'
  <2>1. cause = "stall" => heartbeat' >= Older(since) /\ Older(signals) >= Older(since)
    BY <1>2, <1>4, AgesGrow DEF UpkeepInv, AgesShow
  <2>2. Older(signals) >= 1
    BY <1>2, AgesGrow
  <2>3. QED
    BY <1>1, <1>3, <1>4, <2>1, <2>2 DEF AgesShow
<1>7. SkipsFollowFailures' /\ SoundBooks'
  BY <1>1, DayKeeps DEF Silence
<1>8. QED
  BY <1>5, <1>6, <1>7 DEF UpkeepInv

LEMMA TickRaisesKeeps == UpkeepInv /\ TickRaises => UpkeepInv'
<1> SUFFICES ASSUME UpkeepInv, TickRaises PROVE UpkeepInv'
  OBVIOUS
<1>1. /\ heartbeat' = 0 /\ signals' = Older(signals)
      /\ IF position = "none" THEN Managed ELSE Unmanaged("raise")
      /\ elapsed' = Older(elapsed)
      /\ UNCHANGED <<stage, preflight, phase, mode, position, locked, report>>
  BY DEF TickRaises
<1>2. /\ signals \in 0..Quiet /\ since \in 0..Quiet
      /\ elapsed \in 0..Quiet /\ 0 \in 0..Quiet /\ 1 \in 0..Quiet /\ 0 \in 0..Gone
  BY UpkeepAssumption, Parts DEF UpkeepInv, DayTyped, UpkeepAssumption, Gone
<1>3. \/ cause' = "none" /\ since' = 0
      \/ cause' = "raise" /\ cause = "raise" /\ since' = Older(since)
      \/ cause' = "raise" /\ since' = 1
  BY <1>1 DEF Managed, Unmanaged
<1>4. UpkeepTypeOK'
  <2>1. /\ heartbeat' \in 0..Gone /\ signals' \in 0..Quiet
        /\ since' \in 0..Quiet /\ elapsed' \in 0..Quiet
    BY <1>1, <1>2, <1>3, AgesGrow
  <2>2. cause' \in Causes
    BY <1>3 DEF Causes
  <2>3. PreflightTyped' /\ DayTyped'
    BY <1>1, <2>1, <2>2, Parts, PreflightKept, Zenon DEF UpkeepInv, DayTyped
  <2>4. QED
    BY <1>1, <2>3, Parts, Gather DEF UpkeepInv
<1>5. AgesShow'
  <2>1. cause = "raise" => Older(signals) >= Older(since)
    BY <1>2, AgesGrow DEF UpkeepInv, AgesShow
  <2>2. Older(signals) >= 1
    BY <1>2, AgesGrow
  <2>3. QED
    BY <1>1, <1>3, <2>1, <2>2 DEF AgesShow
<1>6. SkipsFollowFailures' /\ SoundBooks'
  BY <1>1, DayKeeps DEF TickRaises
<1>7. QED
  BY <1>4, <1>5, <1>6 DEF UpkeepInv

LEMMA TickKeeps == UpkeepInv /\ Tick => UpkeepInv'
<1> SUFFICES ASSUME UpkeepInv, Tick PROVE UpkeepInv'
  OBVIOUS
<1>1. /\ heartbeat' = 0 /\ elapsed' = Older(elapsed) /\ stage = "day"
      /\ Trade \/ LockIn \/ OnlyManage
      /\ IF position' = "none" THEN Managed ELSE ManageStep(position)
      /\ UNCHANGED <<stage, preflight, phase, mode, report>>
  BY DEF Tick
<1>2. /\ signals \in 0..Quiet /\ since \in 0..Quiet
      /\ elapsed \in 0..Quiet /\ 0 \in 0..Quiet /\ 1 \in 0..Quiet /\ 0 \in 0..Gone
  BY UpkeepAssumption, Parts DEF UpkeepInv, DayTyped, UpkeepAssumption, Gone
<1>3. \/ cause' = "none" /\ since' = 0
      \/ cause' = "blind" /\ since' \in {Older(since), 1}
  <2>1. Managed \/ Unmanaged("blind")
    BY <1>1, Zenon DEF ManageStep
  <2>2. QED
    BY <2>1 DEF Managed, Unmanaged
<1>4. /\ signals' \in {0, Older(signals)} /\ locked' \in {locked, TRUE}
      /\ position' \in {"none", "bars", position}
  BY <1>1 DEF Trade, LockIn, OnlyManage, AfterClose
<1>5. UpkeepTypeOK'
  <2>1. /\ heartbeat' \in 0..Gone /\ signals' \in 0..Quiet
        /\ since' \in 0..Quiet /\ elapsed' \in 0..Quiet
    BY <1>1, <1>2, <1>3, <1>4, AgesGrow
  <2>2. cause' \in Causes
    BY <1>3 DEF Causes
  <2>3. position' \in Holdings
    BY <1>4, Parts DEF UpkeepInv, DayTyped, Holdings
  <2>4. locked' \in BOOLEAN
    <3>1. locked \in BOOLEAN
      BY Parts, Zenon DEF UpkeepInv, DayTyped
    <3>2. QED
      BY <1>4, <3>1, Zenon
  <2>5. PreflightTyped' /\ DayTyped'
    BY <1>1, <2>1, <2>2, <2>3, <2>4, Parts, PreflightKept, Zenon DEF UpkeepInv, DayTyped
  <2>6. QED
    BY <1>1, <2>5, Parts, Gather DEF UpkeepInv
<1>6. AgesShow'
  BY <1>3 DEF AgesShow
<1>7. SkipsFollowFailures' /\ SoundBooks'
  BY <1>1, DayKeeps
<1>8. QED
  BY <1>5, <1>6, <1>7 DEF UpkeepInv

LEMMA EnvironmentKeeps == UpkeepInv /\ Environment => UpkeepInv'
<1> SUFFICES ASSUME UpkeepInv, Environment PROVE UpkeepInv'
  OBVIOUS
<1>1. /\ stage = "day"
      /\ UNCHANGED <<stage, preflight, locked, heartbeat, signals, cause, since, report>>
  BY DEF Environment
<1>2. /\ mode' \in {"ticking", "stalled"} /\ elapsed' \in 0..Quiet
      /\ phase' \in {"pre", "entry", "hold", "late"}
      /\ position' \in Holdings /\ (position' = "none" <=> position = "none")
  <2>1. /\ mode \in {"ticking", "stalled"} /\ elapsed \in 0..Quiet /\ 0 \in 0..Quiet
        /\ phase \in {"pre", "entry", "hold", "late"} /\ position \in Holdings
    BY UpkeepAssumption, Parts DEF UpkeepInv, DayTyped, UpkeepAssumption
  <2>2. \/ mode' \in {"ticking", "stalled"} /\ phase' = phase /\ elapsed' = elapsed /\ position' = position
        \/ /\ mode' = mode /\ phase' = phase /\ elapsed' = elapsed
           /\ position # "none" /\ position' \in {"bars", "5m only", "blind"}
        \/ /\ mode' = mode /\ position' = position /\ elapsed' = 0
           /\ phase' \in {"entry", "hold", "late"}
    BY DEF Environment, clock
  <2>3. QED
    BY <2>1, <2>2 DEF Holdings
<1>3. UpkeepTypeOK'
  <2>1. PreflightTyped' /\ DayTyped'
    BY <1>1, <1>2, Parts, PreflightKept, Zenon DEF UpkeepInv, DayTyped
  <2>2. QED
    BY <1>1, <2>1, Parts, Gather DEF UpkeepInv
<1>4. SkipsFollowFailures' /\ SoundBooks'
  BY <1>1, DayKeeps
<1>5. QED
  BY <1>1, <1>3, <1>4 DEF UpkeepInv, AgesShow

\* The worst of the three checks and any others: a failure of one that does
\* not raise shows, and one that raises is at least a warning.
LEMMA ReportIs ==
    ASSUME NEW raised \in SUBSET Watched, NEW others,
           NEW overall, overall = Worst({Found(check, raised) : check \in Watched} \cup others)
    PROVE  /\ overall \in {"OK", "DEGRADED", "FAILED"}
           /\ \A check \in Watched \ raised : Found(check, raised) = "FAIL" => overall = "FAILED"
           /\ raised # {} => overall # "OK"
<1> DEFINE S == {Found(check, raised) : check \in Watched} \cup others
<1>1. /\ overall \in {"OK", "DEGRADED", "FAILED"}
      /\ "FAIL" \in S => overall = "FAILED"
      /\ "WARN" \in S => overall # "OK"
  BY DEF Worst
<1>2. \A check \in Watched : Found(check, raised) \in S
  OBVIOUS
<1>3. \A check \in raised : Found(check, raised) = "WARN"
  BY DEF Found
<1> HIDE DEF S
<1>4. \A check \in Watched \ raised : Found(check, raised) = "FAIL" => overall = "FAILED"
  BY <1>1, <1>2
<1>5. raised # {} => overall # "OK"
  BY <1>1, <1>2, <1>3
<1>6. QED
  BY <1>1, <1>4, <1>5

LEMMA HealthCheckKeeps == UpkeepInv /\ HealthCheck => UpkeepInv'
<1> SUFFICES ASSUME UpkeepInv, HealthCheck PROVE UpkeepInv'
  OBVIOUS
<1>1. /\ stage = "day" /\ UNCHANGED <<stage, preflight, clock, executor>>
      /\ \E raised \in SUBSET Watched : \E others : report' =
            [overall |-> Worst({Found(check, raised) : check \in Watched} \cup others),
             raised |-> raised]
  BY DEF HealthCheck
<1>3. UpkeepTypeOK'
  <2>1. report' \in Reports
    <3>1. PICK raised \in SUBSET Watched : \E others : report' =
              [overall |-> Worst({Found(check, raised) : check \in Watched} \cup others),
               raised |-> raised]
      BY <1>1, Zenon
    <3>2. PICK others : report' =
              [overall |-> Worst({Found(check, raised) : check \in Watched} \cup others),
               raised |-> raised]
      BY <3>1, Zenon
    <3>3. PICK overall : overall = Worst({Found(check, raised) : check \in Watched} \cup others)
      OBVIOUS
    <3>4. overall \in {"none", "OK", "DEGRADED", "FAILED"}
      BY <3>3, ReportIs
    <3>5. report' = [overall |-> overall, raised |-> raised]
      BY <3>2, <3>3, Zenon
    <3>6. QED
      BY <3>4, <3>5 DEF Reports
  <2>2. PreflightTyped' /\ DayTyped'
    BY <1>1, Parts, PreflightKept, DayKept, Zenon DEF UpkeepInv
  <2>3. QED
    BY <1>1, <2>1, <2>2, Parts, Gather DEF UpkeepInv
<1>4. SkipsFollowFailures' /\ SoundBooks'
  BY <1>1, DayKeeps
<1>5. QED
  BY <1>1, <1>3, <1>4 DEF UpkeepInv, AgesShow, executor

LEMMA UpkeepInvStep == UpkeepInv /\ [UpkeepNext]_upkeep => UpkeepInv'
<1> SUFFICES ASSUME UpkeepInv, [UpkeepNext]_upkeep PROVE UpkeepInv'
  OBVIOUS
<1>1. CASE UNCHANGED upkeep
  <2>1. UNCHANGED <<stage, preflight, clock, executor, report>>
    BY <1>1, Zenon DEF upkeep
  <2>2. PreflightTyped' /\ DayTyped'
    BY <2>1, Parts, PreflightKept, DayKept, Zenon DEF UpkeepInv
  <2>3. UpkeepTypeOK'
    BY <2>1, <2>2, Parts, Gather DEF UpkeepInv
  <2>4. SkipsFollowFailures' /\ SoundBooks' /\ AgesShow'
    BY <2>1, Zenon DEF preflight, executor, UpkeepInv, SkipsFollowFailures, FailSeen, SoundBooks,
       Unchecked, Corrupt, AgesShow
  <2>5. QED
    BY <2>3, <2>4 DEF UpkeepInv
<1>2. CASE UpkeepNext
  BY <1>2, RunStepKeeps, CleanUpKeeps, NextStepKeeps, BotPublishesKeeps, DecideKeeps,
     SilenceKeeps, TickRaisesKeeps, TickKeeps, EnvironmentKeeps, HealthCheckKeeps DEF UpkeepNext
<1>3. QED
  BY <1>1, <1>2

LEMMA UpkeepInvariance == UpkeepSpec => []UpkeepInv
BY UpkeepInvInit, UpkeepInvStep, PTL DEF UpkeepSpec

-------------------------------------------------------------------------------
(* Theorems.                                                               *)

\* The pre-flight lets the day begin only without a failure on record.
LEMMA DayNeedsNoFailure ==
    ASSUME UpkeepInv, [UpkeepNext]_upkeep, stage = "preflight", stage' = "day"
    PROVE  i > 14 /\ ~FailSeen
<1>1. Decide
  BY DEF UpkeepNext, RunStep, CleanUp, NextStep, BotPublishes, Silence, TickRaises, Tick,
     Environment, HealthCheck, upkeep
<1>2. ExitCode # 1
  BY <1>1 DEF Decide
<1>3. ~FailSeen
  BY <1>2 DEF ExitCode, Shown, FailSeen, StepKinds
<1>4. QED
  BY <1>1, <1>3, FourteenSteps DEF Decide

\* On "safe to start" and on "review" no critical step has failed, and none was
\* skipped but the books check of a process that found no cache.
THEOREM GoEarned == UpkeepSpec => GoIsEarned
<1>1. ASSUME UpkeepInv, [UpkeepNext]_upkeep, stage = "preflight", stage' = "day"
      PROVE  /\ \A kind \in {"books", "critical"} : <<kind, "FAIL">> \notin seen
             /\ <<"critical", "SKIP">> \notin seen
             /\ <<"books", "SKIP">> \in seen => unread
  <2>1. ~FailSeen
    BY <1>1, DayNeedsNoFailure
  <2>2. \A kind \in {"books", "critical"} : <<kind, "FAIL">> \notin seen
    BY <2>1 DEF FailSeen, StepKinds
  <2>3. <<"critical", "SKIP">> \notin seen /\ (<<"books", "SKIP">> \in seen => unread)
    BY <1>1, <2>1 DEF UpkeepInv, SkipsFollowFailures
  <2>4. QED
    BY <2>2, <2>3
<1>2. UpkeepInv /\ [UpkeepNext]_upkeep =>
          [stage = "preflight" /\ stage' = "day" =>
               /\ \A kind \in {"books", "critical"} : <<kind, "FAIL">> \notin seen
               /\ <<"critical", "SKIP">> \notin seen
               /\ <<"books", "SKIP">> \in seen => unread]_upkeep
  BY <1>1
<1>3. QED
  BY <1>2, UpkeepInvariance, PTL DEF UpkeepSpec, GoIsEarned

\* No bot is started on books with a gap or blown up, whatever was corrupt in
\* the morning and whichever segment a cleanup repaired, unless Redis was gone
\* when they were checked.
THEOREM StartsOnSaneBooks == UpkeepSpec => GoMeansSane
<1>1. ASSUME UpkeepInv, [UpkeepNext]_upkeep, stage = "preflight", stage' = "day", ~unread,
             NEW s \in Segments \ live
      PROVE  books[s] \notin {"gap", "blown"}
  <2>1. i > 14 /\ ~FailSeen /\ i \in 1..15
    BY <1>1, DayNeedsNoFailure, Parts DEF UpkeepInv, PreflightTyped
  <2>2. QED
    BY <1>1, <2>1 DEF UpkeepInv, SoundBooks, Unchecked, Corrupt
<1>2. UpkeepInv /\ [UpkeepNext]_upkeep =>
          [stage = "preflight" /\ stage' = "day" /\ ~unread =>
               \A s \in Segments \ live : books[s] \notin {"gap", "blown"}]_upkeep
  BY <1>1
<1>3. QED
  BY <1>2, UpkeepInvariance, PTL DEF UpkeepSpec, GoMeansSane

\* A position that one cause has left alone for as long as every check waits
\* makes the next health check fail, unless every check that sees the cause
\* raises; then it warns.
THEOREM NeglectIsReported == UpkeepSpec => UnmanagedIsReported
<1>1. ASSUME UpkeepInv, HealthCheck, Neglected
      PROVE  /\ (report'.overall) # "OK"
             /\ (report'.overall) = "FAILED" \/ Watchers \subseteq (report'.raised)
  <2>1. PICK raised \in SUBSET Watched : \E others : report' =
            [overall |-> Worst({Found(check, raised) : check \in Watched} \cup others),
             raised |-> raised]
    BY <1>1 DEF HealthCheck
  <2>2. /\ (report'.raised) = raised
        /\ \A check \in Watched \ raised :
               Found(check, raised) = "FAIL" => (report'.overall) = "FAILED"
        /\ raised # {} => (report'.overall) # "OK"
    <3>1. PICK others : report' =
              [overall |-> Worst({Found(check, raised) : check \in Watched} \cup others),
               raised |-> raised]
      BY <2>1, Zenon
    <3>2. PICK overall : overall = Worst({Found(check, raised) : check \in Watched} \cup others)
      OBVIOUS
    <3>3. report' = [overall |-> overall, raised |-> raised]
      BY <3>1, <3>2, Zenon
    <3>4. (report'.overall) = overall /\ (report'.raised) = raised
      BY <3>3
    <3>5. /\ \A check \in Watched \ raised : Found(check, raised) = "FAIL" => overall = "FAILED"
          /\ raised # {} => overall # "OK"
      BY <3>2, ReportIs, Zenon
    <3>6. QED
      BY <3>4, <3>5
  <2>3. /\ InWindow /\ since = Quiet /\ Quiet \in Nat /\ Quiet > 3 /\ Gone = Quiet + 1
        /\ cause = "blind" => position = "blind"
        /\ heartbeat \in 0..Gone /\ signals \in 0..Quiet /\ cause \in Causes
    BY <1>1, UpkeepAssumption, Parts
       DEF Neglected, UpkeepAssumption, UpkeepInv, DayTyped, Gone
  <2>4. Watchers # {} /\ Watchers \subseteq Watched
    BY DEF Watchers, Watched
  <2>5. ASSUME NEW check \in Watchers \ raised PROVE Found(check, raised) = "FAIL"
    <3>1. CASE cause = "none"
      BY <1>1, <2>3, <3>1 DEF UpkeepInv, AgesShow
    <3>2. CASE cause = "stall"
      <4>1. heartbeat >= Quiet /\ signals >= Quiet
        BY <1>1, <2>3, <3>2 DEF UpkeepInv, AgesShow
      <4>2. ByAge(signals) = "FAIL" /\ (heartbeat # Gone => TickHeartbeat = "FAIL")
        BY <2>3, <4>1 DEF ByAge, TickHeartbeat
      <4>3. check = "signals" \/ (check = "heartbeat" /\ heartbeat # Gone)
        BY <2>5, <3>2 DEF Watchers
      <4>4. QED
        BY <2>5, <4>2, <4>3 DEF Found
    <3>3. CASE cause = "raise"
      <4>1. ByAge(signals) = "FAIL"
        BY <1>1, <2>3, <3>3 DEF UpkeepInv, AgesShow, ByAge
      <4>2. check = "signals"
        BY <2>5, <3>3 DEF Watchers
      <4>3. QED
        BY <2>5, <4>1, <4>2 DEF Found
    <3>4. CASE cause = "blind"
      <4>1. PositionData = "FAIL"
        BY <2>3, <3>4 DEF PositionData
      <4>2. check = "positions"
        BY <2>5, <3>4 DEF Watchers
      <4>3. QED
        BY <2>5, <4>1, <4>2 DEF Found
    <3>5. QED
      BY <2>3, <3>1, <3>2, <3>3, <3>4 DEF Causes
  <2>6. CASE Watchers \subseteq raised
    BY <2>2, <2>4, <2>6
  <2>7. CASE ~(Watchers \subseteq raised)
    BY <2>2, <2>4, <2>5, <2>7
  <2>8. QED
    BY <2>6, <2>7
<1>2. UpkeepInv => [HealthCheck /\ Neglected =>
          /\ (report'.overall) # "OK"
          /\ (report'.overall) = "FAILED" \/ Watchers \subseteq (report'.raised)]_upkeep
  BY <1>1
<1>3. QED
  BY <1>2, UpkeepInvariance, PTL DEF UpkeepSpec, UnmanagedIsReported
===============================================================================
