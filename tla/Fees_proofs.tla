------------------------------ MODULE Fees_proofs ------------------------------
(***************************************************************************)
(* The fees, from the pages of the brokers to the positions they apply to. *)
(*                                                                         *)
(* FeeUpdate, for any segments and rates: a bot closes a position under    *)
(* the rate it opened it under, no maintenance step makes a position       *)
(* disappear, and a half-written rates file can be put back.  The          *)
(* strengthening: as long as the procedure is kept, every bot but the ones *)
(* about to be stopped runs under the table in force, every position was   *)
(* opened under it, and there is none while the script is at work.         *)
(*                                                                         *)
(* FeeAudit, for any rates, days and mistakes on any number of pages: what *)
(* two honest sources publish prevails, no value is proposed against more  *)
(* sources than support it, and an audit that reports OK has seen nothing  *)
(* far from the rates in use.  The steps: a parser reads an honest page as *)
(* meant, whatever it reads is a percentage of the page; the clusters      *)
(* split the readings, those of equal value together; the largest of three *)
(* readings' clusters holds any two that are the same.                     *)
(***************************************************************************)
EXTENDS FeeUpdate, FeeAudit, FiniteSetTheorems, SequenceTheorems, TLAPS

Tables == [Segments -> Values]

(* The table in force: the file, or its copy while the file is half written. *)
Table == IF file = <<>> THEN backup ELSE file

CopyIsWhole ==
  /\ file = <<>> => pc = "idle" /\ backup \in Tables
  /\ pc = "saved" => backup = file

(* While the procedure is kept.                                             *)
UnderTable == \A s \in Segments : held[s] \in {None, Table[s]}
BotsCurrent == pc # "patched" => \A s \in up : loaded[s] = Table[s]
NoneAtWork == pc # "idle" => phase # "market" /\ \A s \in Segments : held[s] = None
NoneUnsaved == \A s \in up : snap[s] = "gone" => held[s] = None

Kept == UnderTable /\ BotsCurrent /\ NoneAtWork /\ NoneUnsaved

IInv == TypeOK /\ CopyIsWhole /\ (~excused => Kept)

-------------------------------------------------------------------------------
(* What the operations keep. *)

LEMMA NoTableIsEmpty == \A t \in Tables : t # <<>>
<1> SUFFICES ASSUME NEW t \in Tables, t = <<>> PROVE FALSE
  OBVIOUS
<1>1. "equity" \in DOMAIN t
  BY FeeAssumption DEF Tables
<1>2. DOMAIN <<>> = {}
  OBVIOUS
<1>3. QED
  BY <1>1, <1>2

LEMMA Typed ==
    ASSUME TypeOK
    PROVE  /\ file # <<>> => file \in Tables
           /\ backup # <<>> => backup \in Tables
BY DEF TypeOK, Tables

\* Bots that start load the table in force and keep what was saved today.
LEMMA StartAllFacts ==
    ASSUME TypeOK, NEW S \in SUBSET Segments, StartAll(S)
    PROVE  /\ file \in Tables
           /\ up' = up \cup S
           /\ loaded' \in [Segments -> Values \cup {None}]
           /\ \A s \in S : loaded'[s] = file[s]
           /\ \A s \in Segments \ S : loaded'[s] = loaded[s] /\ held'[s] = held[s] /\ snap'[s] = snap[s]
           /\ held' \in [Segments -> Values \cup {None}]
           /\ \A s \in Segments : held'[s] \in {None, held[s]}
           /\ \A s \in S : snap'[s] = "gone" => held'[s] = None
           /\ snap' \in [Segments -> {"today", "old", "gone"}]
           /\ account' \in {"even", "lost", "reset"}
<1>1. file \in Tables
  BY Typed DEF StartAll
<1>2. held' = [s \in Segments |-> IF s \in S /\ snap[s] # "today" THEN None ELSE held[s]]
  BY DEF StartAll, Restored
<1>3. held' \in [Segments -> Values \cup {None}]
  BY <1>2 DEF TypeOK
<1>4. loaded' = [s \in Segments |-> IF s \in S THEN file[s] ELSE loaded[s]]
  BY DEF StartAll
<1>5. loaded' \in [Segments -> Values \cup {None}]
  BY <1>1, <1>4 DEF TypeOK, Tables
<1>6. snap' = [s \in Segments |-> IF s \in S /\ snap[s] = "old" THEN "gone" ELSE snap[s]]
  BY DEF StartAll
<1>7. snap' \in [Segments -> {"today", "old", "gone"}]
  BY <1>6 DEF TypeOK
<1>8. \A s \in S : snap'[s] = "gone" => held'[s] = None
  BY <1>2, <1>6 DEF TypeOK
<1>9. account' \in {"even", "lost", "reset"}
  BY DEF StartAll, Account, TypeOK
<1>10. QED
  BY <1>1, <1>2, <1>3, <1>4, <1>5, <1>6, <1>7, <1>8, <1>9 DEF StartAll

LEMMA CleanEquityFacts ==
    ASSUME TypeOK, CleanEquity
    PROVE  /\ aside' \in {"nothing", "corrupt", "clean"}
           /\ account' \in {"even", "lost", "reset"}
           /\ held' \in [Segments -> Values \cup {None}]
           /\ \A s \in Segments : held'[s] \in {None, held[s]}
           /\ snap' \in [Segments -> {"today", "old", "gone"}]
           /\ \A s \in Segments \ up : snap'[s] = "gone" => held'[s] = None
<1>1. snap' \in [Segments -> {"today", "old", "gone"}]
  BY DEF CleanEquity, TypeOK
<1>2. held' \in [Segments -> Values \cup {None}] /\ \A s \in Segments : held'[s] \in {None, held[s]}
  BY DEF CleanEquity, TypeOK
<1>3. \A s \in Segments \ up : snap'[s] = "gone" => held'[s] = None
  BY DEF CleanEquity, TypeOK
<1>4. aside' \in {"nothing", "corrupt", "clean"} /\ account' \in {"even", "lost", "reset"}
  BY DEF CleanEquity, TypeOK
<1>5. QED
  BY <1>1, <1>2, <1>3, <1>4

LEMMA WipeFacts ==
    ASSUME TypeOK, WipeSession
    PROVE  /\ account' \in {"even", "lost", "reset"}
           /\ held' \in [Segments -> Values \cup {None}]
           /\ \A s \in Segments : held'[s] \in {None, held[s]}
           /\ snap' \in [Segments -> {"today", "old", "gone"}]
           /\ \A s \in Segments \ up : held'[s] = None
BY DEF WipeSession, Wiped, TypeOK

LEMMA PurgeFacts ==
    ASSUME TypeOK, PurgeFno
    PROVE  /\ account' = account /\ aside' = aside
           /\ held' \in [Segments -> Values \cup {None}]
           /\ snap' \in [Segments -> {"today", "old", "gone"}]
           /\ \A s \in Segments \ up : snap'[s] = "gone" => held'[s] = None
BY DEF PurgeFno, Wiped, TypeOK

\* The stop leaves the bots running that it does not see, and what the
\* snapshots of the others hold.
LEMMA StopFacts ==
    ASSUME TypeOK, StopBots
    PROVE  /\ up' = unseen /\ loaded' \in [Segments -> Values \cup {None}]
           /\ \A s \in Segments : (loaded'[s] = None) <=> (s \notin up')
           /\ held' \in [Segments -> Values \cup {None}]
           /\ \A s \in Segments : held'[s] = held[s] \/ (held'[s] = None /\ s \in up)
           /\ snap' \in [Segments -> {"today", "old", "gone"}]
           /\ \A s \in Segments \ up' : snap'[s] = "gone" => held'[s] = None
           /\ account' \in {"even", "lost", "reset"}
<1>1. PICK swept \in SUBSET {s \in Victims : held[s] # None} :
        /\ held' = [s \in Segments |->
             IF s \in swept \/ (s \in Victims /\ snap[s] = "gone") THEN None ELSE held[s]]
        /\ snap' = [s \in Segments |-> IF s \in swept THEN "today" ELSE snap[s]]
        /\ account' \in IF "equity" \in swept THEN {"even", "lost"}
                        ELSE IF "equity" \in Victims /\ snap["equity"] = "gone" THEN {"even"} ELSE {account}
  BY DEF StopBots
<1>2. account' \in {"even", "lost", "reset"}
  BY <1>1 DEF TypeOK
<1>3. held' \in [Segments -> Values \cup {None}]
  BY <1>1 DEF TypeOK
<1>4. snap' \in [Segments -> {"today", "old", "gone"}]
  BY <1>1 DEF TypeOK
<1>5. \A s \in Segments : held'[s] = held[s] \/ (held'[s] = None /\ s \in up)
  BY <1>1 DEF Victims
<1>7. up' = unseen
  BY DEF StopBots, Victims, TypeOK
<1>6. \A s \in Segments \ up' : snap'[s] = "gone" => held'[s] = None
  BY <1>1, <1>7 DEF TypeOK, Victims
<1>8. loaded' = [s \in Segments |-> IF s \in Victims THEN None ELSE loaded[s]]
  BY DEF StopBots
<1>9. /\ loaded' \in [Segments -> Values \cup {None}]
      /\ \A s \in Segments : (loaded'[s] = None) <=> (s \notin up')
  BY <1>7, <1>8, FeeAssumption DEF TypeOK, Victims
<1>10. QED
  BY <1>2, <1>3, <1>4, <1>5, <1>6, <1>7, <1>9

-------------------------------------------------------------------------------
(* Types. *)

LEMMA TypeInit == Init => TypeOK
<1> SUFFICES ASSUME Init PROVE TypeOK
  OBVIOUS
<1>1. file \in [Segments -> Values]
  BY FeeAssumption DEF Init
<1>2. opts \in Options
  BY DEF Init, Options, NoOptions
<1>3. loaded \in [Segments -> Values \cup {None}] /\ held \in [Segments -> Values \cup {None}]
  BY DEF Init
<1>4. snap \in [Segments -> {"today", "old", "gone"}]
  BY DEF Init
<1>5. excused \in BOOLEAN
  BY DEF Init
<1>6. QED
  BY <1>1, <1>2, <1>3, <1>4, <1>5 DEF Init, TypeOK

LEMMA NoOptionsTyped == NoOptions \in Options
BY DEF NoOptions, Options

LEMMA TypeStep == TypeOK /\ [Next]_vars => TypeOK'
<1> SUFFICES ASSUME TypeOK, [Next]_vars PROVE TypeOK'
  OBVIOUS
<1> USE DEF script, rates, books, bots
<1>0. /\ excused \in BOOLEAN
      /\ file \in Tables \cup {<<>>} /\ backup \in Tables \cup {<<>>}
  BY DEF TypeOK, Tables
<1>1. CASE Begin
  <2>1. opts' \in Options
    BY <1>1 DEF Begin
  <2>2. excused' \in BOOLEAN
    BY <1>1, Zenon DEF Begin, TypeOK
  <2>3. QED
    BY <1>1, <2>1, <2>2 DEF Begin, TypeOK
<1>2. CASE NothingToPatch
  BY <1>2, NoOptionsTyped DEF NothingToPatch, TypeOK
<1>3. CASE BackUp
  BY <1>3 DEF BackUp, Copy, TypeOK
<1>4. CASE Write
  BY <1>4 DEF Write, TypeOK
<1>5. CASE Decline
  BY <1>5, NoOptionsTyped DEF Decline, TypeOK
<1>6. CASE StopBots
  <2>1. UNCHANGED <<opts, rates, unseen, phase, aside>> /\ pc' = "stopped"
    BY <1>6 DEF StopBots
  <2>2. excused' \in BOOLEAN
    BY <1>6, Zenon DEF StopBots, TypeOK
  <2>3. QED
    BY <1>6, <2>1, <2>2, StopFacts DEF TypeOK
<1>7. CASE CleanIfSuspicious
  <2>1. UNCHANGED <<opts, rates, bots, phase, excused>> /\ pc' = "cleaned"
    BY <1>7 DEF CleanIfSuspicious
  <2>2. CASE CleanEquity
    BY <2>1, <2>2, CleanEquityFacts DEF TypeOK
  <2>3. CASE UNCHANGED <<books, aside>>
    BY <2>1, <2>3 DEF TypeOK
  <2>4. QED
    BY <1>7, <2>2, <2>3 DEF CleanIfSuspicious
<1>8. CASE Wipe
  <2>1. UNCHANGED <<opts, rates, bots, phase, aside, excused>> /\ pc' = "wiped"
    BY <1>8 DEF Wipe, AfterWipe
  <2>2. CASE WipeSession
    BY <2>1, <2>2, WipeFacts DEF TypeOK
  <2>3. CASE UNCHANGED books
    BY <2>1, <2>3 DEF TypeOK
  <2>4. QED
    BY <1>8, <2>2, <2>3 DEF Wipe
<1>9. ASSUME NEW S \in SUBSET Segments, StartAll(S), UNCHANGED <<rates, phase, aside>>,
             unseen' \subseteq unseen \cup S, excused' = excused, pc' \in {pc, "idle"}, opts' \in {opts, NoOptions}
      PROVE  TypeOK'
  <2>1. \A s \in Segments : (loaded'[s] = None) <=> (s \notin up')
    BY <1>9, StartAllFacts, FeeAssumption DEF TypeOK, Tables
  <2>2. \A s \in Segments \ up' : snap'[s] = "gone" => held'[s] = None
    BY <1>9, StartAllFacts DEF TypeOK
  <2>3. opts' \in Options
    BY <1>9, NoOptionsTyped DEF TypeOK
  <2>5. unseen' \subseteq up'
    BY <1>9 DEF StartAll, TypeOK
  <2>4. QED
    BY <1>9, <2>1, <2>2, <2>3, <2>5, StartAllFacts DEF TypeOK
<1>10. CASE Launch
  <2>1. StartAll(Segments \ up) /\ UNCHANGED <<rates, unseen, phase, aside, excused>>
        /\ pc' = "idle" /\ opts' = NoOptions
    BY <1>10 DEF Launch
  <2>2. QED
    BY <1>9, <2>1
<1>11. ASSUME NEW s \in Segments, Start(s) PROVE TypeOK'
  <2>1. StartAll({s}) /\ UNCHANGED <<script, rates, phase, aside, excused>>
        /\ unseen' \subseteq unseen \cup {s}
    BY <1>11 DEF Start
  <2>2. QED
    BY <1>9, <2>1
<1>12. ASSUME NEW s \in Segments, Crash(s) PROVE TypeOK'
  <2>1. held' \in [Segments -> Values \cup {None}]
    BY <1>12 DEF Crash, TypeOK
  <2>2. account' \in {"even", "lost", "reset"}
    BY <1>12 DEF Crash, TypeOK
  <2>3. /\ loaded' \in [Segments -> Values \cup {None}]
        /\ \A r \in Segments : (loaded'[r] = None) <=> (r \notin up')
    BY <1>12, FeeAssumption DEF Crash, TypeOK
  <2>4. \A r \in Segments \ up' : snap'[r] = "gone" => held'[r] = None
    BY <1>12 DEF Crash, TypeOK
  <2>5. QED
    BY <1>12, <2>1, <2>2, <2>3, <2>4 DEF Crash, TypeOK
<1>13. ASSUME NEW s \in Segments, Open(s) PROVE TypeOK'
  <2>1. held' \in [Segments -> Values \cup {None}] /\ snap' \in [Segments -> {"today", "old", "gone"}]
    BY <1>13 DEF Open, TypeOK
  <2>2. account' \in {"even", "lost", "reset"}
    BY <1>13 DEF Open, TypeOK
  <2>3. \A r \in Segments \ up : snap'[r] = "gone" => held'[r] = None
    BY <1>13 DEF Open, TypeOK
  <2>4. QED
    BY <1>13, <2>1, <2>2, <2>3 DEF Open, TypeOK
<1>14. ASSUME NEW s \in Segments, Close(s) PROVE TypeOK'
  <2>1. held' \in [Segments -> Values \cup {None}] /\ snap' \in [Segments -> {"today", "old", "gone"}]
    BY <1>14 DEF Close, TypeOK
  <2>2. account' \in {"even", "lost", "reset"}
    BY <1>14 DEF Close, TypeOK
  <2>3. \A r \in Segments \ up : snap'[r] = "gone" => held'[r] = None
    BY <1>14 DEF Close, TypeOK
  <2>4. QED
    BY <1>14, <2>1, <2>2, <2>3 DEF Close, TypeOK
<1>15. CASE ClockTurns
  <2>1. excused' \in BOOLEAN
    BY <1>15, Zenon DEF ClockTurns, TypeOK
  <2>2. phase' \in {"morning", "market", "evening"}
    BY <1>15 DEF ClockTurns
  <2>3. snap' \in [Segments -> {"today", "old", "gone"}] /\ \A s \in Segments : snap'[s] = "gone" => snap[s] = "gone"
    BY <1>15 DEF ClockTurns, TypeOK
  <2>4. QED
    BY <1>15, <2>1, <2>2, <2>3 DEF ClockTurns, TypeOK
<1>16. CASE Interrupt
  <2>1. excused' \in BOOLEAN
    BY <1>16, Zenon DEF Interrupt, TypeOK
  <2>2. file' \in Tables \cup {<<>>} /\ backup' \in Tables \cup {<<>>}
    BY <1>0, <1>16 DEF Interrupt
  <2>3. QED
    BY <1>16, <2>1, <2>2, NoOptionsTyped DEF Interrupt, TypeOK, Tables
<1>17. CASE PutBack
  BY <1>17 DEF PutBack, TypeOK
<1>18. CASE ByHand
  <2>1. UNCHANGED <<script, rates, bots, phase>> /\ excused' = TRUE
    BY <1>18 DEF ByHand
  <2>2. CASE CleanEquity
    BY <2>1, <2>2, CleanEquityFacts DEF TypeOK
  <2>3. CASE WipeSession /\ UNCHANGED aside
    BY <2>1, <2>3, WipeFacts DEF TypeOK
  <2>4. CASE PurgeFno
    BY <2>1, <2>4, PurgeFacts DEF TypeOK
  <2>5. QED
    BY <1>18, <2>2, <2>3, <2>4 DEF ByHand
<1>19. CASE UNCHANGED vars
  BY <1>19 DEF vars, TypeOK
<1>20. QED
  BY <1>1, <1>2, <1>3, <1>4, <1>5, <1>6, <1>7, <1>8, <1>10, <1>11, <1>12, <1>13, <1>14,
     <1>15, <1>16, <1>17, <1>18, <1>19 DEF Next, Script

-------------------------------------------------------------------------------
(* The file and its copy. *)

LEMMA CopyStep == TypeOK /\ CopyIsWhole /\ [Next]_vars => CopyIsWhole'
<1> SUFFICES ASSUME TypeOK, CopyIsWhole, [Next]_vars PROVE CopyIsWhole'
  OBVIOUS
<1> USE DEF script, rates, books, bots
<1>1. ASSUME UNCHANGED rates, pc' # "saved", pc = "idle" => pc' = "idle" \/ file # <<>>
      PROVE  CopyIsWhole'
  BY <1>1 DEF CopyIsWhole
<1>2. ASSUME UNCHANGED <<rates, pc>> PROVE CopyIsWhole'
  BY <1>2 DEF CopyIsWhole
<1>3. CASE BackUp
  BY <1>3 DEF BackUp, Copy, CopyIsWhole
<1>4. CASE Write
  <2>1. file' \in Tables /\ pc' = "patched"
    BY <1>4 DEF Write, Tables
  <2>2. QED
    BY <2>1, NoTableIsEmpty DEF CopyIsWhole
<1>5. CASE Interrupt
  <2>1. file \in Tables /\ pc' = "idle" /\ (pc = "saved" => backup = file)
    BY <1>5, Typed DEF Interrupt, CopyIsWhole
  <2>2. QED
    BY <1>5, <2>1, NoTableIsEmpty DEF Interrupt, CopyIsWhole
<1>6. CASE PutBack
  BY <1>6, NoTableIsEmpty DEF PutBack, CopyIsWhole
<1>7. CASE Begin \/ NothingToPatch \/ Decline \/ StopBots \/ CleanIfSuspicious \/ Wipe \/ Launch
  BY <1>1, <1>7 DEF Begin, NothingToPatch, Decline, StopBots, CleanIfSuspicious, Wipe, AfterWipe,
                    Launch
<1>8. CASE ByHand \/ ClockTurns \/ UNCHANGED vars
  BY <1>2, <1>8 DEF ByHand, ClockTurns, vars
<1>9. ASSUME NEW s \in Segments, Start(s) \/ Crash(s) \/ Open(s) \/ Close(s) PROVE CopyIsWhole'
  BY <1>2, <1>9 DEF Start, Crash, Open, Close
<1>10. QED
  BY <1>3, <1>4, <1>5, <1>6, <1>7, <1>8, <1>9 DEF Next, Script

-------------------------------------------------------------------------------
(* Bots and positions, while the procedure is kept. *)

\* A step that leaves the table and takes no position up.
LEMMA KeptByShrinking ==
    ASSUME Kept, Table' = Table,
           \A s \in Segments : held'[s] \in {None, held[s]},
           pc' # "patched" => \A s \in up' : loaded'[s] = Table[s],
           pc' # "idle" => pc # "idle" /\ phase' = phase,
           \A s \in up' : snap'[s] = "gone" => held'[s] = None
    PROVE  Kept'
<1>1. UnderTable'
  BY DEF Kept, UnderTable
<1>2. BotsCurrent'
  BY DEF BotsCurrent
<1>3. NoneAtWork'
  BY DEF Kept, NoneAtWork
<1>4. QED
  BY <1>1, <1>2, <1>3 DEF Kept, NoneUnsaved

LEMMA SameTable == UNCHANGED rates => Table' = Table
BY DEF rates, Table

LEMMA StartAllKept ==
    ASSUME TypeOK, Kept, NEW S \in SUBSET Segments, StartAll(S), UNCHANGED <<rates, phase>>,
           pc' \in {pc, "idle"}, pc = "patched" => pc' = "patched"
    PROVE  Kept'
<1>1. file \in Tables /\ file # <<>>
  BY StartAllFacts, NoTableIsEmpty
<1>2. Table = file /\ Table' = Table
  BY <1>1, SameTable DEF Table
<1>3. up \subseteq Segments
  BY DEF TypeOK
<1>4. pc' # "patched" => \A s \in up' : loaded'[s] = Table[s]
  <2> SUFFICES ASSUME pc' # "patched", NEW s \in up' PROVE loaded'[s] = Table[s]
    OBVIOUS
  <2>1. CASE s \in S
    BY <1>2, <2>1, StartAllFacts
  <2>2. CASE s \notin S
    BY <1>3, <2>2, StartAllFacts DEF Kept, BotsCurrent
  <2>3. QED
    BY <2>1, <2>2
<1>5. \A s \in up' : snap'[s] = "gone" => held'[s] = None
  <2> SUFFICES ASSUME NEW s \in up', snap'[s] = "gone" PROVE held'[s] = None
    OBVIOUS
  <2>1. CASE s \in S
    BY <2>1, StartAllFacts
  <2>2. CASE s \notin S
    BY <1>3, <2>2, StartAllFacts DEF Kept, NoneUnsaved
  <2>3. QED
    BY <2>1, <2>2
<1>6. \A s \in Segments : held'[s] \in {None, held[s]}
  BY StartAllFacts
<1>7. QED
  BY <1>2, <1>4, <1>5, <1>6, KeptByShrinking

\* At work with the procedure kept, a repair of the books finds no position.
LEMMA RepairKept ==
    ASSUME TypeOK, Kept, pc # "idle", pc # "patched", UNCHANGED <<rates, bots, phase>>,
           \A s \in Segments : held'[s] \in {None, held[s]}
    PROVE  Kept'
<1>1. Table' = Table
  BY SameTable
<1>2. \A s \in Segments : held'[s] = None
  BY DEF Kept, NoneAtWork
<1>3. up' = up /\ loaded' = loaded /\ up \subseteq Segments
  BY DEF bots, TypeOK
<1>4. \A s \in up' : loaded'[s] = Table[s]
  BY <1>3 DEF Kept, BotsCurrent
<1>5. \A s \in up' : snap'[s] = "gone" => held'[s] = None
  BY <1>2, <1>3
<1>6. QED
  BY <1>1, <1>4, <1>5, KeptByShrinking

LEMMA KeptStep == IInv /\ [Next]_vars => (~excused => Kept)'
<1> SUFFICES ASSUME TypeOK, CopyIsWhole, ~excused => Kept, [Next]_vars, ~(excused')
             PROVE  Kept'
  BY DEF IInv
<1> USE DEF script, rates, books, bots
<1>1. CASE Begin
  <2>1. Kept /\ phase # "market" /\ ~SeenOpen(TRUE)
    BY <1>1 DEF Begin, Options
  <2>2. \A s \in Segments : held[s] = None
    BY <2>1 DEF SeenOpen, Kept, NoneUnsaved, TypeOK
  <2>3. UNCHANGED <<rates, books, bots, phase>> /\ pc = "idle" /\ pc' = "checked"
    BY <1>1 DEF Begin
  <2>4. UnderTable' /\ NoneUnsaved'
    BY <2>1, <2>3, SameTable DEF Kept, UnderTable, NoneUnsaved
  <2>5. BotsCurrent'
    BY <2>1, <2>3, SameTable DEF Kept, BotsCurrent
  <2>6. NoneAtWork'
    BY <2>1, <2>2, <2>3 DEF NoneAtWork
  <2>7. QED
    BY <2>4, <2>5, <2>6 DEF Kept
<1>2. CASE NothingToPatch \/ BackUp
  <2>1. Kept /\ pc = "checked" /\ pc' \in {"idle", "saved"}
        /\ UNCHANGED <<file, books, bots, phase>>
    BY <1>2 DEF NothingToPatch, BackUp
  <2>2. Table' = Table
    BY <1>2, <2>1 DEF NothingToPatch, BackUp, CopyIsWhole, Table
  <2>3. up \subseteq Segments
    BY DEF TypeOK
  <2>4. QED
    BY <2>1, <2>2, <2>3, KeptByShrinking DEF Kept, BotsCurrent, NoneUnsaved
<1>3. CASE Write
  <2>1. Kept /\ pc = "saved" /\ pc' = "patched" /\ UNCHANGED <<books, bots, phase>>
    BY <1>3 DEF Write
  <2>2. phase # "market" /\ \A s \in Segments : held[s] = None
    BY <2>1 DEF Kept, NoneAtWork
  <2>3. QED
    BY <2>1, <2>2 DEF Kept, UnderTable, BotsCurrent, NoneAtWork, NoneUnsaved
<1>4. CASE Decline
  BY <1>4 DEF Decline
<1>5. CASE StopBots
  <2>4. ~excused /\ Victims = up
    BY <1>5, Zenon DEF StopBots
  <2>1. Kept /\ pc = "patched" /\ pc' = "stopped" /\ UNCHANGED <<rates, phase>>
    BY <1>5, <2>4 DEF StopBots
  <2>2. up' = {} /\ \A s \in Segments : held'[s] \in {None, held[s]}
    BY <1>5, <2>4, StopFacts DEF Victims, TypeOK
  <2>3. QED
    BY <2>1, <2>2, SameTable, KeptByShrinking
<1>6. CASE CleanIfSuspicious
  <2>1. Kept /\ pc = "stopped" /\ UNCHANGED <<rates, bots, phase>>
    BY <1>6 DEF CleanIfSuspicious
  <2>2. \A s \in Segments : held'[s] \in {None, held[s]}
    BY <1>6, CleanEquityFacts DEF CleanIfSuspicious
  <2>3. QED
    BY <2>1, <2>2, RepairKept
<1>7. CASE Wipe
  <2>1. Kept /\ pc = "cleaned" /\ UNCHANGED <<rates, bots, phase>>
    BY <1>7 DEF Wipe
  <2>2. \A s \in Segments : held'[s] \in {None, held[s]}
    BY <1>7, WipeFacts DEF Wipe
  <2>3. QED
    BY <2>1, <2>2, RepairKept
<1>8. CASE Launch
  <2>1. Kept /\ StartAll(Segments \ up) /\ UNCHANGED <<rates, phase>> /\ pc = "wiped" /\ pc' = "idle"
    BY <1>8 DEF Launch
  <2>2. QED
    BY <2>1, StartAllKept
<1>9. CASE Interrupt
  <2>1. Kept /\ pc \in {"checked", "saved"} /\ pc' = "idle" /\ UNCHANGED <<books, bots, phase>>
    BY <1>9 DEF Interrupt
  <2>2. file # <<>>
    BY <2>1 DEF CopyIsWhole
  <2>3. Table' = Table
    BY <1>9, <2>1, <2>2 DEF Interrupt, CopyIsWhole, Table
  <2>4. up \subseteq Segments
    BY DEF TypeOK
  <2>5. QED
    BY <2>1, <2>3, <2>4, KeptByShrinking DEF Kept, BotsCurrent, NoneUnsaved
<1>10. CASE PutBack
  <2>1. Kept /\ UNCHANGED <<pc, books, bots, phase>>
    BY <1>10 DEF PutBack
  <2>2. backup \in Tables /\ backup # <<>>
    BY <1>10, NoTableIsEmpty DEF PutBack, CopyIsWhole
  <2>3. Table' = Table
    BY <1>10, <2>2 DEF PutBack, Table
  <2>4. up \subseteq Segments
    BY DEF TypeOK
  <2>5. QED
    BY <2>1, <2>3, <2>4, KeptByShrinking DEF Kept, BotsCurrent, NoneUnsaved
<1>11. CASE ByHand
  BY <1>11 DEF ByHand
<1>12. CASE ClockTurns
  <2>1. Kept /\ pc = "idle" /\ UNCHANGED <<script, rates, bots, held>>
    BY <1>12 DEF ClockTurns
  <2>2. \A s \in Segments : snap'[s] = "gone" => snap[s] = "gone"
    BY <1>12 DEF ClockTurns, TypeOK
  <2>3. up \subseteq Segments
    BY DEF TypeOK
  <2>4. QED
    BY <2>1, <2>2, <2>3, SameTable, KeptByShrinking DEF Kept, BotsCurrent, NoneUnsaved
<1>13. ASSUME NEW s \in Segments, Start(s) PROVE Kept'
  <2>1. Kept /\ StartAll({s}) /\ UNCHANGED <<script, rates, phase>>
    BY <1>13 DEF Start
  <2>2. QED
    BY <2>1, StartAllKept
<1>14. ASSUME NEW s \in Segments, Crash(s) PROVE Kept'
  <2>1. Kept /\ UNCHANGED <<script, rates, snap, phase>>
    BY <1>14 DEF Crash
  <2>2. \A r \in Segments : held'[r] \in {None, held[r]}
    BY <1>14 DEF Crash, TypeOK
  <2>3. up' \subseteq up /\ up \subseteq Segments /\ \A r \in up' : loaded'[r] = loaded[r]
    BY <1>14 DEF Crash, TypeOK
  <2>4. \A r \in up' : snap'[r] = "gone" => held'[r] = None
    BY <2>1, <2>2, <2>3 DEF Kept, NoneUnsaved
  <2>5. QED
    BY <2>1, <2>2, <2>3, <2>4, SameTable, KeptByShrinking DEF Kept, BotsCurrent
<1>15. ASSUME NEW s \in Segments, Open(s) PROVE Kept'
  <2>1. Kept /\ UNCHANGED <<script, rates, bots, phase>> /\ phase = "market"
    BY <1>15 DEF Open
  <2>2. pc = "idle"
    BY <2>1 DEF Kept, NoneAtWork
  <2>3. loaded[s] = Table[s]
    BY <1>15, <2>1, <2>2 DEF Open, Kept, BotsCurrent
  <2>4. UnderTable'
    BY <1>15, <2>1, <2>3, SameTable DEF Open, Kept, UnderTable, TypeOK
  <2>5. NoneUnsaved'
    BY <1>15, <2>1 DEF Open, Kept, NoneUnsaved, TypeOK
  <2>6. BotsCurrent' /\ NoneAtWork'
    BY <2>1, <2>2, SameTable DEF Kept, BotsCurrent, NoneAtWork
  <2>7. QED
    BY <2>4, <2>5, <2>6 DEF Kept
<1>16. ASSUME NEW s \in Segments, Close(s) PROVE Kept'
  <2>1. Kept /\ UNCHANGED <<script, rates, bots, phase>>
    BY <1>16 DEF Close
  <2>2. \A r \in Segments : held'[r] \in {None, held[r]}
    BY <1>16 DEF Close, TypeOK
  <2>3. \A r \in up : snap'[r] = "gone" => held'[r] = None
    BY <1>16, <2>1 DEF Close, Kept, NoneUnsaved, TypeOK
  <2>4. QED
    BY <2>1, <2>2, <2>3, SameTable, KeptByShrinking DEF Kept, BotsCurrent
<1>17. CASE UNCHANGED vars
  <2>1. Kept /\ UNCHANGED <<pc, rates, books, bots, phase>>
    BY <1>17 DEF vars
  <2>2. QED
    BY <2>1, SameTable DEF Kept, UnderTable, BotsCurrent, NoneAtWork, NoneUnsaved
<1>18. QED
  BY <1>1, <1>2, <1>3, <1>4, <1>5, <1>6, <1>7, <1>8, <1>9, <1>10, <1>11, <1>12, <1>13, <1>14,
     <1>15, <1>16, <1>17 DEF Next, Script

LEMMA InvInit == Init => IInv
<1> SUFFICES ASSUME Init PROVE IInv
  OBVIOUS
<1>1. file \in Tables /\ file # <<>>
  <2>1. file \in Tables
    BY FeeAssumption DEF Init, Tables
  <2>2. QED
    BY <2>1, NoTableIsEmpty
<1>2. CopyIsWhole
  BY <1>1 DEF Init, CopyIsWhole
<1>3. Kept
  BY DEF Init, Kept, UnderTable, BotsCurrent, NoneAtWork, NoneUnsaved
<1>4. QED
  BY <1>2, <1>3, TypeInit DEF IInv

LEMMA InvStep == IInv /\ [Next]_vars => IInv'
BY TypeStep, CopyStep, KeptStep DEF IInv

\* The books, the rates and the script stay well typed.
THEOREM TypeCorrect == Spec => []TypeOK
BY TypeInit, TypeStep, PTL DEF Spec

\* While the procedure is kept, bots and positions are those of the table in
\* force, and no position is open while the script works.
THEOREM Invariance == Spec => []IInv
BY InvInit, InvStep, PTL DEF Spec

LEMMA KeptIsOneRate == IInv => OneRatePerPosition
<1> SUFFICES ASSUME TypeOK, ~excused, Kept, NEW s \in up PROVE held[s] \in {None, loaded[s]}
  BY DEF IInv, OneRatePerPosition
<1>1. CASE pc = "patched"
  BY <1>1 DEF Kept, NoneAtWork, TypeOK
<1>2. CASE pc # "patched"
  BY <1>2 DEF Kept, UnderTable, BotsCurrent, TypeOK
<1>3. QED
  BY <1>1, <1>2

\* A bot closes a position under the rate it opened it under, whatever crashes,
\* restarts and audits come between, unless somebody left the procedure or the
\* stop missed a bot.
THEOREM OneRate == Spec => []OneRatePerPosition
BY Invariance, KeptIsOneRate, PTL

\* Whenever the rates file is half written, the copy is a whole table.
THEOREM CopyRecovers == Spec => []Recoverable
<1>1. IInv => Recoverable
  BY DEF IInv, CopyIsWhole, Recoverable, Tables
<1>2. QED
  BY <1>1, Invariance, PTL

LEMMA ClosedStep ==
    ASSUME IInv, Next, NEW s \in Segments, held[s] # None, held'[s] = None
    PROVE  s \in up \/ (s \in up') \/ (excused')
<1> SUFFICES ASSUME ~(excused') PROVE s \in up \/ (s \in up')
  OBVIOUS
<1> USE DEF IInv, script, rates, books, bots
<1>1. CASE StopBots
  BY <1>1, StopFacts
<1>2. CASE CleanIfSuspicious \/ Wipe
  <2>1. excused' = excused /\ pc # "idle"
    BY <1>2 DEF CleanIfSuspicious, Wipe
  <2>2. ~excused
    BY <2>1, Zenon
  <2>3. QED
    BY <2>1, <2>2 DEF Kept, NoneAtWork
<1>3. CASE Launch
  BY <1>3, StartAllFacts DEF Launch
<1>4. ASSUME NEW r \in Segments, Start(r) PROVE s \in up'
  <2>1. StartAll({r})
    BY <1>4 DEF Start
  <2>2. s = r
    BY <2>1, StartAllFacts
  <2>3. QED
    BY <2>1, <2>2 DEF StartAll
<1>5. ASSUME NEW r \in Segments, Crash(r) \/ Open(r) \/ Close(r) PROVE s \in up
  BY <1>5 DEF Crash, Open, Close, TypeOK
<1>6. CASE ByHand
  BY <1>6 DEF ByHand
<1>7. CASE \/ Begin \/ NothingToPatch \/ BackUp \/ Write \/ Decline \/ Interrupt \/ PutBack \/ ClockTurns
  BY <1>7 DEF Begin, NothingToPatch, BackUp, Write, Decline, Interrupt, PutBack, ClockTurns
<1>8. QED
  BY <1>1, <1>2, <1>3, <1>4, <1>5, <1>6, <1>7 DEF Next, Script

\* No maintenance step makes a position disappear.
THEOREM NothingVanishes == Spec => PositionsAreClosed
<1>1. IInv /\ [Next]_vars
        => [\A s \in Segments : (held[s] # None /\ held'[s] = None) =>
              s \in up \/ (s \in up') \/ (excused')]_vars
  BY ClosedStep
<1>2. QED
  BY <1>1, Invariance, PTL DEF Spec, PositionsAreClosed

-------------------------------------------------------------------------------
(* The audit: what agrees.                                                 *)

LEMMA AgreesWithItself == \A a \in Nat : Agree(a, a)
BY DEF Agree, Within

LEMMA AgreeBothWays == \A a, b \in Nat : Agree(a, b) => Agree(b, a)
BY DEF Agree, Within

\* What is close to what is close is within twice the tolerance.
LEMMA AgreeTwice == \A a, b, c \in Nat : Agree(a, b) /\ Agree(b, c) => Within(a, c, 10)
BY DEF Agree, Within

-------------------------------------------------------------------------------
(* The clusters.                                                           *)

AreReadings(v) == \A i \in DOMAIN v : i \in 1..3 /\ v[i] \in Nat

\* Some of three numbers have a least one.
LEMMA LeastOfThree ==
    ASSUME NEW S, \A i \in S : i \in 1..3, S # {}
    PROVE  Min(S) \in S /\ \A i \in S : Min(S) <= i
<1>1. \E x \in S : \A y \in S : x <= y
  <2>1. CASE 1 \in S
    BY <2>1
  <2>2. CASE 1 \notin S /\ 2 \in S
    BY <2>2
  <2>3. CASE 1 \notin S /\ 2 \notin S
    <3>1. \A i \in S : i = 3
      BY <2>3
    <3>2. QED
      BY <3>1
  <2>4. QED
    BY <2>1, <2>2, <2>3
<1>2. QED
  BY <1>1 DEF Min

\* The least of a set is what is in it and below all.
LEMMA LeastIs ==
    ASSUME NEW S, NEW x \in S, x \in Int, \A y \in S : y \in Int /\ x <= y
    PROVE  Min(S) = x
<1> DEFINE m == Min(S)
<1>1. m \in S /\ \A y \in S : m <= y
  BY DEF Min
<1> HIDE DEF m
<1>2. m \in Int /\ m <= x /\ x <= m
  BY <1>1
<1>3. m = x
  BY <1>2
<1>4. QED
  BY <1>3 DEF m

LEMMA GreatestIs ==
    ASSUME NEW S, NEW x \in S, x \in Int, \A y \in S : y \in Int /\ y <= x
    PROVE  Max(S) = x
<1> DEFINE m == Max(S)
<1>1. m \in S /\ \A y \in S : m >= y
  BY DEF Max
<1> HIDE DEF m
<1>2. m \in Int /\ m <= x /\ x <= m
  BY <1>1
<1>3. m = x
  BY <1>2
<1>4. QED
  BY <1>3 DEF m

FirstHeads(v, H, n) ==
  H \cup (IF n \in DOMAIN v /\ \A h \in H : ~Agree(v[h], v[n]) THEN {n} ELSE {})

\* The loop over the three sources.
LEMMA HeadsByStep ==
    ASSUME NEW v
    PROVE  Heads(v) = FirstHeads(v, FirstHeads(v, FirstHeads(v, {}, 1), 2), 3)
<1> DEFINE H1 == FirstHeads(v, {}, 1)
           H2 == FirstHeads(v, H1, 2)
           H3 == FirstHeads(v, H2, 3)
           Step(f) == [n \in 0..Len(Sources) |->
                         IF n = 0 THEN {} ELSE FirstHeads(v, f[n - 1], n)]
           g == [n \in 0..3 |-> IF n = 0 THEN {} ELSE IF n = 1 THEN H1 ELSE IF n = 2 THEN H2 ELSE H3]
<1>1. Len(Sources) = 3
  BY DEF Sources
<1>2. HeadsUpTo(v) = CHOOSE f : f = Step(f)
  BY DEF HeadsUpTo, FirstHeads
<1> HIDE DEF H1, H2, H3
<1>3. g = Step(g)
  <2>1. g[0] = {} /\ g[1] = H1 /\ g[2] = H2 /\ g[3] = H3
    OBVIOUS
  <2> HIDE DEF g
  <2>2. H1 = FirstHeads(v, {}, 1) /\ H2 = FirstHeads(v, H1, 2) /\ H3 = FirstHeads(v, H2, 3)
    BY DEF H1, H2, H3
  <2>3. \A n \in 0..3 : g[n] = IF n = 0 THEN {} ELSE FirstHeads(v, g[n - 1], n)
    BY <2>1, <2>2
  <2>4. g = [n \in 0..3 |-> g[n]]
    BY DEF g
  <2>5. QED
    BY <1>1, <2>3, <2>4
<1> HIDE DEF g
<1>4. HeadsUpTo(v) = Step(HeadsUpTo(v))
  BY <1>2, <1>3
<1> DEFINE f == HeadsUpTo(v)
<1>5. f[0] = {} /\ f[1] = FirstHeads(v, f[0], 1) /\ f[2] = FirstHeads(v, f[1], 2)
        /\ f[3] = FirstHeads(v, f[2], 3)
  BY <1>1, <1>4
<1>6. QED
  BY <1>1, <1>5 DEF Heads, H1, H2, H3

\* The heads are the readings that are close to no earlier head.
LEMMA HeadsAre ==
    ASSUME NEW v, AreReadings(v)
    PROVE  /\ \A h \in Heads(v) : h \in DOMAIN v
           /\ \A i \in DOMAIN v :
                i \in Heads(v) <=> \A h \in Heads(v) : h < i => ~Agree(v[h], v[i])
<1> DEFINE H1 == FirstHeads(v, {}, 1)
           H2 == FirstHeads(v, H1, 2)
           H3 == FirstHeads(v, H2, 3)
<1>1. \A h : h \in H1 <=> h = 1 /\ 1 \in DOMAIN v
  BY DEF FirstHeads
<1>2. \A h : h \in H2 <=> h \in H1 \/ (h = 2 /\ 2 \in DOMAIN v /\ \A k \in H1 : ~Agree(v[k], v[2]))
  BY DEF FirstHeads
<1>3. \A h : h \in H3 <=> h \in H2 \/ (h = 3 /\ 3 \in DOMAIN v /\ \A k \in H2 : ~Agree(v[k], v[3]))
  BY DEF FirstHeads
<1>4. Heads(v) = H3
  BY HeadsByStep
<1> HIDE DEF H1, H2, H3
<1>5. \A h \in H3 : h \in DOMAIN v
  BY <1>1, <1>2, <1>3
<1>6. \A h : /\ h \in H1 <=> h \in H3 /\ h = 1
             /\ h \in H2 <=> h \in H3 /\ (h = 1 \/ h = 2)
  BY <1>1, <1>2, <1>3
<1>7. \A h \in H3 : h \in 1..3
  BY <1>5 DEF AreReadings
<1>8. ASSUME NEW i \in DOMAIN v
      PROVE  i \in H3 <=> \A h \in H3 : h < i => ~Agree(v[h], v[i])
  <2>1. CASE i = 1
    BY <2>1, <1>1, <1>6, <1>7
  <2>2. CASE i = 2
    <3>1. \A h \in H3 : h < 2 <=> h \in H1
      BY <1>6, <1>7
    <3>2. 2 \in H3 <=> \A k \in H1 : ~Agree(v[k], v[2])
      BY <2>2, <1>1, <1>2, <1>6
    <3>3. QED
      BY <2>2, <3>1, <3>2, <1>6
  <2>3. CASE i = 3
    <3>1. \A h \in H3 : h < 3 <=> h \in H2
      BY <1>6, <1>7
    <3>2. 3 \in H3 <=> \A k \in H2 : ~Agree(v[k], v[3])
      BY <2>3, <1>3, <1>6
    <3>3. QED
      BY <2>3, <3>1, <3>2, <1>6
  <2>4. QED
    BY <2>1, <2>2, <2>3 DEF AreReadings
<1>9. QED
  BY <1>4, <1>5, <1>8

\* Every reading joins the first cluster it is close to.
LEMMA HeadOfIs ==
    ASSUME NEW v, AreReadings(v), NEW i \in DOMAIN v
    PROVE  /\ HeadOf(v, i) \in Heads(v) /\ HeadOf(v, i) <= i
           /\ Agree(v[HeadOf(v, i)], v[i])
           /\ \A h \in Heads(v) : Agree(v[h], v[i]) => HeadOf(v, i) <= h
<1> DEFINE S == {h \in Heads(v) : Agree(v[h], v[i])}
<1>1. \A h \in S : h \in 1..3 /\ h \in Heads(v)
  BY HeadsAre DEF AreReadings
<1>2. \E h \in S : h <= i
  <2>1. CASE i \in Heads(v)
    <3>1. i \in S
      BY <2>1, AgreesWithItself DEF AreReadings
    <3>2. QED
      BY <3>1, <1>1
  <2>2. CASE i \notin Heads(v)
    <3>1. PICK h \in Heads(v) : h < i /\ Agree(v[h], v[i])
      BY <2>2, HeadsAre
    <3>2. h \in S /\ h \in 1..3 /\ i \in 1..3
      BY <3>1, <1>1 DEF AreReadings
    <3>3. QED
      BY <3>1, <3>2
  <2>3. QED
    BY <2>1, <2>2
<1>3. Min(S) \in S /\ \A h \in S : Min(S) <= h
  <2> HIDE DEF S
  <2>1. S # {}
    BY <1>2
  <2>2. QED
    BY <1>1, <2>1, LeastOfThree
<1>4. HeadOf(v, i) = Min(S)
  BY DEF HeadOf
<1>5. i \in 1..3 /\ Min(S) \in 1..3
  BY <1>1, <1>3 DEF AreReadings
<1>6. Min(S) <= i
  BY <1>1, <1>2, <1>3, <1>5
<1>7. QED
  BY <1>3, <1>4, <1>6

\* Equal readings are in the same cluster.
LEMMA EqualsTogether ==
    ASSUME NEW v, NEW i, NEW j, v[i] = v[j]
    PROVE  HeadOf(v, i) = HeadOf(v, j)
BY DEF HeadOf

LEMMA NumbersUpTo ==
    ASSUME NEW n \in Nat
    PROVE  IsFiniteSet(1..n) /\ Cardinality(1..n) = n
<1>1. 1 \in Int /\ n \in Int
  OBVIOUS
<1>2. IsFiniteSet(1..n) /\ Cardinality(1..n) = IF 1 > n THEN 0 ELSE n - 1 + 1
  BY <1>1, FS_Interval, Zenon
<1>3. QED
  BY <1>2

LEMMA Counts ==
    ASSUME NEW v, AreReadings(v), NEW S, \A i \in S : i \in DOMAIN v
    PROVE  IsFiniteSet(S) /\ Cardinality(S) \in Nat /\ Cardinality(S) <= 3
<1>1. IsFiniteSet(1..3) /\ Cardinality(1..3) = 3
  BY NumbersUpTo
<1>2. S \in SUBSET (1..3)
  BY DEF AreReadings
<1>3. QED
  BY <1>1, <1>2, FS_Subset, FS_CardinalityType

LEMMA CountsGrow ==
    ASSUME NEW v, AreReadings(v), NEW S, NEW T,
           \A i \in S : i \in T, \A i \in T : i \in DOMAIN v
    PROVE  Cardinality(S) <= Cardinality(T)
<1>1. IsFiniteSet(T)
  BY Counts
<1>2. S \in SUBSET T
  OBVIOUS
<1>3. QED
  BY <1>1, <1>2, FS_Subset

\* One of the clusters is the largest, and the verdict names the first such.
LEMMA BiggestIs ==
    ASSUME NEW v, AreReadings(v), DOMAIN v # {}
    PROVE  /\ Biggest(v) \in Heads(v)
           /\ \A g \in Heads(v) : Cardinality(Cluster(v, g)) <= Cardinality(Cluster(v, Biggest(v)))
<1> DEFINE Size(h) == Cardinality(Cluster(v, h))
           S == {h \in Heads(v) : \A g \in Heads(v) : Size(g) <= Size(h)}
<1>1. \A h : Size(h) \in Nat
  <2> TAKE h
  <2>1. \A i \in Cluster(v, h) : i \in DOMAIN v
    BY DEF Cluster
  <2>2. QED
    BY <2>1, Counts
<1>2. \A h \in Heads(v) : h \in 1..3
  BY HeadsAre DEF AreReadings
<1>3. Heads(v) # {}
  BY HeadOfIs
<1>4. S # {}
  <2>1. \A h \in Heads(v) : h = 1 \/ h = 2 \/ h = 3
    BY <1>2
  <2>2. Size(1) \in Nat /\ Size(2) \in Nat /\ Size(3) \in Nat
    BY <1>1
  <2> HIDE DEF Size
  <2>3. \E h \in Heads(v) : \A g \in Heads(v) : Size(g) <= Size(h)
    BY <1>3, <2>1, <2>2
  <2>4. QED
    BY <2>3
<1>5. Min(S) \in S
  <2>1. \A h \in S : h \in 1..3
    BY <1>2
  <2> HIDE DEF S
  <2>2. QED
    BY <1>4, <2>1, LeastOfThree
<1>6. Biggest(v) = Min(S)
  BY DEF Biggest
<1>7. QED
  BY <1>5, <1>6

\* If there is one cluster every reading is close to its head.
LEMMA OneCluster ==
    ASSUME NEW v, AreReadings(v), DOMAIN v # {}, ~(Cardinality(Heads(v)) > 1)
    PROVE  \A i \in DOMAIN v : Agree(v[Biggest(v)], v[i])
<1>1. \A h \in Heads(v) : h \in DOMAIN v
  BY HeadsAre
<1>2. IsFiniteSet(Heads(v)) /\ Cardinality(Heads(v)) \in Nat
  BY <1>1, Counts
<1>3. Biggest(v) \in Heads(v)
  BY BiggestIs
<1>4. Cardinality(Heads(v)) # 0
  BY <1>2, <1>3, FS_EmptySet
<1>5. Cardinality(Heads(v)) = 1
  BY <1>2, <1>4
<1>6. PICK x : Heads(v) = {x}
  BY <1>2, <1>5, FS_Singleton
<1>7. QED
  BY <1>3, <1>6, HeadOfIs

\* If every reading is the same there is one cluster.
LEMMA AllTheSame ==
    ASSUME NEW v, AreReadings(v), NEW x, \A i \in DOMAIN v : v[i] = x
    PROVE  ~(Cardinality(Heads(v)) > 1)
<1>1. \A g, h \in Heads(v) : g = h
  <2> SUFFICES ASSUME NEW g \in Heads(v), NEW h \in Heads(v), g # h PROVE FALSE
    OBVIOUS
  <2>1. g \in DOMAIN v /\ h \in DOMAIN v
    BY HeadsAre
  <2>2. g \in 1..3 /\ h \in 1..3 /\ v[g] = x /\ v[h] = x /\ x \in Nat
    BY <2>1 DEF AreReadings
  <2>3. Agree(v[g], v[h]) /\ Agree(v[h], v[g])
    BY <2>2, AgreesWithItself
  <2>4. g < h \/ h < g
    BY <2>2
  <2>5. QED
    BY <2>1, <2>3, <2>4, HeadsAre
<1>2. CASE Heads(v) = {}
  BY <1>2, FS_EmptySet
<1>3. CASE Heads(v) # {}
  <2>1. PICK h : h \in Heads(v)
    BY <1>3
  <2>2. Heads(v) = {h}
    BY <1>1, <2>1
  <2>3. QED
    BY <2>2, FS_Singleton
<1>4. QED
  BY <1>2, <1>3

-------------------------------------------------------------------------------
(* The pages.                                                              *)

PageRow == [label : {"stt", "gst", "unreachable"}, from : Nat, cells : Seq(Nat)]

LEMMA RowTyped ==
    ASSUME NEW l \in {"stt", "gst", "unreachable"}, NEW from \in Nat, NEW cells \in Seq(Nat)
    PROVE  Row(l, from, cells) \in PageRow
BY DEF Row, PageRow

LEMMA RemoveTyped ==
    ASSUME NEW S, NEW s \in Seq(S), NEW i \in 1..Len(s)
    PROVE  RemoveAt(s, i) \in Seq(S)
<1>1. Len(s) \in Nat /\ \A k \in 1..Len(s) : s[k] \in S
  BY LenProperties, ElementOfSeq
<1>2. SubSeq(s, 1, i - 1) \in Seq(S)
  <2>1. \A k \in 1..(i - 1) : s[k] \in S
    BY <1>1
  <2>2. 1 \in Int /\ i - 1 \in Int
    BY <1>1
  <2>3. QED
    BY <2>1, <2>2, SubSeqProperties
<1>3. SubSeq(s, i + 1, Len(s)) \in Seq(S)
  <2>1. \A k \in (i + 1)..Len(s) : s[k] \in S
    BY <1>1
  <2>2. i + 1 \in Int /\ Len(s) \in Int
    BY <1>1
  <2>3. QED
    BY <2>1, <2>2, SubSeqProperties
<1>4. QED
  BY <1>2, <1>3, ConcatProperties DEF RemoveAt

LEMMA UnreachableTyped == Unreachable \in Seq(PageRow)
<1>1. Row("unreachable", 0, <<>>) \in PageRow
  <2>1. <<>> \in Seq(Nat)
    BY EmptySeq
  <2>2. QED
    BY <2>1, RowTyped
<1>2. QED
  BY <1>1 DEF Unreachable

LEMMA RatesInForce ==
    ASSUME NEW d \in 1..LastDay, NEW r \in Rates
    PROVE  LawOf(r, d) \in Nat
BY AuditAssumption

LEMMA RowsTyped ==
    ASSUME NEW d \in 1..LastDay
    PROVE  /\ Full(d) \in Seq(Nat) /\ Gst(d) \in PageRow
           /\ \A from \in Nat : Row("stt", from, Full(d)) \in PageRow
           /\ Row("stt", 0, <<Delivery, LawOf("equity", d), Delivery>>) \in PageRow
<1>1. \A r \in Rates : LawOf(r, d) \in Nat
  BY RatesInForce
<1>2. /\ LawOf("equity", d) \in Nat /\ LawOf("futures", d) \in Nat
      /\ LawOf("options", d) \in Nat /\ LawOf("gst", d) \in Nat
  BY <1>1 DEF Rates
<1>3. Delivery \in Nat
  BY AuditAssumption
<1>4. Full(d) \in Seq(Nat)
  BY <1>2, <1>3 DEF Full
<1>5. <<LawOf("gst", d)>> \in Seq(Nat) /\ <<Delivery, LawOf("equity", d), Delivery>> \in Seq(Nat)
  BY <1>2, <1>3
<1>6. Gst(d) \in PageRow
  BY <1>5, RowTyped DEF Gst
<1>7. \A from \in Nat : Row("stt", from, Full(d)) \in PageRow
  BY <1>4, RowTyped
<1>8. Row("stt", 0, <<Delivery, LawOf("equity", d), Delivery>>) \in PageRow
  BY <1>5, RowTyped
<1>9. QED
  BY <1>4, <1>6, <1>7, <1>8

\* Upstox's page: its dated rows and the one of the GST.
LEMMA UpstoxPage ==
    ASSUME NEW d \in 1..LastDay
    PROVE  /\ HonestPage("upstox", d) \in Seq(PageRow)
           /\ Announced(d) \in 1..LastDay /\ d <= Announced(d)
           /\ DOMAIN HonestPage("upstox", d) = 1..(Announced(d) + 1)
           /\ \A e \in 1..Announced(d) : HonestPage("upstox", d)[e] = Row("stt", e, Full(e))
           /\ HonestPage("upstox", d)[Announced(d) + 1] = Gst(d)
<1> DEFINE n == Announced(d)
           rows == [e \in 1..n |-> Row("stt", e, Full(e))]
<1>1. n \in 1..LastDay /\ d <= n /\ n \in Nat
  BY AuditAssumption DEF Announced
<1>2. HonestPage("upstox", d) = Append(rows, Gst(d))
  BY DEF HonestPage
<1> HIDE DEF n
<1>3. rows \in Seq(PageRow)
  <2>1. \A e \in 1..n : rows[e] \in PageRow
    <3>1. \A e \in 1..n : e \in 1..LastDay /\ e \in Nat
      BY <1>1, AuditAssumption
    <3>2. QED
      BY <3>1, RowsTyped
  <2>2. rows \in [1..n -> PageRow]
    BY <2>1
  <2>3. QED
    BY <1>1, <2>2, SeqDef
<1>4. Len(rows) = n /\ \A e \in 1..n : rows[e] = Row("stt", e, Full(e))
  BY <1>1, <1>3, LenProperties
<1> HIDE DEF rows
<1>5. Gst(d) \in PageRow
  BY RowsTyped
<1>6. /\ Append(rows, Gst(d)) \in Seq(PageRow)
      /\ Len(Append(rows, Gst(d))) = n + 1
      /\ \A e \in 1..n : Append(rows, Gst(d))[e] = rows[e]
      /\ Append(rows, Gst(d))[n + 1] = Gst(d)
  BY <1>3, <1>4, <1>5, AppendProperties
<1>7. DOMAIN Append(rows, Gst(d)) = 1..(n + 1)
  BY <1>6, LenProperties
<1>8. QED
  BY <1>1, <1>2, <1>4, <1>6, <1>7 DEF n

LEMMA OtherPages ==
    ASSUME NEW d \in 1..LastDay
    PROVE  /\ HonestPage("zerodha", d) = <<Row("stt", 0, Full(d)), Gst(d)>>
           /\ HonestPage("dhan", d) =
                <<Row("stt", 0, <<Delivery, LawOf("equity", d), Delivery>>), Gst(d)>>
BY DEF HonestPage

Names == {"zerodha", "upstox", "dhan"}

LEMMA HonestTyped ==
    ASSUME NEW d \in 1..LastDay, NEW s \in Names
    PROVE  HonestPage(s, d) \in Seq(PageRow)
<1>1. 0 \in Nat
  OBVIOUS
<1>2. HonestPage("zerodha", d) \in Seq(PageRow) /\ HonestPage("dhan", d) \in Seq(PageRow)
  <2>1. /\ Row("stt", 0, Full(d)) \in PageRow /\ Gst(d) \in PageRow
        /\ Row("stt", 0, <<Delivery, LawOf("equity", d), Delivery>>) \in PageRow
    BY <1>1, RowsTyped
  <2> HIDE DEF PageRow
  <2>2. \A a, b \in PageRow : <<a, b>> \in Seq(PageRow)
    OBVIOUS
  <2>3. QED
    BY <2>1, <2>2, OtherPages
<1>3. HonestPage("upstox", d) \in Seq(PageRow)
  BY UpstoxPage
<1>4. QED
  BY <1>2, <1>3 DEF Names

\* A row with a mistake in its cells still shows percentages.
LEMMA SpoiledCellsTyped ==
    ASSUME NEW cells \in Seq(Nat), NEW new \in SpoiledCells(cells)
    PROVE  new \in Seq(Nat)
<1>1. \A w \in Wrong : w \in Nat
  BY AuditAssumption
<1>2. ASSUME NEW j \in 1..Len(cells), new = RemoveAt(cells, j) PROVE new \in Seq(Nat)
  BY <1>2, RemoveTyped
<1>3. ASSUME NEW j \in 1..Len(cells), NEW w \in Wrong, new = [cells EXCEPT ![j] = w]
      PROVE  new \in Seq(Nat)
  BY <1>1, <1>3, ExceptSeq
<1>4. ASSUME NEW w \in Wrong, new = <<w>> \o cells PROVE new \in Seq(Nat)
  <2>1. <<w>> \in Seq(Nat)
    BY <1>1
  <2>2. QED
    BY <1>4, <2>1, ConcatProperties
<1> DEFINE A == {RemoveAt(cells, j) : j \in 1..Len(cells)}
           B == {[cells EXCEPT ![j] = w] : j \in 1..Len(cells), w \in Wrong}
           C == {<<w>> \o cells : w \in Wrong}
<1>5. CASE new \in B
  <2>1. PICK j \in 1..Len(cells), w \in Wrong : new = [cells EXCEPT ![j] = w]
    BY <1>5, SMT
  <2>2. QED
    BY <1>3, <2>1
<1>6. CASE new \in A
  BY <1>2, <1>6
<1>7. CASE new \in C
  BY <1>4, <1>7
<1>8. SpoiledCells(cells) = A \cup B \cup C
  BY DEF SpoiledCells
<1> HIDE DEF A, B, C
<1>9. QED
  BY <1>5, <1>6, <1>7, <1>8

LEMMA SpoiledTyped ==
    ASSUME NEW page \in Seq(PageRow), NEW new \in Spoiled(page)
    PROVE  new \in Seq(PageRow)
<1>1. PICK i \in 1..Len(page) : new \in SpoiledAt(page, i)
  BY DEF Spoiled
<1> DEFINE row == page[i]
<1>2. row \in PageRow
  BY ElementOfSeq
<1>3. row.cells \in Seq(Nat) /\ row.label \in {"stt", "gst", "unreachable"} /\ row.from \in Nat
  BY <1>2 DEF PageRow
<1>4. CASE new = RemoveAt(page, i)
  BY <1>4, RemoveTyped
<1>5. CASE new = [page EXCEPT ![i] = Row(row.label, 0, row.cells)]
  <2>1. Row(row.label, 0, row.cells) \in PageRow
    BY <1>3, RowTyped
  <2>2. QED
    BY <1>5, <2>1, ExceptSeq
<1>6. ASSUME NEW cells \in SpoiledCells(row.cells),
             new = [page EXCEPT ![i] = Row(row.label, row.from, cells)]
      PROVE  new \in Seq(PageRow)
  <2>1. cells \in Seq(Nat)
    BY <1>3, SpoiledCellsTyped
  <2>2. Row(row.label, row.from, cells) \in PageRow
    BY <1>3, <2>1, RowTyped
  <2>3. QED
    BY <1>6, <2>2, ExceptSeq
<1>7. QED
  BY <1>1, <1>4, <1>5, <1>6 DEF SpoiledAt

\* Whatever the three pages are, they are pages.
LEMMA PagesTyped ==
    ASSUME NEW d \in 1..LastDay, NEW pages \in Pages(d), NEW s \in Names
    PROVE  pages[s] \in Seq(PageRow) /\ DOMAIN pages = Names
<1>1. \A o \in Names : \A p \in Spoiled(HonestPage(o, d)) : p \in Seq(PageRow)
  BY HonestTyped, SpoiledTyped
<1>2. \A o \in Names : \A p \in Whole(o, d) : p \in Seq(PageRow)
  <2> SUFFICES ASSUME NEW o \in Names, NEW p \in Whole(o, d) PROVE p \in Seq(PageRow)
    OBVIOUS
  <2>1. \A e \in 1..d : e \in 1..LastDay
    BY AuditAssumption
  <2>2. QED
    BY <2>1, HonestTyped, UnreachableTyped DEF Whole
<1>3. PICK S : pages \in
        [zerodha : IF "zerodha" \in S THEN Spoiled(HonestPage("zerodha", d)) ELSE Whole("zerodha", d),
         upstox : IF "upstox" \in S THEN Spoiled(HonestPage("upstox", d)) ELSE Whole("upstox", d),
         dhan : IF "dhan" \in S THEN Spoiled(HonestPage("dhan", d)) ELSE Whole("dhan", d)]
  BY DEF Pages
<1>4. DOMAIN pages = Names
  BY <1>3 DEF Names
<1>5. \A o \in Names : pages[o] \in Spoiled(HonestPage(o, d)) \cup Whole(o, d)
  BY <1>3 DEF Names
<1>6. QED
  BY <1>1, <1>2, <1>4, <1>5

-------------------------------------------------------------------------------
(* The readings.                                                           *)

\* What a parser reads is on the page, or nothing.
LEMMA ReadTyped ==
    ASSUME NEW page \in Seq(PageRow), NEW s, NEW i, NEW n
    PROVE  Read(s, page, i, n) \in Nat \cup {NoValue}
<1> DEFINE places == Nth(Places(s, page, i), n)
           p == CHOOSE p \in places : TRUE
<1>1. CASE i = 0 \/ places = {}
  BY <1>1 DEF Read
<1>2. CASE ~(i = 0 \/ places = {})
  <2>1. p \in places
    BY <1>2
  <2>2. p \in Places(s, page, i)
    BY <2>1 DEF Nth
  <2> HIDE DEF p
  <2>3. PICK k \in DOMAIN page : p \in {k} \X DOMAIN page[k].cells
    BY <2>2 DEF Places
  <2>4. p[1] = k /\ p[2] \in DOMAIN page[k].cells
    BY <2>3
  <2>5. page[k] \in PageRow
    BY LenProperties, ElementOfSeq
  <2>6. page[k].cells \in Seq(Nat)
    BY <2>5 DEF PageRow
  <2>7. page[k].cells[p[2]] \in Nat
    BY <2>4, <2>6, LenProperties, ElementOfSeq
  <2>8. Read(s, page, i, n) = page[p[1]].cells[p[2]]
    BY <1>2 DEF Read, p
  <2>9. QED
    BY <2>4, <2>7, <2>8
<1>3. QED
  BY <1>1, <1>2

LEMMA SourceNames == /\ Len(Sources) = 3 /\ \A i \in 1..3 : Sources[i] \in Names
                     /\ Sources[1] = "zerodha" /\ Sources[2] = "upstox" /\ Sources[3] = "dhan"
                     /\ ToSet(Sources) = Names
BY DEF Sources, Names, ToSet

\* The observations of a rate are readings of up to three sources.
LEMMA ReadingsTyped ==
    ASSUME NEW d \in 1..LastDay, NEW pages \in Pages(d), NEW r
    PROVE  AreReadings(Observed(pages, r, d))
<1> DEFINE value(i) == Parsed(Sources[i], pages[Sources[i]], r, d)
           Sees(i) == pages[Sources[i]] # Unreachable /\ Covers(Sources[i], r) /\ value(i) # NoValue
           v == Observed(pages, r, d)
<1>1. v = [i \in {i \in 1..Len(Sources) : Sees(i)} |-> value(i)]
  BY DEF Observed
<1>2. \A i \in 1..3 : value(i) \in Nat \cup {NoValue}
  <2> TAKE i \in 1..3
  <2>1. pages[Sources[i]] \in Seq(PageRow)
    BY SourceNames, PagesTyped
  <2>2. QED
    BY <2>1, ReadTyped DEF Parsed
<1> HIDE DEF value
<1>3. \A i \in DOMAIN v : i \in 1..3 /\ v[i] = value(i) /\ value(i) # NoValue
  BY <1>1, SourceNames
<1>4. QED
  BY <1>2, <1>3 DEF AreReadings

-------------------------------------------------------------------------------
(* The verdicts.                                                           *)

\* What the audit calls a rate, and the value it gives for it.
LEMMA VerdictIs ==
    ASSUME NEW v, AreReadings(v), NEW c, DOMAIN v # {}
    PROVE  /\ Verdict(c, v).value = v[Biggest(v)]
           /\ ~Drifted(Verdict(c, v)) <=>
                Verdict(c, v).verdict = "OK"
           /\ Verdict(c, v).verdict = "OK" <=>
                ~(Cardinality(Heads(v)) > 1) /\ Agree(v[Biggest(v)], c)
<1> HIDE DEF AreReadings
<1>1. CASE Cardinality(Heads(v)) > 1
  BY <1>1 DEF Verdict, Check, Drifted
<1>2. CASE ~(Cardinality(Heads(v)) > 1) /\ Agree(v[Biggest(v)], c)
  BY <1>2 DEF Verdict, Check, Drifted
<1>3. CASE ~(Cardinality(Heads(v)) > 1) /\ ~Agree(v[Biggest(v)], c)
  <2>1. Verdict(c, v) \in {Check("DRIFT_CONFIRMED", v[Biggest(v)]), Check("DRIFT_SINGLE", v[Biggest(v)])}
    BY <1>3 DEF Verdict
  <2>2. QED
    BY <1>3, <2>1 DEF Check, Drifted
<1>4. QED
  BY <1>1, <1>2, <1>3

LEMMA VerdictOfNone ==
    ASSUME NEW v, NEW c, DOMAIN v = {}
    PROVE  ~Drifted(Verdict(c, v))
BY DEF Verdict, Check, Drifted

LEMMA BiggestIsRead ==
    ASSUME NEW v, AreReadings(v), DOMAIN v # {}
    PROVE  Biggest(v) \in DOMAIN v /\ v[Biggest(v)] \in Nat
BY BiggestIs, HeadsAre DEF AreReadings

-------------------------------------------------------------------------------
(* The audit.                                                              *)

AuditInv ==
  /\ today \in 1..LastDay /\ config \in [Rates -> Nat]
  /\ latest # NoValue => \E pages \in Pages(today) : latest = Result(pages)

LEMMA Drift ==
    ASSUME NEW v, AreReadings(v), NEW c, Drifted(Verdict(c, v))
    PROVE  Verdict(c, v).value \in Nat
BY VerdictOfNone, VerdictIs, BiggestIsRead

\* What the last audit found is the verdict on what it read.
LEMMA LatestIs ==
    ASSUME AuditInv, latest # NoValue
    PROVE  \E pages \in Pages(today) :
             /\ latest.pages = pages
             /\ latest.status = Status(pages, latest.checks)
             /\ \A r \in Rates : /\ Readings(r) = Observed(pages, r, today)
                                 /\ AreReadings(Readings(r))
                                 /\ latest.checks[r] = Verdict(config[r], Readings(r))
<1>1. PICK pages \in Pages(today) : latest = Result(pages)
  BY DEF AuditInv
<1>2. /\ latest.pages = pages
      /\ latest.checks = [r \in Rates |-> Verdict(config[r], Observed(pages, r, today))]
      /\ latest.status = Status(pages, latest.checks)
  BY <1>1 DEF Result
<1>3. \A r \in Rates : Readings(r) = Observed(pages, r, today)
  BY <1>2 DEF Readings
<1>4. \A r \in Rates : AreReadings(Readings(r))
  BY <1>3, ReadingsTyped DEF AuditInv
<1>5. QED
  BY <1>2, <1>3, <1>4

LEMMA AuditInvInit == AuditInit => AuditInv
<1> SUFFICES ASSUME AuditInit PROVE AuditInv
  OBVIOUS
<1>1. 1 \in 1..LastDay /\ LastDay \in 1..LastDay
  BY AuditAssumption
<1>2. \A d \in {1, LastDay} : [r \in Rates |-> LawOf(r, d)] \in [Rates -> Nat]
  BY <1>1, RatesInForce
<1>3. QED
  BY <1>1, <1>2 DEF AuditInit, AuditInv

LEMMA AuditInvStep == AuditInv /\ [AuditNext]_audit => AuditInv'
<1> SUFFICES ASSUME AuditInv, [AuditNext]_audit PROVE AuditInv'
  OBVIOUS
<1>1. CASE Audit
  <2>1. PICK pages \in Pages(today) : latest' = Result(pages)
    BY <1>1 DEF Audit
  <2>2. today' = today /\ config' = config
    BY <1>1 DEF Audit
  <2>3. Result(pages) = Result(pages)'
    BY <2>2 DEF Result
  <2>4. QED
    BY <2>1, <2>2, <2>3 DEF AuditInv
<1>2. CASE Patch
  <2>1. latest # NoValue /\ config' = Patched(latest.checks) /\ latest' = NoValue /\ today' = today
    BY <1>2 DEF Patch
  <2>2. \A r \in Rates : Drifted(latest.checks[r]) => latest.checks[r].value \in Nat
    BY <2>1, LatestIs, Drift
  <2>3. Patched(latest.checks) \in [Rates -> Nat]
    BY <2>2 DEF Patched, AuditInv
  <2>4. QED
    BY <2>1, <2>3 DEF AuditInv
<1>3. CASE NextDay
  BY <1>3, AuditAssumption DEF NextDay, AuditInv
<1>4. CASE UNCHANGED audit
  <2>1. today' = today /\ config' = config /\ latest' = latest
    BY <1>4 DEF audit
  <2>2. \A pages : Result(pages) = Result(pages)'
    BY <2>1 DEF Result
  <2>3. QED
    BY <2>1, <2>2 DEF AuditInv
<1>5. QED
  BY <1>1, <1>2, <1>3, <1>4 DEF AuditNext

\* An audit that reports OK has read nothing far from the rate in use.
LEMMA QuietFollows == AuditInv => QuietMeansNear
<1> SUFFICES ASSUME AuditInv, latest # NoValue, latest.status = "OK",
                    NEW r \in Rates, NEW i \in DOMAIN Readings(r)
             PROVE  Within(Readings(r)[i], config[r], 10)
  BY DEF QuietMeansNear
<1> DEFINE v == Readings(r)
           top == v[Biggest(v)]
<1>1. AreReadings(v) /\ DOMAIN v # {}
  BY LatestIs
<1>2. latest.checks[r] = Verdict(config[r], v) /\ ~Drifted(latest.checks[r])
  BY LatestIs DEF Status
<1> HIDE DEF v
<1>3. ~(Cardinality(Heads(v)) > 1) /\ Agree(top, config[r])
  BY <1>1, <1>2, VerdictIs
<1>4. Agree(top, v[i])
  BY <1>1, <1>3, OneCluster DEF v
<1>5. top \in Nat /\ v[i] \in Nat /\ config[r] \in Nat
  BY <1>1, BiggestIsRead DEF AreReadings, AuditInv, v
<1> HIDE DEF top
<1>6. Within(v[i], config[r], 10)
  BY <1>3, <1>4, <1>5, AgreeBothWays, AgreeTwice
<1>7. QED
  BY <1>6 DEF v

\* The value proposed is supported by a cluster no other outnumbers.
LEMMA OutvotedFollows == AuditInv => NeverOutvoted
<1> SUFFICES ASSUME AuditInv, latest # NoValue, NEW r \in Rates, Drifted(latest.checks[r]),
                    NEW i \in DOMAIN Readings(r)
             PROVE  Cardinality({j \in DOMAIN Readings(r) : Readings(r)[j] = Readings(r)[i]})
                      <= Cardinality({j \in DOMAIN Readings(r) :
                                        Agree(Readings(r)[j], latest.checks[r].value)})
  BY DEF NeverOutvoted
<1> DEFINE v == Readings(r)
           top == v[Biggest(v)]
           Same == {j \in DOMAIN v : v[j] = v[i]}
           Supporters == {j \in DOMAIN v : Agree(v[j], top)}
<1>1. AreReadings(v) /\ DOMAIN v # {}
  BY LatestIs
<1>2. latest.checks[r].value = top
  BY <1>1, LatestIs, VerdictIs
<1> HIDE DEF v
<1>3. Cardinality(Same) <= Cardinality(Cluster(v, HeadOf(v, i)))
  <2>1. \A j \in Same : j \in Cluster(v, HeadOf(v, i))
    BY EqualsTogether DEF Cluster
  <2>2. \A j \in Cluster(v, HeadOf(v, i)) : j \in DOMAIN v
    BY DEF Cluster
  <2> HIDE DEF Same
  <2>3. QED
    BY <1>1, <2>1, <2>2, CountsGrow
<1>4. Cardinality(Cluster(v, HeadOf(v, i))) <= Cardinality(Cluster(v, Biggest(v)))
  BY <1>1, BiggestIs, HeadOfIs DEF v
<1>5. Cardinality(Cluster(v, Biggest(v))) <= Cardinality(Supporters)
  <2>1. \A j \in Cluster(v, Biggest(v)) : j \in DOMAIN v /\ Agree(top, v[j])
    BY <1>1, HeadOfIs DEF Cluster
  <2>2. top \in Nat /\ \A j \in DOMAIN v : v[j] \in Nat
    BY <1>1, BiggestIsRead DEF AreReadings
  <2> HIDE DEF top
  <2>3. \A j \in Cluster(v, Biggest(v)) : j \in Supporters
    BY <2>1, <2>2, AgreeBothWays
  <2>4. \A j \in Supporters : j \in DOMAIN v
    OBVIOUS
  <2> HIDE DEF Supporters
  <2>5. QED
    BY <1>1, <2>3, <2>4, CountsGrow
<1>6. /\ Cardinality(Same) \in Nat /\ Cardinality(Supporters) \in Nat
      /\ Cardinality(Cluster(v, HeadOf(v, i))) \in Nat /\ Cardinality(Cluster(v, Biggest(v))) \in Nat
  <2>1. \A h : \A j \in Cluster(v, h) : j \in DOMAIN v
    BY DEF Cluster
  <2>2. \A h : Cardinality(Cluster(v, h)) \in Nat
    BY <1>1, <2>1, Counts
  <2>3. (\A j \in Same : j \in DOMAIN v) /\ (\A j \in Supporters : j \in DOMAIN v)
    OBVIOUS
  <2> HIDE DEF Same, Supporters
  <2>4. QED
    BY <1>1, <2>2, <2>3, Counts
<1>7. Cardinality(Same) <= Cardinality(Supporters)
  <2> HIDE DEF Same, Supporters
  <2>1. QED
    BY <1>3, <1>4, <1>5, <1>6
<1>8. QED
  BY <1>2, <1>7 DEF v

-------------------------------------------------------------------------------
(* Reading a page that is right.                                           *)

OnRow(i, n) == {<<i, b>> : b \in 1..n}

LEMMA RowCount ==
    ASSUME NEW i, NEW n \in Nat
    PROVE  IsFiniteSet(OnRow(i, n)) /\ Cardinality(OnRow(i, n)) = n
<1> DEFINE f == [b \in 1..n |-> <<i, b>>]
<1>1. f \in Bijection(1..n, OnRow(i, n))
  <2>1. f \in [1..n -> OnRow(i, n)]
    BY DEF OnRow
  <2>2. \A a, b \in 1..n : f[a] = f[b] => a = b
    OBVIOUS
  <2>3. \A p \in OnRow(i, n) : \E b \in 1..n : f[b] = p
    BY DEF OnRow
  <2> HIDE DEF f
  <2>4. f \in Injection(1..n, OnRow(i, n))
    BY <2>1, <2>2 DEF Injection, IsInjective
  <2>5. f \in Surjection(1..n, OnRow(i, n))
    BY <2>1, <2>3 DEF Surjection
  <2>6. QED
    BY <2>4, <2>5 DEF Bijection
<1>2. ExistsBijection(1..n, OnRow(i, n))
  BY <1>1 DEF ExistsBijection
<1>3. IsFiniteSet(1..n) /\ Cardinality(1..n) = n
  BY NumbersUpTo
<1>4. QED
  BY <1>2, <1>3, FS_Bijection

\* The places a parser reads are finitely many, and none is before its row.
LEMMA PlacesAre ==
    ASSUME NEW page \in Seq(PageRow), NEW s, NEW i \in Nat
    PROVE  /\ IsFiniteSet(Places(s, page, i))
           /\ \A p \in Places(s, page, i) :
                /\ p = <<p[1], p[2]>> /\ p[1] \in Nat /\ p[2] \in Nat \ {0} /\ p[1] >= i
                /\ p[1] \in DOMAIN page /\ p[2] \in DOMAIN page[p[1]].cells
<1> DEFINE Reads(k) == i <= k /\ (s = "zerodha" /\ FirstRow(page, "gst") > i => k < FirstRow(page, "gst"))
           K == {k \in DOMAIN page : Reads(k)}
           Q(k) == {k} \X DOMAIN page[k].cells
<1>1. Places(s, page, i) = UNION {Q(k) : k \in K}
  BY DEF Places
<1>2. DOMAIN page = 1..Len(page) /\ Len(page) \in Nat
  BY LenProperties
<1>3. \A k \in DOMAIN page : /\ page[k].cells \in Seq(Nat)
                             /\ DOMAIN page[k].cells = 1..Len(page[k].cells)
                             /\ Len(page[k].cells) \in Nat
  <2> TAKE k \in DOMAIN page
  <2>1. page[k] \in PageRow
    BY <1>2, ElementOfSeq
  <2>2. page[k].cells \in Seq(Nat)
    BY <2>1 DEF PageRow
  <2>3. QED
    BY <2>2, LenProperties
<1>4. \A n \in Nat : IsFiniteSet(1..n)
  BY NumbersUpTo
<1>5. \A k \in K : IsFiniteSet(Q(k))
  <2> TAKE k \in K
  <2>1. IsFiniteSet({k}) /\ IsFiniteSet(DOMAIN page[k].cells)
    BY <1>3, <1>4, FS_Singleton
  <2>2. QED
    BY <2>1, FS_Product
<1>6. IsFiniteSet(K)
  <2>1. IsFiniteSet(DOMAIN page) /\ K \in SUBSET DOMAIN page
    BY <1>2, <1>4
  <2> HIDE DEF K
  <2>2. QED
    BY <2>1, FS_Subset
<1>7. \A k \in K : k \in DOMAIN page /\ i <= k /\ k \in Nat
  BY <1>2
<1> HIDE DEF K
<1>8. IsFiniteSet({Q(k) : k \in K})
  <2> DEFINE g == [k \in K |-> Q(k)]
             T == {Q(k) : k \in K}
  <2>1. g \in Surjection(K, T)
    BY DEF Surjection
  <2> HIDE DEF g, T
  <2>2. IsFiniteSet(T)
    BY <1>6, <2>1, FS_Surjection
  <2>3. QED
    BY <2>2 DEF T
<1>9. IsFiniteSet(Places(s, page, i))
  <2>1. \A S \in {Q(k) : k \in K} : IsFiniteSet(S)
    BY <1>5
  <2>2. QED
    BY <1>1, <1>8, <2>1, FS_UNION
<1>10. ASSUME NEW p \in Places(s, page, i)
       PROVE  /\ p = <<p[1], p[2]>> /\ p[1] \in Nat /\ p[2] \in Nat \ {0} /\ p[1] >= i
              /\ p[1] \in DOMAIN page /\ p[2] \in DOMAIN page[p[1]].cells
  <2>1. PICK k \in K : p \in Q(k)
    BY <1>1
  <2>2. p = <<p[1], p[2]>> /\ p[1] = k /\ p[2] \in DOMAIN page[k].cells
    BY <2>1
  <2>3. p[2] \in Nat \ {0}
    BY <2>2, <1>3, <1>7
  <2>4. QED
    BY <2>2, <2>3, <1>7
<1>11. QED
  BY <1>9, <1>10

\* The row a parser starts with is read first.
LEMMA ReadInRow ==
    ASSUME NEW page \in Seq(PageRow), NEW s, NEW i \in DOMAIN page,
           NEW n \in DOMAIN page[i].cells
    PROVE  Read(s, page, i, n) = page[i].cells[n]
<1> DEFINE P == Places(s, page, i)
           cells == page[i].cells
<1>1. i \in Nat /\ i # 0
  BY LenProperties
<1>2. cells \in Seq(Nat) /\ DOMAIN cells = 1..Len(cells) /\ Len(cells) \in Nat
  <2>1. page[i] \in PageRow
    BY LenProperties, ElementOfSeq
  <2>2. cells \in Seq(Nat)
    BY <2>1 DEF PageRow
  <2>3. QED
    BY <2>2, LenProperties
<1>3. \A c \in DOMAIN cells : <<i, c>> \in P
  <2> DEFINE next == FirstRow(page, "gst")
  <2>1. i <= i /\ (s = "zerodha" /\ next > i => i < next)
    <3>1. next > i <=> i < next
      OBVIOUS
    <3>2. QED
      BY <1>1, <3>1
  <2>2. {i} \X DOMAIN cells \subseteq P
    BY <2>1 DEF Places
  <2>3. QED
    BY <2>2
<1> HIDE DEF cells
<1>4. /\ IsFiniteSet(P)
      /\ \A p \in P : /\ p = <<p[1], p[2]>> /\ p[1] \in Nat /\ p[2] \in Nat \ {0} /\ p[1] >= i
                      /\ p[1] \in DOMAIN page /\ p[2] \in DOMAIN page[p[1]].cells
  BY <1>1, PlacesAre
<1> HIDE DEF P
<1>5. ASSUME NEW c \in DOMAIN cells
      PROVE  UpTo(P, <<i, c>>) = OnRow(i, c)
  <2>1. c \in Nat
    BY <1>2
  <2>2. ASSUME NEW q \in OnRow(i, c)
        PROVE  q \in UpTo(P, <<i, c>>)
    <3>1. PICK b \in 1..c : q = <<i, b>>
      BY <2>2 DEF OnRow
    <3>2. b \in DOMAIN cells /\ b <= c
      BY <1>2, <2>1
    <3>3. <<i, b>> \in P
      BY <1>3, <3>2
    <3>4. QED
      BY <3>1, <3>2, <3>3 DEF UpTo
  <2>3. ASSUME NEW q \in UpTo(P, <<i, c>>)
        PROVE  q \in OnRow(i, c)
    <3>1. q \in P /\ (q[1] < i \/ (q[1] = i /\ q[2] <= c))
      BY DEF UpTo
    <3>2. q[1] = i /\ q[2] <= c
      BY <3>1, <1>1, <1>4
    <3>3. q[2] \in 1..c /\ q = <<i, q[2]>>
      BY <2>1, <3>1, <3>2, <1>4
    <3>4. QED
      BY <3>3 DEF OnRow
  <2>4. QED
    BY <2>2, <2>3
<1>6. \A c \in DOMAIN cells : Cardinality(UpTo(P, <<i, c>>)) = c
  <2> TAKE c \in DOMAIN cells
  <2>1. c \in Nat
    BY <1>2
  <2>2. QED
    BY <2>1, <1>5, RowCount
<1>7. n \in DOMAIN cells /\ n \in Nat
  BY <1>2 DEF cells
<1>8. <<i, n>> \in Nth(P, n)
  BY <1>3, <1>6, <1>7 DEF Nth
<1>9. ASSUME NEW p \in Nth(P, n)
      PROVE  p = <<i, n>>
  <2>1. p \in P /\ Cardinality(UpTo(P, p)) = n
    BY DEF Nth
  <2>2. CASE p[1] = i
    <3>1. p[2] \in DOMAIN cells /\ p = <<i, p[2]>>
      BY <1>4, <2>1, <2>2 DEF cells
    <3>2. QED
      BY <1>6, <2>1, <3>1
  <2>3. CASE p[1] # i
    <3>1. p[1] > i /\ p \notin OnRow(i, n)
      BY <1>1, <1>4, <2>1, <2>3 DEF OnRow
    <3>2. \A q \in OnRow(i, n) : q \in UpTo(P, p)
      <4> TAKE q \in OnRow(i, n)
      <4>1. PICK b \in 1..n : q = <<i, b>>
        BY DEF OnRow
      <4>2. b \in DOMAIN cells
        BY <1>2, <1>7
      <4>3. <<i, b>> \in P
        BY <1>3, <4>2
      <4>4. QED
        BY <3>1, <4>1, <4>3 DEF UpTo
    <3>3. p \in UpTo(P, p)
      BY <1>4, <2>1 DEF UpTo
    <3>4. IsFiniteSet(UpTo(P, p))
      <4>1. UpTo(P, p) \in SUBSET P
        BY DEF UpTo
      <4>2. QED
        BY <1>4, <4>1, FS_Subset
    <3>5. OnRow(i, n) \in SUBSET UpTo(P, p)
      BY <3>2
    <3>6. OnRow(i, n) = UpTo(P, p)
      BY <1>7, <2>1, <3>4, <3>5, RowCount, FS_Subset
    <3>7. QED
      BY <3>1, <3>3, <3>6
  <2>4. QED
    BY <2>2, <2>3
<1> DEFINE N == Nth(P, n)
           chosen == CHOOSE p \in N : TRUE
<1>10. N # {} /\ chosen = <<i, n>>
  BY <1>8, <1>9
<1>11. Read(s, page, i, n) = page[chosen[1]].cells[chosen[2]]
  BY <1>1, <1>10 DEF Read, P
<1> HIDE DEF chosen
<1>12. QED
  BY <1>10, <1>11

\* The rows of the labels, on each of the pages.
LEMMA FirstRowIs ==
    ASSUME NEW page \in Seq(PageRow), NEW label, NEW i \in RowsOf(page, label),
           \A k \in RowsOf(page, label) : i <= k
    PROVE  FirstRow(page, label) = i
<1>1. \A k \in RowsOf(page, label) : k \in Int
  BY LenProperties DEF RowsOf
<1>2. Min(RowsOf(page, label)) = i
  BY <1>1, LeastIs
<1>3. QED
  BY <1>2 DEF FirstRow

LEMMA TwoRows ==
    ASSUME NEW a \in PageRow, NEW b \in PageRow, a.label = "stt", b.label = "gst"
    PROVE  /\ <<a, b>> \in Seq(PageRow) /\ DOMAIN <<a, b>> = 1..2
           /\ FirstRow(<<a, b>>, "stt") = 1 /\ FirstRow(<<a, b>>, "gst") = 2
<1> DEFINE page == <<a, b>>
<1>1. page \in Seq(PageRow)
  <2> HIDE DEF PageRow
  <2>1. QED
    OBVIOUS
<1>2. DOMAIN page = 1..2 /\ page[1] = a /\ page[2] = b
  OBVIOUS
<1> HIDE DEF page
<1>3. RowsOf(page, "stt") = {1} /\ RowsOf(page, "gst") = {2}
  <2>1. \A k : k \in 1..2 <=> k = 1 \/ k = 2
    OBVIOUS
  <2>2. page[1].label = "stt" /\ page[2].label = "gst"
    BY <1>2
  <2>3. QED
    BY <1>2, <2>1, <2>2, Zenon DEF RowsOf
<1>4. FirstRow(page, "stt") = 1 /\ FirstRow(page, "gst") = 2
  <2>1. /\ 1 \in RowsOf(page, "stt") /\ \A k \in RowsOf(page, "stt") : 1 <= k
        /\ 2 \in RowsOf(page, "gst") /\ \A k \in RowsOf(page, "gst") : 2 <= k
    BY <1>3
  <2>2. QED
    BY <1>1, <2>1, FirstRowIs, Zenon
<1>5. QED
  BY <1>1, <1>2, <1>4 DEF page

LEMMA RowFields ==
    \A l, from, cells : /\ Row(l, from, cells).label = l
                        /\ Row(l, from, cells).from = from
                        /\ Row(l, from, cells).cells = cells
BY DEF Row

\* The row of the rates: on a page with dates, the one of the day.
LEMMA UpstoxRows ==
    ASSUME NEW d \in 1..LastDay
    PROVE  LET page == HonestPage("upstox", d)
           IN  InForce(page, d) = d /\ FirstRow(page, "gst") = Announced(d) + 1
<1> DEFINE page == HonestPage("upstox", d)
           n == Announced(d)
<1>1. /\ page \in Seq(PageRow) /\ n \in 1..LastDay /\ d <= n /\ n \in Nat /\ d \in Nat
      /\ DOMAIN page = 1..(n + 1) /\ page[n + 1] = Gst(d)
      /\ \A e \in 1..n : page[e] = Row("stt", e, Full(e))
  BY UpstoxPage
<1> HIDE DEF page, n
<1>2. /\ page[n + 1].label = "gst"
      /\ \A e \in 1..n : page[e].label = "stt" /\ page[e].from = e
  <2>1. page[n + 1].label = "gst"
    BY <1>1, RowFields DEF Gst
  <2>2. \A e \in 1..n : page[e].label = "stt" /\ page[e].from = e
    BY <1>1, RowFields
  <2>3. QED
    BY <2>1, <2>2
<1>3. \A e : e \in 1..(n + 1) <=> e \in 1..n \/ e = n + 1
  BY <1>1
<1>4. RowsOf(page, "stt") = 1..n /\ RowsOf(page, "gst") = {n + 1}
  <2>1. "stt" # "gst" /\ n + 1 \notin 1..n
    BY <1>1
  <2>2. QED
    BY <1>1, <1>2, <1>3, <2>1, Zenon DEF RowsOf
<1>5. FirstRow(page, "gst") = n + 1
  <2>1. n + 1 \in RowsOf(page, "gst") /\ \A k \in RowsOf(page, "gst") : n + 1 <= k
    BY <1>1, <1>4
  <2>2. QED
    BY <1>1, <2>1, FirstRowIs, Zenon
<1> DEFINE dated == {e \in RowsOf(page, "stt") : page[e].from \in 1..d}
           days == {page[e].from : e \in dated}
           newest == {e \in dated : page[e].from = Max(days)}
<1>6. \A e : e \in dated <=> e \in 1..d
  BY <1>1, <1>2, <1>4
<1>7. \A e \in dated : page[e].from = e /\ e \in Int /\ e <= d
  BY <1>1, <1>2, <1>4, <1>6
<1>8. d \in dated
  BY <1>1, <1>6
<1> HIDE DEF dated
<1>9. Max(days) = d
  <2>1. d \in days /\ \A y \in days : y \in Int /\ y <= d
    BY <1>7, <1>8
  <2> HIDE DEF days
  <2>2. QED
    BY <1>1, <2>1, GreatestIs
<1> HIDE DEF days
<1>10. newest = {d}
  BY <1>7, <1>8, <1>9
<1> HIDE DEF newest
<1>11. Min(newest) = d
  <2>1. d \in newest /\ d \in Int /\ \A y \in newest : y \in Int /\ d <= y
    BY <1>1, <1>10
  <2>2. QED
    BY <2>1, LeastIs
<1>12. InForce(page, d) = Min(newest)
  BY <1>8 DEF InForce, dated, days, newest
<1>13. QED
  BY <1>5, <1>11, <1>12 DEF page, n

LEMMA Gets ==
    ASSUME NEW d \in 1..LastDay, NEW r \in Rates \ {"gst"}
    PROVE  /\ Column[r] \in DOMAIN Full(d) /\ Full(d)[Column[r]] = LawOf(r, d)
           /\ r = "equity" => Column[r] = 2
BY DEF Column, Full, Rates

\* A parser reads a page that is right as its author means it.
LEMMA HonestRead ==
    ASSUME NEW d \in 1..LastDay, NEW s \in Names, NEW r \in Rates, Covers(s, r)
    PROVE  Parsed(s, HonestPage(s, d), r, d) = LawOf(r, d)
<1> DEFINE page == HonestPage(s, d)
           table == IF s = "dhan" THEN <<Delivery, LawOf("equity", d), Delivery>> ELSE Full(d)
           sttRow == SttRow(s, page, d)
           gstRow == FirstRow(page, "gst")
<1>1. /\ page \in Seq(PageRow)
      /\ sttRow \in DOMAIN page /\ page[sttRow].cells = table
      /\ gstRow \in DOMAIN page /\ page[gstRow].cells = <<LawOf("gst", d)>>
  <2>1. CASE s = "upstox"
    <3>1. sttRow = d /\ gstRow = Announced(d) + 1
      BY <2>1, UpstoxRows DEF SttRow
    <3>2. d \in 1..Announced(d) /\ d \in 1..(Announced(d) + 1)
            /\ Announced(d) + 1 \in 1..(Announced(d) + 1)
      BY UpstoxPage, AuditAssumption
    <3>3. /\ page \in Seq(PageRow) /\ DOMAIN page = 1..(Announced(d) + 1)
          /\ page[d] = Row("stt", d, Full(d)) /\ page[Announced(d) + 1] = Gst(d)
      BY <2>1, <3>2, UpstoxPage
    <3>4. page[d].cells = Full(d) /\ page[Announced(d) + 1].cells = <<LawOf("gst", d)>>
      BY <3>3, RowFields DEF Gst
    <3>5. table = Full(d)
      BY <2>1
    <3> HIDE DEF page, table
    <3>6. QED
      BY <3>1, <3>2, <3>3, <3>4, <3>5
  <2>2. CASE s = "zerodha"
    <3> DEFINE a == Row("stt", 0, Full(d))
               b == Gst(d)
    <3>1. a \in PageRow /\ b \in PageRow
      BY RowsTyped
    <3>2. a.label = "stt" /\ b.label = "gst" /\ a.cells = Full(d) /\ b.cells = <<LawOf("gst", d)>>
      BY RowFields DEF Gst
    <3>3. page = <<a, b>>
      BY <2>2, OtherPages
    <3> HIDE DEF a, b, page
    <3>4. sttRow = 1 /\ gstRow = 2 /\ page \in Seq(PageRow) /\ DOMAIN page = 1..2
      BY <2>2, <3>1, <3>2, <3>3, TwoRows DEF SttRow
    <3>5. QED
      BY <2>2, <3>2, <3>3, <3>4
  <2>3. CASE s = "dhan"
    <3> DEFINE a == Row("stt", 0, <<Delivery, LawOf("equity", d), Delivery>>)
               b == Gst(d)
    <3>1. a \in PageRow /\ b \in PageRow
      BY RowsTyped
    <3>2. a.label = "stt" /\ b.label = "gst" /\ a.cells = table /\ b.cells = <<LawOf("gst", d)>>
      BY <2>3, RowFields DEF Gst
    <3>3. page = <<a, b>>
      BY <2>3, OtherPages
    <3> HIDE DEF a, b, page, table
    <3>4. sttRow = 1 /\ gstRow = 2 /\ page \in Seq(PageRow) /\ DOMAIN page = 1..2
      BY <2>3, <3>1, <3>2, <3>3, TwoRows DEF SttRow
    <3>5. QED
      BY <2>3, <3>2, <3>3, <3>4
  <2>4. QED
    BY <2>1, <2>2, <2>3 DEF Names
<1> HIDE DEF page
<1>2. CASE r = "gst"
  <2>1. 1 \in DOMAIN page[gstRow].cells /\ page[gstRow].cells[1] = LawOf("gst", d)
    BY <1>1
  <2>2. Parsed(s, page, r, d) = Read(s, page, gstRow, 1)
    BY <1>2 DEF Parsed
  <2> HIDE DEF gstRow
  <2>3. QED
    BY <1>1, <1>2, <2>1, <2>2, ReadInRow DEF page
<1>3. CASE r # "gst"
  <2> DEFINE n == Column[r]
  <2>1. n \in DOMAIN table /\ table[n] = LawOf(r, d)
    <3>1. CASE s = "dhan"
      <4>1. r = "equity" /\ n = 2
        BY <1>3, <3>1, Gets DEF Covers
      <4>2. QED
        BY <3>1, <4>1
    <3>2. CASE s # "dhan"
      BY <1>3, <3>2, Gets
    <3>3. QED
      BY <3>1, <3>2
  <2>2. Parsed(s, page, r, d) = Read(s, page, sttRow, n)
    BY <1>3 DEF Parsed
  <2> HIDE DEF sttRow, table, n
  <2>3. QED
    BY <1>1, <2>1, <2>2, ReadInRow DEF page
<1>4. QED
  BY <1>2, <1>3

LEMMA HonestIsReachable ==
    ASSUME NEW d \in 1..LastDay, NEW s \in Names
    PROVE  HonestPage(s, d) # Unreachable
<1>1. HonestPage(s, d)[1].label = "stt"
  <2>1. CASE s = "upstox"
    <3>1. 1 \in 1..Announced(d)
      BY UpstoxPage
    <3>2. QED
      BY <2>1, <3>1, UpstoxPage, RowFields
  <2>2. CASE s = "zerodha"
    <3> DEFINE a == Row("stt", 0, Full(d))
    <3>1. HonestPage(s, d) = <<a, Gst(d)>>
      BY <2>2, OtherPages
    <3>2. a.label = "stt"
      BY RowFields
    <3> HIDE DEF a
    <3>3. QED
      BY <3>1, <3>2
  <2>3. CASE s = "dhan"
    <3> DEFINE a == Row("stt", 0, <<Delivery, LawOf("equity", d), Delivery>>)
    <3>1. HonestPage(s, d) = <<a, Gst(d)>>
      BY <2>3, OtherPages
    <3>2. a.label = "stt"
      BY RowFields
    <3> HIDE DEF a
    <3>3. QED
      BY <3>1, <3>2
  <2>4. QED
    BY <2>1, <2>2, <2>3 DEF Names
<1>2. Unreachable[1].label = "unreachable"
  BY RowFields DEF Unreachable
<1>3. QED
  BY <1>1, <1>2

-------------------------------------------------------------------------------
(* The majority.                                                           *)

\* Two of three readings that are the same decide the verdict.
LEMMA MajorityPrevails ==
    ASSUME NEW v, AreReadings(v), NEW i \in DOMAIN v, NEW j \in DOMAIN v, i # j, v[i] = v[j]
    PROVE  Agree(v[Biggest(v)], v[i])
<1> DEFINE U == 1..3
           C == Cluster(v, HeadOf(v, i))
           B == Cluster(v, Biggest(v))
<1>1. i \in C /\ j \in C
  BY EqualsTogether DEF Cluster
<1>2. IsFiniteSet(U) /\ Cardinality(U) = 3
  BY NumbersUpTo
<1>3. (\A k \in C : k \in DOMAIN v) /\ (\A k \in B : k \in DOMAIN v)
  BY DEF Cluster
<1>4. Cardinality(B) >= Cardinality(C)
  BY BiggestIs, HeadOfIs
<1>5. B \subseteq U /\ C \subseteq U
  BY <1>3 DEF AreReadings
<1> HIDE DEF B, C, U
<1>6. IsFiniteSet(B) /\ IsFiniteSet(C) /\ Cardinality(B) \in Nat /\ Cardinality(C) \in Nat
  BY <1>3, Counts
<1>7. Cardinality(C) >= 2
  <2>1. IsFiniteSet({i}) /\ Cardinality({i}) = 1
    BY FS_Singleton
  <2>2. IsFiniteSet({i} \cup {j}) /\ Cardinality({i} \cup {j}) = 2
    <3>1. j \notin {i}
      OBVIOUS
    <3>2. /\ IsFiniteSet({i} \cup {j})
          /\ Cardinality({i} \cup {j}) = IF j \in {i} THEN Cardinality({i}) ELSE Cardinality({i}) + 1
      BY <2>1, FS_AddElement, Zenon
    <3>3. QED
      BY <2>1, <3>1, <3>2
  <2>3. {i} \cup {j} \in SUBSET C
    BY <1>1
  <2>4. Cardinality({i} \cup {j}) <= Cardinality(C)
    BY <1>6, <2>3, FS_Subset
  <2>5. QED
    BY <1>6, <2>2, <2>4
<1>8. Cardinality(B) + Cardinality(C) > Cardinality(U)
  BY <1>2, <1>4, <1>6, <1>7
<1>9. B \cap C # {}
  BY <1>2, <1>5, <1>8, FS_MajoritiesIntersect
<1>10. Biggest(v) = HeadOf(v, i)
  BY <1>9 DEF B, C, Cluster
<1>11. QED
  BY <1>10, HeadOfIs

\* What an honest source is read as.
LEMMA HonestReading ==
    ASSUME AuditInv, latest # NoValue, NEW r \in Rates, NEW i \in 1..3,
           Honest(Sources[i]), Covers(Sources[i], r)
    PROVE  i \in DOMAIN Readings(r) /\ Readings(r)[i] = LawOf(r, today)
<1>1. PICK pages \in Pages(today) : latest.pages = pages /\ Readings(r) = Observed(pages, r, today)
  BY LatestIs
<1>2. today \in 1..LastDay /\ Sources[i] \in Names
  BY SourceNames DEF AuditInv
<1>3. pages[Sources[i]] = HonestPage(Sources[i], today)
  BY <1>1 DEF Honest
<1> DEFINE value(k) == Parsed(Sources[k], pages[Sources[k]], r, today)
           Sees(k) == pages[Sources[k]] # Unreachable /\ Covers(Sources[k], r) /\ value(k) # NoValue
<1>4. value(i) = LawOf(r, today)
  BY <1>2, <1>3, HonestRead
<1>5. value(i) # NoValue
  BY <1>2, <1>4, RatesInForce, AuditAssumption
<1>6. Sees(i)
  BY <1>2, <1>3, <1>5, HonestIsReachable
<1>7. Readings(r) = [k \in {k \in 1..3 : Sees(k)} |-> value(k)]
  BY <1>1, SourceNames DEF Observed
<1> HIDE DEF Sees, value
<1>8. i \in DOMAIN Readings(r) /\ Readings(r)[i] = value(i)
  BY <1>6, <1>7
<1>9. QED
  BY <1>4, <1>8

LEMMA NotCovered ==
    ASSUME AuditInv, latest # NoValue, NEW r \in Rates, NEW i \in DOMAIN Readings(r)
    PROVE  i \in 1..3 /\ Covers(Sources[i], r)
<1>1. PICK pages \in Pages(today) : Readings(r) = Observed(pages, r, today)
  BY LatestIs
<1>2. QED
  BY <1>1, SourceNames DEF Observed

\* Two honest sources have their way with a rate both publish.
LEMMA MajorityFollows == AuditInv => HonestMajority
<1> SUFFICES ASSUME AuditInv, latest # NoValue, NEW r \in Rates, Majority(r)
             PROVE  /\ latest.checks[r].value # NoValue /\ Agree(latest.checks[r].value, Law[r])
                    /\ ~Drifted(latest.checks[r]) => Within(config[r], Law[r], 10)
                    /\ config[r] = Law[r] /\ (\A s \in ToSet(Sources) : Honest(s) \/ ~Covers(s, r))
                         => latest.checks[r].verdict = "OK"
  BY DEF HonestMajority
<1> DEFINE v == Readings(r)
           x == LawOf(r, today)
           top == v[Biggest(v)]
<1>1. Law[r] = x /\ x \in Nat /\ config[r] \in Nat
  BY RatesInForce DEF Law, AuditInv
<1>2. \E i, j \in 1..3 : /\ i # j /\ Honest(Sources[i]) /\ Honest(Sources[j])
                         /\ Covers(Sources[i], r) /\ Covers(Sources[j], r)
  <2>1. PICK s, t \in Names : s # t /\ \A o \in {s, t} : Honest(o) /\ Covers(o, r)
    BY SourceNames DEF Majority
  <2>2. \A o \in Names : \E i \in 1..3 : Sources[i] = o
    BY SourceNames DEF Names
  <2>3. QED
    BY <2>1, <2>2
<1>3. PICK i, j \in 1..3 : /\ i # j /\ Honest(Sources[i]) /\ Honest(Sources[j])
                           /\ Covers(Sources[i], r) /\ Covers(Sources[j], r)
  BY <1>2
<1>4. i \in DOMAIN v /\ j \in DOMAIN v /\ v[i] = x /\ v[j] = x
  BY <1>3, HonestReading
<1>5. AreReadings(v) /\ latest.checks[r] = Verdict(config[r], v)
  BY LatestIs
<1>6. (\A s \in ToSet(Sources) : Honest(s) \/ ~Covers(s, r)) => \A k \in DOMAIN v : v[k] = x
  <2> SUFFICES ASSUME \A s \in ToSet(Sources) : Honest(s) \/ ~Covers(s, r), NEW k \in DOMAIN v
               PROVE  v[k] = x
    OBVIOUS
  <2>1. k \in 1..3 /\ Covers(Sources[k], r)
    BY NotCovered
  <2>2. Honest(Sources[k])
    BY <2>1, SourceNames
  <2>3. QED
    BY <2>1, <2>2, HonestReading
<1> HIDE DEF v, x
<1>7. Agree(top, x)
  BY <1>3, <1>4, <1>5, MajorityPrevails
<1>8. top \in Nat
  BY <1>4, <1>5, BiggestIsRead
<1>9. /\ latest.checks[r].value = top
      /\ ~Drifted(latest.checks[r]) <=> latest.checks[r].verdict = "OK"
      /\ latest.checks[r].verdict = "OK" <=> ~(Cardinality(Heads(v)) > 1) /\ Agree(top, config[r])
  BY <1>4, <1>5, VerdictIs
<1> HIDE DEF top
<1>10. ~Drifted(latest.checks[r]) => Within(config[r], x, 10)
  BY <1>1, <1>7, <1>8, <1>9, AgreeBothWays, AgreeTwice
<1>11. config[r] = x /\ (\A k \in DOMAIN v : v[k] = x) => latest.checks[r].verdict = "OK"
  BY <1>5, <1>7, <1>9, AllTheSame
<1>12. top # NoValue
  BY <1>8, AuditAssumption
<1>13. QED
  BY <1>1, <1>6, <1>7, <1>9, <1>10, <1>11, <1>12

-------------------------------------------------------------------------------
(* For every rates, days and mistakes, one page spoiled or all three: two    *)
(* honest sources prevail over the third (run_fee_audit, _verdict).          *)
THEOREM HonestMajorityPrevails == AuditSpec => []HonestMajority
<1>1. AuditInit => AuditInv
  BY AuditInvInit
<1>2. AuditInv /\ [AuditNext]_audit => AuditInv'
  BY AuditInvStep
<1>3. AuditInv => HonestMajority
  BY MajorityFollows
<1>4. QED
  BY <1>1, <1>2, <1>3, PTL DEF AuditSpec

(* No value the audit proposes is outnumbered by another that was read        *)
(* (_verdict: the first of the largest clusters).                            *)
THEOREM NobodyIsOutvoted == AuditSpec => []NeverOutvoted
<1>1. AuditInit => AuditInv
  BY AuditInvInit
<1>2. AuditInv /\ [AuditNext]_audit => AuditInv'
  BY AuditInvStep
<1>3. AuditInv => NeverOutvoted
  BY OutvotedFollows
<1>4. QED
  BY <1>1, <1>2, <1>3, PTL DEF AuditSpec

(* An audit that reports OK has read no rate that is off by more than twice  *)
(* the tolerance (run_fee_audit, _close).                                    *)
THEOREM QuietAuditsAreNear == AuditSpec => []QuietMeansNear
<1>1. AuditInit => AuditInv
  BY AuditInvInit
<1>2. AuditInv /\ [AuditNext]_audit => AuditInv'
  BY AuditInvStep
<1>3. AuditInv => QuietMeansNear
  BY QuietFollows
<1>4. QED
  BY <1>1, <1>2, <1>3, PTL DEF AuditSpec
================================================================================
