------------------------------ MODULE FeeAudit ------------------------------
(***************************************************************************)
(* The daily audit of the fee rates (bot/fee_audit.py) and the patch made  *)
(* of it (eod_apply_fee_updates.py, _patches_from_audit).                  *)
(*                                                                         *)
(* Three brokers publish the rates of the regulator, each on a page of its *)
(* own shape; the audit reads the columns by position, sorts what it read  *)
(* into clusters of about equal values and gives a verdict.  A page is the *)
(* sequence of its rows, a row its label, the day it is in force from (0   *)
(* if it does not say), and its cells.  STT stands for the rates that      *)
(* differ by segment (transaction charges, stamp duty are read alike), GST *)
(* for those that do not.                                                  *)
(***************************************************************************)
EXTENDS Integers, Sequences, SequencesExt, FiniteSetsExt

CONSTANTS
  LawOf(_, _), \* LawOf(r, d): the rate r in force on day d
  Delivery,    \* the STT of a column the bot does not use
  Wrong,       \* values a page may show by mistake
  LastDay,
  MaxSpoiled,  \* bound: pages with a mistake at a time
  NoValue      \* no value, no audit

Rates == {"equity", "futures", "options", "gst"}
Sources == <<"zerodha", "upstox", "dhan">>

ASSUME AuditAssumption ==
  /\ LastDay \in Nat \ {0}
  /\ \A r \in Rates, d \in 1..LastDay : LawOf(r, d) \in Nat
  /\ Delivery \in Nat /\ Wrong \subseteq Nat
  /\ NoValue \notin Nat

VARIABLES
  today,
  config,  \* the rates the bot computes its fees with
  latest   \* the last audit: what it read and found, or NoValue

audit == <<today, config, latest>>

Law == [r \in Rates |-> LawOf(r, today)]
-----------------------------------------------------------------------------
(* The pages *)

Row(label, from, cells) == [label |-> label, from |-> from, cells |-> cells]

Unreachable == <<Row("unreachable", 0, <<>>)>>

Full(d) == <<Delivery, LawOf("equity", d), LawOf("futures", d), LawOf("options", d)>>
Gst(d) == Row("gst", 0, <<LawOf("gst", d)>>)

(* Upstox announces the rates of the day after.                            *)
Announced(d) == IF d < LastDay THEN d + 1 ELSE d

(* What a careful source shows on day d.                                   *)
HonestPage(s, d) ==
  CASE s = "zerodha" -> <<Row("stt", 0, Full(d)), Gst(d)>>
    [] s = "upstox"  -> Append([e \in 1..Announced(d) |-> Row("stt", e, Full(e))], Gst(d))
    [] s = "dhan"    -> <<Row("stt", 0, <<Delivery, LawOf("equity", d), Delivery>>), Gst(d)>>

(* One thing is wrong on the page: a cell is not a percentage, has another *)
(* value or a stray percentage before it, a row is not dated or not there. *)
SpoiledCells(cells) ==
  {RemoveAt(cells, j) : j \in 1..Len(cells)}
    \cup {[cells EXCEPT ![j] = w] : j \in 1..Len(cells), w \in Wrong}
    \cup {<<w>> \o cells : w \in Wrong}

SpoiledAt(page, i) ==
  LET row == page[i]
  IN  {RemoveAt(page, i), [page EXCEPT ![i] = Row(row.label, 0, row.cells)]}
        \cup {[page EXCEPT ![i] = Row(row.label, row.from, cells)] : cells \in SpoiledCells(row.cells)}

Spoiled(page) == UNION {SpoiledAt(page, i) : i \in 1..Len(page)}

(* A page is out of reach, right, of an earlier day, or spoiled.           *)
Whole(s, d) == {Unreachable} \cup {HonestPage(s, e) : e \in 1..d}

Pages(d) ==
  UNION {[zerodha : IF "zerodha" \in S THEN Spoiled(HonestPage("zerodha", d)) ELSE Whole("zerodha", d),
          upstox : IF "upstox" \in S THEN Spoiled(HonestPage("upstox", d)) ELSE Whole("upstox", d),
          dhan : IF "dhan" \in S THEN Spoiled(HonestPage("dhan", d)) ELSE Whole("dhan", d)]
         : S \in {S \in SUBSET ToSet(Sources) : Cardinality(S) <= MaxSpoiled}}
-----------------------------------------------------------------------------
(* The parsers *)

RowsOf(page, label) == {i \in DOMAIN page : page[i].label = label}

FirstRow(page, label) ==
  IF RowsOf(page, label) = {} THEN 0 ELSE Min(RowsOf(page, label))

(* The places of percentages from row i on: only Zerodha's parser stops at *)
(* the next label, the others read a span of the text.                     *)
Places(s, page, i) ==
  LET next == FirstRow(page, "gst")
      Reads(k) == i <= k /\ (s = "zerodha" /\ next > i => k < next)
  IN  UNION {{k} \X DOMAIN page[k].cells : k \in {k \in DOMAIN page : Reads(k)}}

UpTo(places, p) == {q \in places : q[1] < p[1] \/ (q[1] = p[1] /\ q[2] <= p[2])}

(* The n-th percentage in document order.                                  *)
Nth(places, n) == {p \in places : Cardinality(UpTo(places, p)) = n}

Read(s, page, i, n) ==
  LET places == Nth(Places(s, page, i), n)
      p == CHOOSE p \in places : TRUE
  IN  IF i = 0 \/ places = {} THEN NoValue ELSE page[p[1]].cells[p[2]]

(* Upstox: of the dated rows the most recent that is in force, else the    *)
(* first.                                                                  *)
InForceAnnounced(page, d) ==
  LET newest == Max({page[i].from : i \in DOMAIN page})
      latestRows == {i \in RowsOf(page, "stt") : page[i].from = newest}
  IN  IF latestRows = {} THEN 0 ELSE Min(latestRows)

InForce(page, d) ==
  LET dated == {i \in RowsOf(page, "stt") : page[i].from \in 1..d}
      newest == Max({page[i].from : i \in dated})
  IN  IF dated = {} THEN FirstRow(page, "stt")
      ELSE Min({i \in dated : page[i].from = newest})

SttRow(s, page, d) == IF s = "upstox" THEN InForce(page, d) ELSE FirstRow(page, "stt")

(* Every source shows the STT of equity second; Dhan's table stops there.  *)
Column == [equity |-> 2, futures |-> 3, options |-> 4]

Covers(s, r) == s = "dhan" => r \in {"equity", "gst"}

(* What the parser of s makes of a page.                                   *)
Parsed(s, page, r, d) ==
  IF r = "gst" THEN Read(s, page, FirstRow(page, "gst"), 1)
  ELSE Read(s, page, SttRow(s, page, d), Column[r])

(* The observations of a rate, by the place of their source.               *)
Observed(pages, r, d) ==
  LET value(i) == Parsed(Sources[i], pages[Sources[i]], r, d)
      Sees(i) == pages[Sources[i]] # Unreachable /\ Covers(Sources[i], r) /\ value(i) # NoValue
  IN  [i \in {i \in 1..Len(Sources) : Sees(i)} |-> value(i)]
-----------------------------------------------------------------------------
(* The verdict *)

(* Equal within a part of the larger, in thousandths.                      *)
Within(a, b, thousandths) ==
  LET larger == IF a < b THEN b ELSE a
      smaller == IF a < b THEN a ELSE b
  IN  1000 * (larger - smaller) <= thousandths * larger

Agree(a, b) == Within(a, b, 5)

(* A value that is close to the first of no earlier cluster begins one.    *)
HeadsUpTo(values) ==
  LET heads[n \in 0..Len(Sources)] ==
        IF n = 0 THEN {}
        ELSE LET Begins == n \in DOMAIN values /\ \A h \in heads[n - 1] : ~Agree(values[h], values[n])
             IN  heads[n - 1] \cup (IF Begins THEN {n} ELSE {})
  IN  heads

Heads(values) == HeadsUpTo(values)[Len(Sources)]

(* The others join the first cluster whose first value is close to them.   *)
HeadOf(values, i) == Min({h \in Heads(values) : Agree(values[h], values[i])})

Cluster(values, h) == {i \in DOMAIN values : HeadOf(values, i) = h}

(* The first of the largest clusters.                                      *)
BiggestIsFirst(values) == Min(Heads(values))

Biggest(values) ==
  LET Size(h) == Cardinality(Cluster(values, h))
  IN  Min({h \in Heads(values) : \A g \in Heads(values) : Size(g) <= Size(h)})

Check(verdict, value) == [verdict |-> verdict, value |-> value]

Verdict(configured, values) ==
  LET consensus == values[Biggest(values)]
  IN  IF DOMAIN values = {} THEN Check("UNVERIFIED", NoValue)
      ELSE IF Cardinality(Heads(values)) > 1 THEN Check("AMBIGUOUS", consensus)
      ELSE IF Agree(consensus, configured) THEN Check("OK", consensus)
      ELSE IF Cardinality(DOMAIN values) >= 2 THEN Check("DRIFT_CONFIRMED", consensus)
      ELSE Check("DRIFT_SINGLE", consensus)

Drifted(check) == check.verdict \in {"AMBIGUOUS", "DRIFT_CONFIRMED", "DRIFT_SINGLE"}

StatusOfConfirmed(pages, checks) ==
  IF \E r \in Rates : checks[r].verdict \in {"DRIFT_CONFIRMED", "DRIFT_SINGLE"}
  THEN "WARN" ELSE "OK"

Status(pages, checks) ==
  IF \/ \A s \in DOMAIN pages : pages[s] = Unreachable
     \/ \E r \in Rates : Drifted(checks[r])
  THEN "WARN" ELSE "OK"
-----------------------------------------------------------------------------
AuditInit ==
  /\ today = 1
  /\ config \in {[r \in Rates |-> LawOf(r, d)] : d \in {1, LastDay}}
  /\ latest = NoValue

Result(pages) ==
  LET checks == [r \in Rates |-> Verdict(config[r], Observed(pages, r, today))]
  IN  [pages |-> pages, checks |-> checks, status |-> Status(pages, checks)]

Audit ==
  /\ latest = NoValue
  /\ \E pages \in Pages(today) : latest' = Result(pages)
  /\ UNCHANGED <<today, config>>

(* The script writes every rate the audit calls drifted, the ambiguous     *)
(* ones too.                                                               *)
Patched(checks) ==
  [r \in Rates |-> IF Drifted(checks[r]) THEN checks[r].value ELSE config[r]]

Patch ==
  /\ latest # NoValue
  /\ config' = Patched(latest.checks)
  /\ latest' = NoValue
  /\ UNCHANGED today

(* Nobody patched.  The law of the next day is in force.                   *)
NextDay ==
  /\ latest # NoValue /\ today < LastDay
  /\ today' = today + 1 /\ latest' = NoValue
  /\ UNCHANGED config

AuditNext == Audit \/ Patch \/ NextDay

AuditSpec == AuditInit /\ [][AuditNext]_audit
-----------------------------------------------------------------------------
Readings(r) == Observed(latest.pages, r, today)

Honest(s) == latest.pages[s] = HonestPage(s, today)

Majority(r) ==
  \E s, t \in ToSet(Sources) : s # t /\ \A o \in {s, t} : Honest(o) /\ Covers(o, r)

(* Two sources that publish the rate as the law has it prevail over         *)
(* whatever the parsers make of the third: the rate the audit proposes is   *)
(* the law's, and no rate passes that is off by more than the tolerance     *)
(* allows twice.  If no source contradicts them, the audit finds the rate   *)
(* in force right: a row announced for another day raises no alarm.         *)
HonestMajority ==
  latest # NoValue => \A r \in Rates : Majority(r) =>
    /\ latest.checks[r].value # NoValue /\ Agree(latest.checks[r].value, Law[r])
    /\ ~Drifted(latest.checks[r]) => Within(config[r], Law[r], 10)
    /\ config[r] = Law[r] /\ (\A s \in ToSet(Sources) : Honest(s) \/ ~Covers(s, r))
         => latest.checks[r].verdict = "OK"

(* No value is proposed, and patched, against one that more sources         *)
(* published (_verdict: the biggest cluster).                               *)
NeverOutvoted ==
  latest # NoValue => \A r \in Rates : Drifted(latest.checks[r]) =>
    LET seen == Readings(r)
        proposed == latest.checks[r].value
        Same(v) == {i \in DOMAIN seen : seen[i] = v}
        Supporters == {i \in DOMAIN seen : Agree(seen[i], proposed)}
    IN  \A i \in DOMAIN seen : Cardinality(Same(seen[i])) <= Cardinality(Supporters)

(* An audit that reports OK has read no rate that is off the one in use by  *)
(* more than twice the tolerance: one that is close to what is close to it. *)
QuietMeansNear ==
  latest # NoValue /\ latest.status = "OK" =>
    \A r \in Rates : \A i \in DOMAIN Readings(r) : Within(Readings(r)[i], config[r], 10)
=============================================================================
