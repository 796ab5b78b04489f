--------------------------- MODULE MarketData_proofs ---------------------------
(***************************************************************************)
(* For any callers, bar length, times to live and clock: whoever is given  *)
(* bars is given complete ones, recent ones or young ones while Redis is   *)
(* behind the cache, and from a fallback only after Dhan was asked or the  *)
(* registry named Yahoo, also while callers resolve the source at once.    *)
(*                                                                         *)
(* What makes it inductive is what waits between two steps: the frames     *)
(* that were fetched and are not yet cached, the two cached frames, and    *)
(* for each request how far it is and whether it has asked Dhan.           *)
(***************************************************************************)
EXTENDS MarketData, TLAPS

Complete(f) == f.bar + Interval <= now

\* A frame on its way to the cache is complete and was fetched a moment ago.
FramesWait ==
    \A c \in Callers : frame[c] # None =>
        Complete(frame[c]) /\ now <= frame[c].at + Slow

\* A cached frame is complete, and the short-lived one expires in time.
CacheKeeps ==
    /\ bars # None => Complete(bars.frame) /\ bars.until <= bars.frame.at + Slow + BarsTTL
    /\ stale # None => Complete(stale.frame)

\* A request past its routing has asked Dhan or was given Yahoo; the flag is
\* up inside the chain only.  What the registry has installed by then is no
\* part of it: it may change under a request.
Resolving == {"resolve", "ping", "install"}
Beyond == {"legacy", "fetch", "store"}
Routed(c) ==
    /\ pc[c] = "install" => given[c] # None
    /\ pc[c] = "chain" => guard[c]
    /\ guard[c] => pc[c] \notin {"idle"} \cup Resolving
    /\ pc[c] = "route" /\ guard[c] => asked[c]
    /\ pc[c] \in Beyond => asked[c] \/ given[c] = "yfinance"
AllRouted == \A c \in Callers : Routed(c)

ServedWell == NoFormingBar /\ RecentOrYoung /\ DhanIsAskedFirst

IInv == TypeOK /\ FramesWait /\ CacheKeeps /\ AllRouted /\ ServedWell

-------------------------------------------------------------------------------
(* Helpers.                                                                *)

LEMMA FrameIsNotNone == \A f \in Frame : f # None
BY DataAssumption DEF DataAssumption, Frame

\* The start of the bar a clock is in is not in its future.
LEMMA BarBegins ==
    ASSUME NEW n \in Nat, NEW lag \in Nat
    PROVE  LastBar(n, lag) \in Int /\ LastBar(n, lag) <= n
<1>0. Interval \in Nat \ {0}
  BY DataAssumption DEF DataAssumption
<1>1. PICK q \in Nat : q = n \div Interval /\ q * Interval <= n
  BY <1>0
<1>2. lag * Interval \in Nat /\ (q - lag) * Interval = q * Interval - lag * Interval
  BY <1>0
<1>3. QED
  BY <1>0, <1>1, <1>2 DEF LastBar

\* What an upstream returns is complete, and was asked for a moment ago.
LEMMA FetchedWhole ==
    ASSUME now \in Nat, NEW source, NEW f \in Fetched(source)
    PROVE  f \in Frame /\ f # None /\ Complete(f) /\ f.at <= now /\ now <= f.at + Slow
<1> USE DataAssumption DEF DataAssumption
<1>1. PICK t \in Lately, lag \in 0 .. MaxLag :
        /\ f = [bar |-> Trim(LastBar(t, lag), IF source = "dhan" THEN t ELSE now), at |-> t]
        /\ f.bar >= 0
  BY DEF Fetched
<1>2. t \in Nat /\ t <= now /\ now <= t + Slow /\ lag \in Nat
  BY DEF Lately
<1>3. PICK seen \in Nat : seen = (IF source = "dhan" THEN t ELSE now) /\ t <= seen /\ seen <= now
  BY <1>2
<1>4. PICK start \in Int : start = LastBar(t, lag) /\ start <= t
  BY <1>2, BarBegins
<1>5. Trim(start, seen) \in Int /\ Trim(start, seen) + Interval <= seen
  BY <1>2, <1>3, <1>4 DEF Trim
<1>6. f = [bar |-> Trim(start, seen), at |-> t]
  BY <1>1, <1>3, <1>4
<1>7. f.bar = Trim(start, seen) /\ f.at = t
  BY <1>6
<1>8. f.bar \in Nat /\ f \in Frame
  BY <1>1, <1>2, <1>5, <1>6, <1>7 DEF Frame
<1>9. f.bar + Interval <= now
  BY <1>3, <1>5, <1>7, <1>8
<1>10. QED
  BY <1>2, <1>7, <1>8, <1>9, FrameIsNotNone DEF Complete

\* What a call that returns leaves behind.
LEMMA ReturnLeaves ==
    ASSUME TypeOK, NEW c \in Callers, NEW f \in Frame \cup {None}, NEW via \in Vias,
           Return(c, f, via)
    PROVE  /\ pc' \in [Callers -> Labels]
           /\ guard' = [guard EXCEPT ![c] = FALSE] /\ asked' \in [Callers -> BOOLEAN]
           /\ given' \in [Callers -> Sources \cup {None}]
           /\ frame' = [frame EXCEPT ![c] = None]
           /\ pc' = [pc EXCEPT ![c] = IF f = None /\ guard[c] THEN "legacy" ELSE "idle"]
           /\ \A d \in Callers :
                d # c \/ (f = None /\ guard[c]) => asked'[d] = asked[d] /\ given'[d] = given[d]
           /\ served' # None =>
                /\ f # None
                /\ served' = [frame |-> f, via |-> via, asked |-> asked[c], given |-> given[c]]
           /\ served' \in Answers \cup {None}
<1>1. CASE f = None /\ guard[c]
  BY <1>1 DEF Return, Goto, TypeOK, Labels
<1>2. CASE ~(f = None /\ guard[c])
  <2>1. /\ pc' = [pc EXCEPT ![c] = "idle"] /\ asked' = [asked EXCEPT ![c] = FALSE]
        /\ given' = [given EXCEPT ![c] = None]
        /\ served' = IF f = None THEN None
                     ELSE [frame |-> f, via |-> via, asked |-> asked[c], given |-> given[c]]
        /\ guard' = [guard EXCEPT ![c] = FALSE] /\ frame' = [frame EXCEPT ![c] = None]
    BY <1>2, Zenon DEF Return, Goto
  <2>2. asked[c] \in BOOLEAN /\ given[c] \in Sources \cup {None}
    BY DEF TypeOK
  <2>3. served' \in Answers \cup {None}
    BY <2>1, <2>2 DEF Answers
  <2>4. /\ pc' \in [Callers -> Labels]
        /\ asked' \in [Callers -> BOOLEAN] /\ given' \in [Callers -> Sources \cup {None}]
    BY <2>1 DEF TypeOK, Labels
  <2>5. \A d \in Callers : d # c => asked'[d] = asked[d] /\ given'[d] = given[d]
    BY <2>1 DEF TypeOK
  <2>6. QED
    BY <1>2, <2>1, <2>3, <2>4, <2>5
<1>3. QED
  BY <1>1, <1>2

\* Each step that may end a call, as the call's answer or its going on.
Goes(c, label) == Goto(c, label) /\ served' = None

LEMMA ReadCacheCases ==
    ASSUME NEW c \in Callers, ReadCache(c)
    PROVE  \/ Return(c, None, "fetch")
           \/ cacheUp /\ Alive(bars) /\ Return(c, bars.frame, "cache")
           \/ Goes(c, "fetch") /\ UNCHANGED <<guard, given, asked, frame>>
BY Zenon DEF ReadCache, Raise, Goes

LEMMA StoreCases ==
    ASSUME NEW c \in Callers, Store(c)
    PROVE  \/ /\ bars' = [frame |-> frame[c], until |-> now + BarsTTL]
              /\ stale' = [frame |-> frame[c], until |-> now + StaleTTL]
              /\ Return(c, frame[c], "fetch")
           \/ Return(c, None, "fetch") /\ UNCHANGED <<bars, stale>>
BY Zenon DEF Store, Raise

LEMMA ServeStaleCases ==
    ASSUME NEW c \in Callers, ServeStale(c)
    PROVE  \/ Alive(stale) /\ YoungEnough(stale.frame) /\ Return(c, stale.frame, "stale")
           \/ Return(c, None, "stale")
BY Zenon DEF ServeStale

\* What history() comes back with.
LEMMA HistoryFrames ==
    ASSUME NEW c \in Callers, History(c)
    PROVE  \E f \in Fetched("yfinance") \cup Fetched("dhan") \cup {None} :
              frame' = [frame EXCEPT ![c] = f]
BY DEF History

-------------------------------------------------------------------------------
(* Types.                                                                  *)

LEMMA TypeInit == Init => TypeOK
BY DataAssumption DEF DataAssumption, Init, TypeOK, Entry, Labels

LEMMA ProbedType == TypeOK => Probed \in [ok : BOOLEAN, until : Nat]
BY DataAssumption DEF DataAssumption, Probed, TypeOK

\* A step of one caller keeps the types.
LEMMA TypeCall ==
    ASSUME TypeOK, AllRouted, NEW c \in Callers, Ask(c) \/ Step(c)
    PROVE  TypeOK'
<1> USE DataAssumption DEF DataAssumption
<1>1. Probed \in [ok : BOOLEAN, until : Nat]
  BY ProbedType
<1>2. CASE Ask(c)
  BY <1>2 DEF Ask, TypeOK, Goto, environment, Labels
<1>0. ASSUME NEW source \in Sources, Give(c, source)
      PROVE  /\ given' \in [Callers -> Sources \cup {None}] /\ guard' \in [Callers -> BOOLEAN]
             /\ pc' \in [Callers -> Labels]
  <2>1. given' \in [Callers -> Sources \cup {None}]
    BY <1>0 DEF Give, TypeOK
  <2>2. guard' \in [Callers -> BOOLEAN]
    BY <1>0 DEF Give, TypeOK
  <2>3. pc' \in [Callers -> Labels]
    BY <1>0 DEF Give, Goto, TypeOK, Labels
  <2>4. QED
    BY <2>1, <2>2, <2>3
<1>3. CASE Route(c)
  <2>1. UNCHANGED <<now, kind, cacheUp, dhanUp, bars, stale, health, active, asked, frame>>
        /\ served' = None
    BY <1>3 DEF Route, environment
  <2>2. \/ Goto(c, "legacy") /\ UNCHANGED <<guard, given>>
        \/ Goto(c, "resolve") /\ UNCHANGED <<guard, given>>
        \/ active \in Sources /\ Give(c, active)
    BY <1>3, Zenon DEF Route, TypeOK
  <2>3. /\ given' \in [Callers -> Sources \cup {None}] /\ guard' \in [Callers -> BOOLEAN]
        /\ pc' \in [Callers -> Labels]
    BY <1>0, <2>2 DEF Goto, TypeOK, Labels
  <2>4. QED
    BY <2>1, <2>3 DEF TypeOK
<1>12. CASE Resolve(c)
  <2>1. given' \in [Callers -> Sources \cup {None}] /\ pc' \in [Callers -> Labels]
    BY <1>12 DEF Resolve, Goto, Chosen, Sources, Labels, TypeOK
  <2>2. QED
    BY <1>12, <2>1 DEF Resolve, TypeOK, environment
<1>13. CASE Ping(c)
  <2>1. given' \in [Callers -> Sources \cup {None}] /\ pc' \in [Callers -> Labels]
        /\ health' \in [ok : BOOLEAN, until : Nat]
    BY <1>13 DEF Ping, Goto, Chosen, Sources, Labels, TypeOK
  <2>2. QED
    BY <1>13, <2>1 DEF Ping, TypeOK, environment
<1>14. CASE Install(c)
  <2>1. given[c] \in Sources
    BY <1>14 DEF Install, AllRouted, Routed, TypeOK
  <2>2. /\ given' \in [Callers -> Sources \cup {None}] /\ guard' \in [Callers -> BOOLEAN]
        /\ pc' \in [Callers -> Labels]
    BY <1>0, <1>14, <2>1 DEF Install
  <2>3. QED
    BY <1>14, <2>1, <2>2 DEF Install, TypeOK, environment
<1>4. CASE DhanAnswers(c)
  <2>1. PICK f \in Fetched("dhan") : Return(c, f, "dhan")
    BY <1>4 DEF DhanAnswers
  <2>2. f \in Frame
    BY FetchedWhole DEF TypeOK
  <2>3. /\ UNCHANGED <<now, kind, cacheUp, dhanUp, bars, stale, active>>
        /\ health' \in [ok : BOOLEAN, until : Nat]
    BY <1>1, <1>4 DEF DhanAnswers, environment
  <2>4. /\ pc' \in [Callers -> Labels] /\ guard' = [guard EXCEPT ![c] = FALSE]
        /\ asked' \in [Callers -> BOOLEAN] /\ given' \in [Callers -> Sources \cup {None}]
        /\ frame' = [frame EXCEPT ![c] = None]
        /\ served' \in Answers \cup {None}
    BY <2>1, <2>2, ReturnLeaves DEF Vias
  <2>5. QED
    BY <2>3, <2>4 DEF TypeOK
<1>5. CASE DhanPasses(c)
  BY <1>1, <1>5 DEF DhanPasses, TypeOK, Goto, environment, Labels
<1>6. CASE DhanRaises(c)
  BY <1>1, <1>6 DEF DhanRaises, TypeOK, Goto, environment, Labels
<1>7. CASE ReadCache(c)
  <2>1. Alive(bars) => bars.frame \in Frame
    BY DEF Alive, TypeOK, Entry
  <2>2. UNCHANGED <<now, environment, bars, stale, health, active>>
    BY <1>7 DEF ReadCache
  <2>3. CASE Return(c, None, "fetch")
    BY <2>2, <2>3, ReturnLeaves DEF TypeOK, environment, Vias
  <2>4. CASE Alive(bars) /\ Return(c, bars.frame, "cache")
    BY <2>1, <2>2, <2>4, ReturnLeaves DEF TypeOK, environment, Vias
  <2>5. CASE Goes(c, "fetch") /\ UNCHANGED <<guard, given, asked, frame>>
    BY <2>2, <2>5 DEF Goes, Goto, TypeOK, environment, Labels
  <2>6. QED
    BY <1>7, <2>3, <2>4, <2>5, ReadCacheCases
<1>8. CASE History(c)
  <2>1. PICK f \in Fetched("yfinance") \cup Fetched("dhan") \cup {None} :
             frame' = [frame EXCEPT ![c] = f]
    BY <1>8, HistoryFrames
  <2>2. f \in Frame \cup {None}
    BY FetchedWhole DEF TypeOK
  <2>3. frame' \in [Callers -> Frame \cup {None}]
    BY <2>1, <2>2 DEF TypeOK
  <2>4. health' \in [ok : BOOLEAN, until : Nat]
    BY <1>1, <1>8 DEF History, TypeOK
  <2>5. asked' \in [Callers -> BOOLEAN] /\ pc' \in [Callers -> Labels]
    BY <1>8 DEF History, Goto, TypeOK, Labels
  <2>6. QED
    BY <1>8, <2>3, <2>4, <2>5 DEF History, TypeOK, environment
<1>9. CASE Store(c)
  <2>1. frame[c] \in Frame
    BY <1>9 DEF Store, TypeOK
  <2>2. UNCHANGED <<now, environment, health, active>>
    BY <1>9 DEF Store
  <2>3. CASE /\ bars' = [frame |-> frame[c], until |-> now + BarsTTL]
             /\ stale' = [frame |-> frame[c], until |-> now + StaleTTL]
             /\ Return(c, frame[c], "fetch")
    <3>1. bars' \in Entry /\ stale' \in Entry
      BY <2>1, <2>3 DEF Entry, TypeOK
    <3>2. QED
      BY <2>1, <2>2, <2>3, <3>1, ReturnLeaves DEF TypeOK, environment, Vias
  <2>4. CASE Return(c, None, "fetch") /\ UNCHANGED <<bars, stale>>
    BY <2>2, <2>4, ReturnLeaves DEF TypeOK, environment, Vias
  <2>5. QED
    BY <1>9, <2>3, <2>4, StoreCases
<1>10. CASE ServeStale(c)
  <2>1. Alive(stale) => stale.frame \in Frame
    BY DEF Alive, TypeOK, Entry
  <2>2. UNCHANGED <<now, environment, bars, stale, health, active>>
    BY <1>10 DEF ServeStale
  <2>3. CASE Alive(stale) /\ Return(c, stale.frame, "stale")
    BY <2>1, <2>2, <2>3, ReturnLeaves DEF TypeOK, environment, Vias
  <2>4. CASE Return(c, None, "stale")
    BY <2>2, <2>4, ReturnLeaves DEF TypeOK, environment, Vias
  <2>5. QED
    BY <1>10, <2>3, <2>4, ServeStaleCases
<1>11. QED
  BY <1>2, <1>3, <1>4, <1>5, <1>6, <1>7, <1>8, <1>9, <1>10, <1>12, <1>13, <1>14 DEF Step

LEMMA TypeStep == TypeOK /\ AllRouted /\ [Next]_vars => TypeOK'
<1> SUFFICES ASSUME TypeOK, AllRouted, [Next]_vars
             PROVE  TypeOK'
  OBVIOUS
<1>1. ASSUME NEW c \in Callers, Ask(c) \/ Step(c)
      PROVE  TypeOK'
  BY <1>1, TypeCall
<1>2. CASE Tick
  BY <1>2 DEF Tick, TypeOK, environment
<1>3. CASE DhanFlips
  BY <1>3 DEF DhanFlips, TypeOK
<1>4. CASE CacheFlips
  BY <1>4 DEF CacheFlips, TypeOK
<1>5. CASE Restart
  <2>1. /\ kind' \in {"redis", "memory"} /\ cacheUp' \in BOOLEAN /\ UNCHANGED <<now, dhanUp>>
        /\ bars' \in Entry \cup {None} /\ stale' \in Entry \cup {None}
    BY <1>5 DEF Restart, TypeOK
  <2>2. /\ pc' \in [Callers -> Labels]
        /\ guard' \in [Callers -> BOOLEAN] /\ asked' \in [Callers -> BOOLEAN]
        /\ given' \in [Callers -> Sources \cup {None}]
        /\ frame' \in [Callers -> Frame \cup {None}] /\ served' = None
        /\ health' \in [ok : BOOLEAN, until : Nat] /\ active' = None
    BY <1>5 DEF Restart, Labels
  <2>3. QED
    BY <2>1, <2>2 DEF TypeOK
<1>6. CASE UNCHANGED vars
  BY <1>6 DEF vars, environment, TypeOK
<1>7. QED
  BY <1>1, <1>2, <1>3, <1>4, <1>5, <1>6 DEF Next

-------------------------------------------------------------------------------
(* Frames that wait.                                                       *)

\* Only a fetch puts a frame on its way; only the clock makes it older.
LEMMA FramesStep ==
    ASSUME TypeOK, FramesWait, [Next]_vars
    PROVE  FramesWait'
<1> USE DataAssumption DEF DataAssumption
<1>1. SUFFICES ASSUME NEW d \in Callers, frame'[d] # None
               PROVE  frame'[d].bar + Interval <= now' /\ now' <= frame'[d].at + Slow
  BY DEF FramesWait, Complete
<1>2. ASSUME now' = now, frame'[d] = frame[d]
      PROVE  frame'[d].bar + Interval <= now' /\ now' <= frame'[d].at + Slow
  BY <1>1, <1>2 DEF FramesWait, Complete
<1>3. ASSUME NEW c \in Callers, NEW f, NEW via, now' = now, Return(c, f, via)
      PROVE  frame'[d] = frame[d]
  <2>1. frame' = [frame EXCEPT ![c] = None]
    BY <1>3 DEF Return
  <2>2. QED
    BY <1>1, <2>1 DEF TypeOK
<1>4. ASSUME NEW c \in Callers, Ask(c) \/ Step(c)
      PROVE  frame'[d].bar + Interval <= now' /\ now' <= frame'[d].at + Slow
  <2>1. now' = now
    BY <1>4 DEF Ask, Step, Route, Resolve, Ping, Install, DhanAnswers, DhanPasses, DhanRaises, ReadCache, History, Store,
                ServeStale
  <2>2. CASE \/ Ask(c) \/ Route(c) \/ Resolve(c) \/ Ping(c) \/ Install(c)
             \/ DhanPasses(c) \/ DhanRaises(c)
    BY <1>2, <2>1, <2>2 DEF Ask, Route, Resolve, Ping, Install, DhanPasses, DhanRaises
  <2>3. CASE DhanAnswers(c)
    BY <1>2, <1>3, <2>1, <2>3 DEF DhanAnswers
  <2>4. CASE ReadCache(c)
    BY <1>2, <1>3, <2>1, <2>4, ReadCacheCases
  <2>5. CASE Store(c)
    BY <1>2, <1>3, <2>1, <2>5, StoreCases
  <2>6. CASE ServeStale(c)
    BY <1>2, <1>3, <2>1, <2>6, ServeStaleCases
  <2>7. CASE History(c)
    <3>1. PICK f \in Fetched("yfinance") \cup Fetched("dhan") \cup {None} :
               frame' = [frame EXCEPT ![c] = f]
      BY <2>7, HistoryFrames
    <3>2. CASE d # c
      BY <1>2, <2>1, <3>1, <3>2 DEF TypeOK
    <3>3. CASE d = c
      <4>1. frame'[d] = f /\ f \in Fetched("yfinance") \cup Fetched("dhan")
        BY <1>1, <3>1, <3>3 DEF TypeOK
      <4>2. Complete(f) /\ now <= f.at + Slow
        BY <4>1, FetchedWhole DEF TypeOK
      <4>3. QED
        BY <2>1, <4>1, <4>2 DEF Complete
    <3>4. QED
      BY <3>2, <3>3
  <2>8. QED
    BY <1>4, <2>2, <2>3, <2>4, <2>5, <2>6, <2>7 DEF Step
<1>5. CASE Tick
  <2>1. now' = now + 1 /\ frame' = frame /\ now < frame[d].at + Slow
    BY <1>1, <1>5 DEF Tick
  <2>2. frame[d] \in Frame /\ Complete(frame[d])
    BY <1>1, <2>1 DEF FramesWait, TypeOK
  <2>3. QED
    BY <2>1, <2>2 DEF Complete, TypeOK, Frame
<1>6. CASE DhanFlips \/ CacheFlips \/ UNCHANGED vars
  BY <1>2, <1>6 DEF DhanFlips, CacheFlips, vars
<1>7. CASE Restart
  BY <1>1, <1>7 DEF Restart
<1>8. QED
  BY <1>4, <1>5, <1>6, <1>7 DEF Next

\* The cache is filled with a frame that waited, and otherwise kept or lost.
LEMMA CacheStep ==
    ASSUME TypeOK, FramesWait, CacheKeeps, [Next]_vars
    PROVE  CacheKeeps'
<1> USE DataAssumption DEF DataAssumption
<1>1. ASSUME now' \in {now, now + 1}, UNCHANGED <<bars, stale>>
      PROVE  CacheKeeps'
  <2>1. bars # None => bars.frame.bar \in Nat
    BY DEF TypeOK, Entry, Frame
  <2>2. stale # None => stale.frame.bar \in Nat
    BY DEF TypeOK, Entry, Frame
  <2>3. QED
    BY <1>1, <2>1, <2>2 DEF CacheKeeps, Complete, TypeOK
<1>2. ASSUME NEW c \in Callers, Ask(c) \/ Step(c)
      PROVE  CacheKeeps'
  <2>1. now' = now
    BY <1>2 DEF Ask, Step, Route, Resolve, Ping, Install, DhanAnswers, DhanPasses, DhanRaises, ReadCache, History, Store,
                ServeStale
  <2>2. CASE \/ Ask(c) \/ Route(c) \/ Resolve(c) \/ Ping(c) \/ Install(c)
             \/ DhanAnswers(c) \/ DhanPasses(c) \/ DhanRaises(c)
             \/ ReadCache(c) \/ History(c) \/ ServeStale(c)
    <3>1. UNCHANGED <<bars, stale>>
      BY <2>2 DEF Ask, Route, Resolve, Ping, Install, DhanAnswers, DhanPasses, DhanRaises, ReadCache, History, ServeStale
    <3>2. QED
      BY <1>1, <2>1, <3>1
  <2>3. CASE Store(c)
    <3>1. CASE UNCHANGED <<bars, stale>>
      BY <1>1, <2>1, <3>1
    <3>2. CASE /\ bars' = [frame |-> frame[c], until |-> now + BarsTTL]
               /\ stale' = [frame |-> frame[c], until |-> now + StaleTTL]
      <4>1. frame[c] \in Frame /\ Complete(frame[c]) /\ now <= frame[c].at + Slow
        BY <2>3 DEF Store, FramesWait, TypeOK
      <4>2. bars'.frame = frame[c] /\ stale'.frame = frame[c] /\ bars'.until = now + BarsTTL
        BY <3>2
      <4>3. now + BarsTTL <= frame[c].at + Slow + BarsTTL
        BY <4>1 DEF TypeOK, Frame
      <4>4. QED
        BY <2>1, <4>1, <4>2, <4>3 DEF CacheKeeps, Complete
    <3>3. QED
      BY <2>3, <3>1, <3>2, StoreCases
  <2>4. QED
    BY <1>2, <2>2, <2>3 DEF Step
<1>3. CASE Tick
  BY <1>1, <1>3 DEF Tick
<1>4. CASE DhanFlips \/ CacheFlips \/ UNCHANGED vars
  BY <1>1, <1>4 DEF DhanFlips, CacheFlips, vars
<1>5. CASE Restart
  BY <1>1, <1>5 DEF Restart, CacheKeeps
<1>6. QED
  BY <1>2, <1>3, <1>4, <1>5 DEF Next

-------------------------------------------------------------------------------
(* Requests.                                                               *)

LEMMA RoutedStep ==
    ASSUME TypeOK, AllRouted, [Next]_vars
    PROVE  AllRouted'
<1>1. SUFFICES ASSUME NEW d \in Callers
               PROVE  Routed(d)'
  BY DEF AllRouted
<1>2. Routed(d)
  BY DEF AllRouted
<1>3. ASSUME pc'[d] = pc[d], guard'[d] = guard[d], asked'[d] = asked[d], given'[d] = given[d]
      PROVE  Routed(d)'
  BY <1>2, <1>3 DEF Routed
<1>4. ASSUME NEW c \in Callers, NEW f \in Frame \cup {None}, NEW via \in Vias,
             Return(c, f, via), f = None => pc[c] \in Beyond
      PROVE  Routed(d)'
  <2>1. CASE d # c
    <3>1. pc'[d] = pc[d] /\ guard'[d] = guard[d] /\ asked'[d] = asked[d] /\ given'[d] = given[d]
      BY <1>4, <2>1, ReturnLeaves DEF TypeOK
    <3>2. QED
      BY <1>3, <3>1
  <2>2. CASE d = c /\ f = None /\ guard[c]
    <3>1. pc'[d] = "legacy" /\ ~guard'[d] /\ asked'[d] = asked[d] /\ given'[d] = given[d]
      BY <1>4, <2>2, ReturnLeaves DEF TypeOK
    <3>2. QED
      BY <1>2, <1>4, <2>2, <3>1 DEF Routed, Beyond, Resolving
  <2>3. CASE d = c /\ ~(f = None /\ guard[c])
    <3>0. /\ pc' = [pc EXCEPT ![c] = "idle"]
          /\ guard' = [guard EXCEPT ![c] = FALSE]
      BY <1>4, <2>3, Zenon DEF Return, Goto
    <3>1. pc'[d] = "idle" /\ ~guard'[d]
      BY <2>3, <3>0 DEF TypeOK
    <3>2. QED
      BY <3>1 DEF Routed, Beyond, Resolving
  <2>4. QED
    BY <2>1, <2>2, <2>3
<1>5. ASSUME NEW c \in Callers, Ask(c) \/ Step(c)
      PROVE  Routed(d)'
  <2>1. CASE Ask(c)
    <3>1. pc' = [pc EXCEPT ![c] = "route"] /\ UNCHANGED <<guard, asked, given>> /\ pc[c] = "idle"
      BY <2>1 DEF Ask, Goto
    <3>2. CASE d # c
      BY <1>3, <3>1, <3>2 DEF TypeOK
    <3>3. CASE d = c
      BY <1>2, <3>1, <3>3 DEF Routed, Beyond, Resolving, TypeOK
    <3>4. QED
      BY <3>2, <3>3
  <2>0. ASSUME NEW source \in Sources, Give(c, source), asked' = asked
        PROVE  Routed(d)'
    <3>1. /\ given' = [given EXCEPT ![c] = source]
          /\ guard' = [guard EXCEPT ![c] = (source = "chain")]
          /\ pc' = [pc EXCEPT ![c] = IF source = "chain" THEN "chain" ELSE "legacy"]
      BY <2>0 DEF Give, Goto
    <3>2. CASE d # c
      BY <1>3, <2>0, <3>1, <3>2 DEF TypeOK
    <3>3. CASE d = c /\ source = "chain"
      <4>1. guard'[d] /\ pc'[d] = "chain"
        BY <3>1, <3>3 DEF TypeOK
      <4>2. QED
        BY <4>1 DEF Routed, Beyond, Resolving
    <3>4. CASE d = c /\ source = "yfinance"
      <4>1. ~guard'[d] /\ pc'[d] = "legacy" /\ given'[d] = "yfinance"
        BY <3>1, <3>4 DEF TypeOK
      <4>2. QED
        BY <4>1 DEF Routed, Beyond, Resolving
    <3>5. QED
      BY <2>0, <3>2, <3>3, <3>4 DEF Sources
  <2>2. CASE Route(c)
    <3>1. CASE Reentered(c)
      <4>1. /\ pc[c] = "route" /\ guard[c] /\ pc' = [pc EXCEPT ![c] = "legacy"]
            /\ UNCHANGED <<guard, asked, given>>
        BY <2>2, <3>1, Zenon DEF Route, Reentered, Goto
      <4>2. CASE d # c
        BY <1>3, <4>1, <4>2 DEF TypeOK
      <4>3. CASE d = c
        BY <1>2, <4>1, <4>3 DEF Routed, Beyond, Resolving, TypeOK
      <4>4. QED
        BY <4>2, <4>3
    <3>2. CASE ~Reentered(c) /\ active = None
      <4>1. /\ ~guard[c] /\ pc' = [pc EXCEPT ![c] = "resolve"]
            /\ UNCHANGED <<guard, asked, given>>
        BY <2>2, <3>2, Zenon DEF Route, Reentered, Goto
      <4>2. CASE d # c
        BY <1>3, <4>1, <4>2 DEF TypeOK
      <4>3. CASE d = c
        BY <1>2, <4>1, <4>3 DEF Routed, Beyond, Resolving, TypeOK
      <4>4. QED
        BY <4>2, <4>3
    <3>3. CASE ~Reentered(c) /\ active # None
      <4>1. Give(c, active) /\ asked' = asked
        BY <2>2, <3>3, Zenon DEF Route
      <4>2. active \in Sources
        BY <3>3 DEF TypeOK
      <4>3. QED
        BY <2>0, <4>1, <4>2
    <3>4. QED
      BY <3>1, <3>2, <3>3
  <2>11. CASE Resolve(c) \/ Ping(c)
    <3>1. /\ pc[c] \in Resolving /\ UNCHANGED <<guard, asked>>
          /\ \/ pc' = [pc EXCEPT ![c] = "ping"] /\ given' = given
             \/ \E source \in Sources : /\ pc' = [pc EXCEPT ![c] = "install"]
                                       /\ given' = [given EXCEPT ![c] = source]
      BY <2>11 DEF Resolve, Ping, Goto, Chosen, Sources, Resolving
    <3>2. CASE d # c
      BY <1>3, <3>1, <3>2 DEF TypeOK
    <3>3. CASE d = c
      <4>1. ~guard'[d]
        BY <1>2, <3>1, <3>3 DEF Routed
      <4>2. pc'[d] = "ping" \/ (pc'[d] = "install" /\ given'[d] \in Sources)
        BY <3>1, <3>3 DEF TypeOK
      <4>3. None \notin Sources
        BY DataAssumption DEF DataAssumption, Sources
      <4>4. QED
        BY <4>1, <4>2, <4>3 DEF Routed, Beyond, Resolving
    <3>4. QED
      BY <3>2, <3>3
  <2>12. CASE Install(c)
    <3>1. given[c] \in Sources
      BY <2>12 DEF Install, AllRouted, Routed, TypeOK
    <3>2. QED
      BY <2>0, <2>12, <3>1 DEF Install
  <2>3. CASE DhanAnswers(c)
    <3>1. PICK f \in Fetched("dhan") : Return(c, f, "dhan")
      BY <2>3 DEF DhanAnswers
    <3>2. f \in Frame /\ f # None
      BY FetchedWhole DEF TypeOK
    <3>3. QED
      BY <1>4, <3>1, <3>2 DEF Vias
  <2>4. CASE DhanPasses(c)
    <3>1. /\ pc[c] = "chain" /\ asked' = [asked EXCEPT ![c] = TRUE]
          /\ pc' = [pc EXCEPT ![c] = "route"] /\ UNCHANGED <<guard, given>>
      BY <2>4 DEF DhanPasses, Goto
    <3>2. CASE d # c
      BY <1>3, <3>1, <3>2 DEF TypeOK
    <3>3. CASE d = c
      BY <1>2, <3>1, <3>3 DEF Routed, Beyond, Resolving, TypeOK
    <3>4. QED
      BY <3>2, <3>3
  <2>5. CASE DhanRaises(c)
    <3>1. /\ pc[c] = "chain" /\ asked' = [asked EXCEPT ![c] = TRUE]
          /\ guard' = [guard EXCEPT ![c] = FALSE]
          /\ pc' = [pc EXCEPT ![c] = "legacy"] /\ given' = given
      BY <2>5 DEF DhanRaises, Goto
    <3>2. CASE d # c
      BY <1>3, <3>1, <3>2 DEF TypeOK
    <3>3. CASE d = c
      BY <1>2, <3>1, <3>3 DEF Routed, Beyond, Resolving, TypeOK
    <3>4. QED
      BY <3>2, <3>3
  <2>6. CASE ReadCache(c)
    <3>1. Alive(bars) => bars.frame \in Frame
      BY DEF Alive, TypeOK, Entry
    <3>2. pc[c] = "legacy"
      BY <2>6 DEF ReadCache
    <3>3. CASE Goes(c, "fetch") /\ UNCHANGED <<guard, given, asked, frame>>
      <4>1. pc' = [pc EXCEPT ![c] = "fetch"]
        BY <3>3 DEF Goes, Goto
      <4>2. CASE d # c
        BY <1>3, <3>2, <3>3, <4>1, <4>2 DEF TypeOK
      <4>3. CASE d = c
        BY <1>2, <3>2, <3>3, <4>1, <4>3 DEF Routed, Beyond, Resolving, TypeOK
      <4>4. QED
        BY <4>2, <4>3
    <3>4. CASE Return(c, None, "fetch")
      BY <1>4, <3>2, <3>4 DEF Vias, Beyond
    <3>5. CASE Alive(bars) /\ Return(c, bars.frame, "cache")
      BY <1>4, <3>1, <3>2, <3>5 DEF Vias, Beyond
    <3>6. QED
      BY <2>6, <3>3, <3>4, <3>5, ReadCacheCases
  <2>7. CASE History(c)
    <3>1. /\ pc[c] = "fetch" /\ pc' = [pc EXCEPT ![c] = "store"]
          /\ UNCHANGED <<guard, given>>
          /\ asked' \in {asked, [asked EXCEPT ![c] = TRUE]}
      BY <2>7 DEF History, Goto
    <3>2. CASE d # c
      BY <1>3, <3>1, <3>2 DEF TypeOK
    <3>3. CASE d = c
      BY <1>2, <3>1, <3>3 DEF Routed, Beyond, Resolving, TypeOK
    <3>4. QED
      BY <3>2, <3>3
  <2>8. CASE Store(c)
    <3>1. frame[c] \in Frame \cup {None} /\ pc[c] = "store"
      BY <2>8 DEF Store, TypeOK
    <3>2. QED
      BY <1>4, <2>8, <3>1, StoreCases DEF Vias, Beyond
  <2>9. CASE ServeStale(c)
    <3>1. Alive(stale) => stale.frame \in Frame
      BY DEF Alive, TypeOK, Entry
    <3>2. pc[c] = "store"
      BY <2>9 DEF ServeStale
    <3>3. QED
      BY <1>4, <2>9, <3>1, <3>2, ServeStaleCases DEF Vias, Beyond
  <2>10. QED
    BY <1>5, <2>1, <2>2, <2>3, <2>4, <2>5, <2>6, <2>7, <2>8, <2>9, <2>11, <2>12 DEF Step
<1>6. CASE Tick \/ DhanFlips \/ CacheFlips \/ UNCHANGED vars
  BY <1>3, <1>6 DEF Tick, DhanFlips, CacheFlips, vars
<1>7. CASE Restart
  BY <1>7 DEF Restart, Routed, Beyond, Resolving
<1>8. QED
  BY <1>5, <1>6, <1>7 DEF Next

-------------------------------------------------------------------------------
(* Answers.                                                                *)

\* A call's answer is good if the frame it returns is.
LEMMA AnswerServes ==
    ASSUME TypeOK, NEW c \in Callers, NEW f \in Frame \cup {None}, NEW via \in Vias,
           Return(c, f, via), now' = now,
           f # None => Complete(f),
           f # None /\ kind' = "redis" => RecentEnough(f),
           via # "dhan" => asked[c] \/ given[c] = "yfinance"
    PROVE  ServedWell'
<1>1. CASE served' = None
  BY <1>1 DEF ServedWell, NoFormingBar, RecentOrYoung, DhanIsAskedFirst
<1>2. CASE served' # None
  <2>1. /\ f # None
        /\ served' = [frame |-> f, via |-> via, asked |-> asked[c], given |-> given[c]]
    BY <1>2, ReturnLeaves
  <2>2. /\ served'.frame = f /\ served'.via = via
        /\ served'.asked = asked[c] /\ served'.given = given[c]
    BY <2>1
  <2>3. NoFormingBar'
    BY <2>1, <2>2 DEF NoFormingBar, Complete
  <2>4. RecentOrYoung'
    BY <2>1, <2>2 DEF RecentOrYoung, RecentEnough
  <2>5. DhanIsAskedFirst'
    BY <2>2 DEF DhanIsAskedFirst
  <2>6. QED
    BY <2>3, <2>4, <2>5 DEF ServedWell
<1>3. QED
  BY <1>1, <1>2

\* With Redis, an entry that is still alive holds a recent frame.
LEMMA AliveIsRecent ==
    ASSUME TypeOK, CacheKeeps, bars # None, kind = "redis", now < bars.until
    PROVE  RecentEnough(bars.frame)
<1>1. bars.until <= bars.frame.at + Slow + BarsTTL /\ bars.until \in Nat /\ bars.frame.at \in Nat
  BY DEF CacheKeeps, TypeOK, Entry, Frame
<1>2. now - bars.frame.at <= BarsTTL + Slow
  BY <1>1, DataAssumption DEF DataAssumption, TypeOK
<1>3. QED
  BY <1>2 DEF RecentEnough

LEMMA ServedStep ==
    ASSUME TypeOK, FramesWait, CacheKeeps, AllRouted, ServedWell, [Next]_vars
    PROVE  ServedWell'
<1> USE DataAssumption DEF DataAssumption
<1>1. ASSUME served' = None
      PROVE  ServedWell'
  BY <1>1 DEF ServedWell, NoFormingBar, RecentOrYoung, DhanIsAskedFirst
<1>2. ASSUME NEW c \in Callers, Ask(c) \/ Step(c)
      PROVE  ServedWell'
  <2>1. UNCHANGED <<now, kind>>
    BY <1>2 DEF Ask, Step, Route, Resolve, Ping, Install, DhanAnswers, DhanPasses, DhanRaises, ReadCache, History, Store,
                ServeStale, environment
  <2>2. pc[c] \in Beyond => asked[c] \/ given[c] = "yfinance"
    BY DEF AllRouted, Routed
  <2>3. CASE \/ Ask(c) \/ Route(c) \/ Resolve(c) \/ Ping(c) \/ Install(c)
             \/ DhanPasses(c) \/ DhanRaises(c) \/ History(c)
    BY <1>1, <2>3 DEF Ask, Route, Resolve, Ping, Install, DhanPasses, DhanRaises, History
  <2>4. CASE DhanAnswers(c)
    <3>1. PICK f \in Fetched("dhan") : Return(c, f, "dhan")
      BY <2>4 DEF DhanAnswers
    <3>2. f \in Frame /\ Complete(f) /\ now <= f.at + Slow /\ now \in Nat
      BY FetchedWhole DEF TypeOK
    <3>3. RecentEnough(f)
      BY <3>2 DEF RecentEnough, Frame
    <3>4. QED
      BY <2>1, <3>1, <3>2, <3>3, AnswerServes DEF Vias
  <2>5. CASE ReadCache(c)
    <3>1. pc[c] = "legacy"
      BY <2>5 DEF ReadCache
    <3>2. asked[c] \/ given[c] = "yfinance"
      BY <2>2, <3>1 DEF Beyond
    <3>3. CASE Goes(c, "fetch") /\ UNCHANGED <<guard, given, asked, frame>>
      BY <1>1, <3>3 DEF Goes
    <3>4. CASE Return(c, None, "fetch")
      BY <2>1, <3>2, <3>4, AnswerServes DEF Vias
    <3>5. CASE Alive(bars) /\ Return(c, bars.frame, "cache")
      <4>1. bars # None /\ bars.frame \in Frame /\ Complete(bars.frame)
        BY <3>5 DEF Alive, TypeOK, Entry, CacheKeeps
      <4>2. kind' = "redis" => RecentEnough(bars.frame)
        BY <2>1, <3>5, <4>1, AliveIsRecent DEF Alive
      <4>3. QED
        BY <2>1, <3>2, <3>5, <4>1, <4>2, AnswerServes DEF Vias
    <3>6. QED
      BY <2>5, <3>3, <3>4, <3>5, ReadCacheCases
  <2>6. CASE Store(c)
    <3>1. frame[c] \in Frame /\ frame[c] # None /\ pc[c] = "store"
      BY <2>6 DEF Store, TypeOK
    <3>2. asked[c] \/ given[c] = "yfinance"
      BY <2>2, <3>1 DEF Beyond
    <3>3. Complete(frame[c]) /\ now <= frame[c].at + Slow
      BY <3>1 DEF FramesWait
    <3>4. RecentEnough(frame[c])
      BY <3>1, <3>3 DEF RecentEnough, Frame, TypeOK
    <3>5. CASE Return(c, frame[c], "fetch")
      BY <2>1, <3>1, <3>2, <3>3, <3>4, <3>5, AnswerServes DEF Vias
    <3>6. CASE Return(c, None, "fetch")
      BY <2>1, <3>2, <3>6, AnswerServes DEF Vias
    <3>7. QED
      BY <2>6, <3>5, <3>6, StoreCases
  <2>7. CASE ServeStale(c)
    <3>1. pc[c] = "store"
      BY <2>7 DEF ServeStale
    <3>2. asked[c] \/ given[c] = "yfinance"
      BY <2>2, <3>1 DEF Beyond
    <3>3. CASE Alive(stale) /\ YoungEnough(stale.frame) /\ Return(c, stale.frame, "stale")
      <4>1. stale # None /\ stale.frame \in Frame /\ Complete(stale.frame)
        BY <3>3 DEF Alive, TypeOK, Entry, CacheKeeps
      <4>2. RecentEnough(stale.frame)
        BY <3>3 DEF YoungEnough, Cutoff, RecentEnough
      <4>3. QED
        BY <2>1, <3>2, <3>3, <4>1, <4>2, AnswerServes DEF Vias
    <3>4. CASE Return(c, None, "stale")
      BY <2>1, <3>2, <3>4, AnswerServes DEF Vias
    <3>5. QED
      BY <2>7, <3>3, <3>4, ServeStaleCases
  <2>8. QED
    BY <1>2, <2>3, <2>4, <2>5, <2>6, <2>7 DEF Step
<1>3. CASE Tick \/ DhanFlips \/ CacheFlips \/ Restart
  BY <1>1, <1>3 DEF Tick, DhanFlips, CacheFlips, Restart
<1>4. CASE UNCHANGED vars
  BY <1>4 DEF vars, environment, ServedWell, NoFormingBar, RecentOrYoung, RecentEnough,
              DhanIsAskedFirst
<1>5. QED
  BY <1>2, <1>3, <1>4 DEF Next

-------------------------------------------------------------------------------
(* The theorems.                                                           *)

LEMMA InvInit == Init => IInv
<1> SUFFICES ASSUME Init
             PROVE  IInv
  OBVIOUS
<1>1. FramesWait /\ CacheKeeps /\ AllRouted
  BY DEF Init, FramesWait, CacheKeeps, AllRouted, Routed, Beyond
<1>2. ServedWell
  BY DEF Init, ServedWell, NoFormingBar, RecentOrYoung, DhanIsAskedFirst
<1>3. QED
  BY <1>1, <1>2, TypeInit DEF IInv

LEMMA InvStep == IInv /\ [Next]_vars => IInv'
BY TypeStep, FramesStep, CacheStep, RoutedStep, ServedStep DEF IInv

LEMMA Invariance == Spec => []IInv
<1>1. QED
  BY InvInit, InvStep, PTL DEF Spec

\* Every variable has its type.
THEOREM TypeCorrect == Spec => []TypeOK
<1>1. IInv => TypeOK
  BY DEF IInv
<1>2. QED
  BY <1>1, Invariance, PTL

\* However many callers ask at once, and however long a frame waited in a
\* cache, nobody is given a bar that is still forming.
THEOREM NobodySeesAFormingBar == Spec => []NoFormingBar
<1>1. IInv => NoFormingBar
  BY DEF IInv, ServedWell
<1>2. QED
  BY <1>1, Invariance, PTL

\* With Redis behind the cache, an answer is recent or within the cutoff.
THEOREM AnswersAreRecentOrYoung == Spec => []RecentOrYoung
<1>1. IInv => RecentOrYoung
  BY DEF IInv, ServedWell
<1>2. QED
  BY <1>1, Invariance, PTL

\* However requests resolve the source at once and whatever is installed
\* under them, a fallback answers only one that asked Dhan or that the
\* registry gave Yahoo: no other request's flag or source makes it skip Dhan.
THEOREM EveryRequestAsksDhan == Spec => []DhanIsAskedFirst
<1>1. IInv => DhanIsAskedFirst
  BY DEF IInv, ServedWell
<1>2. QED
  BY <1>1, Invariance, PTL
=============================================================================
